---------------------------- MODULE IntakeProofs ----------------------------
(***************************************************************************)
(* Proofs about Intake, for any connections and requests (infinitely many  *)
(* too), tenants, addresses, blacklist and limits, and any number of kills.*)
(***************************************************************************)
EXTENDS Intake, FiniteSetTheorems, SequenceTheorems, TLAPS

Busy == {"check", "read", "create", "push"}
Refusing == {c \in Conns : pc[c] = "refusing"}

(* One sender: what it has in hand is what it was given, in the order the  *)
(* protocol asks for it.                                                   *)
InHand(s) == [client |-> client[s], from |-> from[s], to |-> to[s]]
Ordered(s) ==
  /\ from[s] # None => client[s] # None
  /\ to[s] # <<>> => from[s] # None
  /\ pc[s] \in Busy => to[s] # <<>>
Clean(k, a) == <<k, a>> \notin Listed
Looked(s) ==
  IF s \in Conns
  THEN /\ from[s] # None => Clean(client[s], from[s])
       /\ \A i \in DOMAIN to[s] : Clean(client[s], to[s][i])
  ELSE pc[s] \in {"create", "push"} => Clean(client[s], Head(to[s]))
SenderOK(s) == asked[s] = InHand(s) /\ Ordered(s) /\ (s \in blind \/ Looked(s))
SendersInv == \A s \in Senders : SenderOK(s)

(* The type invariant but for the sign of the counter, which needs that it *)
(* is exact.                                                               *)
EnvelopeTypes ==
  /\ client \in [Senders -> Clients \cup {None}]
  /\ from \in [Senders -> Addrs \cup {None}] /\ to \in [Senders -> Seq(Addrs)]
  /\ id \in [Senders -> 0..Len(rows)]
  /\ asked \in [Senders -> Envelope]
  /\ blind \subseteq Senders
LocalTypes == pc \in [Senders -> PC] /\ EnvelopeTypes
Payloads == [id : Nat, client : Clients, from : Addrs, to : Seq(Addrs)]
SharedTypes ==
  /\ connCount \in Int
  /\ used \in [Clients -> 0..Limit]
  /\ rows \in Seq([client : Clients, from : Addrs, to : Addrs])
  /\ IsABag(jobs) /\ DOMAIN jobs \subseteq Payloads
  /\ acked \subseteq 1..Len(rows) /\ excused \subseteq 1..Len(rows)

CountInv ==
  /\ IsFiniteSet(Sessions) /\ IsFiniteSet(Refusing)
  /\ CountExact /\ SessionsBounded

(* The row a sender is about to push a job for is its own, and no job was  *)
(* pushed for it but copies of the sender's, one less than go-redis may    *)
(* push.                                                                   *)
PushInv ==
  \A s \in Senders : pc[s] = "push" =>
    /\ id[s] \in DOMAIN rows /\ rows[id[s]] = Row(s)
    /\ \A j \in DOMAIN jobs : j.id = id[s] => j = Job(s) /\ jobs[j] < MaxPushes
    /\ \A q \in Senders \ {s} : pc[q] = "push" => id[q] # id[s]

StoresInv == PushInv /\ JobHasRow /\ AckedIsQueued /\ OrphansExcused

IntakeInv == LocalTypes /\ SharedTypes /\ SendersInv /\ CountInv /\ StoresInv

-----------------------------------------------------------------------------
(* What the steps of a sender have in common.                              *)

SameInHand(q) ==
  /\ client'[q] = client[q] /\ from'[q] = from[q] /\ to'[q] = to[q]
  /\ id'[q] = id[q] /\ asked'[q] = asked[q] /\ (q \in blind' <=> q \in blind)
Elsewhere(s) == \A q \in Senders \ {s} : pc'[q] = pc[q] /\ SameInHand(q)

(* A connection counts after the step if it did before.                    *)
Counted(s) ==
  /\ pc'[s] = "refusing" <=> pc[s] = "refusing"
  /\ s \in Conns => (pc'[s] \in Serving <=> pc[s] \in Serving)

(* The step is about no row.                                               *)
Quiet(s) ==
  /\ Elsewhere(s) /\ LocalTypes' /\ SenderOK(s)'
  /\ pc[s] # "push" /\ pc'[s] # "push"
  /\ UNCHANGED <<rows, jobs, acked, excused>>

LEMMA Records ==
  /\ \A k \in Clients \cup {None}, f \in Addrs \cup {None}, t \in Seq(Addrs) :
       [client |-> k, from |-> f, to |-> t] \in Envelope
  /\ <<>> \in Seq(Addrs)
BY DEF Envelope

(* A sender with nothing in hand is in order.                              *)
LEMMA BlankIsOK ==
  ASSUME NEW s, from[s] = None, to[s] = <<>>, pc[s] \notin Busy, asked[s] = InHand(s)
  PROVE  SenderOK(s)
BY DEF SenderOK, Ordered, Looked, Busy

LEMMA LookedBlank ==
  ASSUME NEW s, from[s] = None, to[s] = <<>>, s \notin Conns => pc[s] \notin Busy
  PROVE  Looked(s)
BY DEF Looked, Busy

(* The envelope of one sender is emptied; of an SMTP session the client    *)
(* stays.                                                                  *)
LEMMA ForgetFacts ==
  ASSUME EnvelopeTypes, NEW s \in Senders, Forget(s),
         Len(rows) \in Nat, Len(rows') \in Nat, Len(rows) <= Len(rows')
  PROVE  /\ from'[s] = None /\ to'[s] = <<>> /\ asked'[s] = InHand(s)'
         /\ EnvelopeTypes' /\ \A q \in Senders \ {s} : SameInHand(q)
<1>1. /\ client' = [client EXCEPT ![s] = None] /\ from' = [from EXCEPT ![s] = None]
      /\ to' = [to EXCEPT ![s] = <<>>] /\ id' = [id EXCEPT ![s] = 0]
      /\ asked' = [asked EXCEPT ![s] = Blank] /\ blind' = blind \ {s}
  BY DEF Forget
<1>2. Blank \in Envelope /\ <<>> \in Seq(Addrs)
  BY Records DEF Blank
<1>3. EnvelopeTypes'
  <2>1. /\ client' \in [Senders -> Clients \cup {None}]
        /\ from' \in [Senders -> Addrs \cup {None}] /\ to' \in [Senders -> Seq(Addrs)]
    BY <1>1, <1>2 DEF EnvelopeTypes
  <2>2. id' \in [Senders -> 0..Len(rows')] /\ asked' \in [Senders -> Envelope]
    BY <1>1, <1>2 DEF EnvelopeTypes
  <2>3. blind' \subseteq Senders
    BY <1>1 DEF EnvelopeTypes
  <2> QED BY <2>1, <2>2, <2>3 DEF EnvelopeTypes
<1>4. \A q \in Senders \ {s} : SameInHand(q)
  <2>1. \A q \in Senders \ {s} : client'[q] = client[q] /\ from'[q] = from[q] /\ to'[q] = to[q]
    BY <1>1 DEF EnvelopeTypes
  <2>2. \A q \in Senders \ {s} : id'[q] = id[q] /\ asked'[q] = asked[q]
    BY <1>1 DEF EnvelopeTypes
  <2>3. \A q \in Senders \ {s} : q \in blind' <=> q \in blind
    BY <1>1
  <2> QED BY <2>1, <2>2, <2>3 DEF SameInHand
<1> QED BY <1>1, <1>3, <1>4 DEF EnvelopeTypes, InHand, Blank

LEMMA ResetFacts ==
  ASSUME EnvelopeTypes, NEW s \in Senders, ResetSession(s), UNCHANGED client,
         asked[s] = InHand(s),
         Len(rows) \in Nat, Len(rows') \in Nat, Len(rows) <= Len(rows')
  PROVE  /\ from'[s] = None /\ to'[s] = <<>> /\ asked'[s] = InHand(s)'
         /\ EnvelopeTypes' /\ \A q \in Senders \ {s} : SameInHand(q)
<1>1. /\ from' = [from EXCEPT ![s] = None] /\ to' = [to EXCEPT ![s] = <<>>]
      /\ id' = [id EXCEPT ![s] = 0] /\ blind' = blind \ {s} /\ client' = client
      /\ asked' = [asked EXCEPT ![s].from = None, ![s].to = <<>>]
  BY DEF ResetSession, Cleared
<1>2. [client |-> client[s], from |-> None, to |-> <<>>] \in Envelope /\ <<>> \in Seq(Addrs)
  BY Records DEF EnvelopeTypes
<1>3. /\ asked' = [q \in Senders |-> asked'[q]]
      /\ asked'[s] = [client |-> client[s], from |-> None, to |-> <<>>]
      /\ \A q \in Senders \ {s} : asked'[q] = asked[q]
  <2>1. asked \in [Senders -> Envelope]
        /\ asked[s] = [client |-> client[s], from |-> from[s], to |-> to[s]]
    BY DEF InHand, EnvelopeTypes
  <2>2. asked' = [q \in Senders |-> asked'[q]]
    BY <1>1, <2>1 DEF Envelope
  <2>3. asked'[s] = [client |-> client[s], from |-> None, to |-> <<>>]
    <3>1. asked' = [asked EXCEPT ![s].from = None, ![s].to = <<>>]
          /\ asked \in [Senders -> Envelope]
      BY <1>1, <2>1
    <3>2. asked'[s] = [client |-> asked[s].client, from |-> None, to |-> <<>>]
      BY <3>1 DEF Envelope
    <3>3. asked[s].client = client[s]
      BY <2>1
    <3> QED BY <3>2, <3>3
  <2>4. \A q \in Senders \ {s} : asked'[q] = asked[q]
    BY <1>1, <2>1 DEF Envelope
  <2> QED BY <2>2, <2>3, <2>4
<1>4. EnvelopeTypes'
  <2>1. /\ client' \in [Senders -> Clients \cup {None}]
        /\ from' \in [Senders -> Addrs \cup {None}] /\ to' \in [Senders -> Seq(Addrs)]
    BY <1>1, <1>2 DEF EnvelopeTypes
  <2>2. id' \in [Senders -> 0..Len(rows')]
    BY <1>1 DEF EnvelopeTypes
  <2>3. asked' \in [Senders -> Envelope]
    <3>1. \A q \in Senders : asked'[q] \in Envelope
      BY <1>2, <1>3 DEF EnvelopeTypes
    <3> QED BY <1>3, <3>1
  <2>4. blind' \subseteq Senders
    BY <1>1 DEF EnvelopeTypes
  <2> QED BY <2>1, <2>2, <2>3, <2>4 DEF EnvelopeTypes
<1>5. \A q \in Senders \ {s} : SameInHand(q)
  <2>1. \A q \in Senders \ {s} : client'[q] = client[q] /\ from'[q] = from[q] /\ to'[q] = to[q]
    BY <1>1 DEF EnvelopeTypes
  <2>2. \A q \in Senders \ {s} : id'[q] = id[q] /\ asked'[q] = asked[q]
    BY <1>1, <1>3 DEF EnvelopeTypes
  <2>3. \A q \in Senders \ {s} : q \in blind' <=> q \in blind
    BY <1>1
  <2> QED BY <2>1, <2>2, <2>3 DEF SameInHand
<1> QED BY <1>1, <1>3, <1>4, <1>5 DEF EnvelopeTypes, InHand

(* The end of a message, for either kind of sender.                        *)
LEMMA DoneFacts ==
  ASSUME LocalTypes, NEW s \in Senders, SenderOK(s), Done(s), pc[s] \in Busy,
         Len(rows) \in Nat, Len(rows') \in Nat, Len(rows) <= Len(rows')
  PROVE  /\ Elsewhere(s) /\ LocalTypes' /\ SenderOK(s)' /\ Counted(s)
         /\ pc'[s] \in {"ready", "closed"} /\ connCount' = connCount
<1>1. \/ s \in Conns /\ Goto(s, "ready") /\ ResetSession(s) /\ UNCHANGED client
      \/ s \notin Conns /\ Goto(s, "closed") /\ Forget(s)
  BY DEF Done
<1>2. /\ from'[s] = None /\ to'[s] = <<>> /\ asked'[s] = InHand(s)'
      /\ EnvelopeTypes' /\ \A q \in Senders \ {s} : SameInHand(q)
  BY <1>1, ForgetFacts, ResetFacts DEF LocalTypes, SenderOK
<1>3. pc' = [pc EXCEPT ![s] = IF s \in Conns THEN "ready" ELSE "closed"]
  BY <1>1 DEF Goto
<1>4. /\ pc' \in [Senders -> PC] /\ pc'[s] = (IF s \in Conns THEN "ready" ELSE "closed")
      /\ \A q \in Senders \ {s} : pc'[q] = pc[q]
  BY <1>3 DEF LocalTypes, PC, Serving
<1>5. SenderOK(s)'
  BY <1>2, <1>4, BlankIsOK DEF SenderOK, Ordered, Looked, Busy
<1>6. Counted(s)
  BY <1>4 DEF Counted, Busy, Serving
<1> QED
  BY <1>2, <1>4, <1>5, <1>6 DEF LocalTypes, Elsewhere, Done

(* What the sender and go-smtp know of an envelope changes in one place.   *)
LEMMA AskedClient ==
  ASSUME EnvelopeTypes, NEW s \in Senders, asked[s] = InHand(s), NEW k \in Clients,
         asked' = [asked EXCEPT ![s].client = k]
  PROVE  /\ asked' \in [Senders -> Envelope]
         /\ asked'[s] = [client |-> k, from |-> from[s], to |-> to[s]]
         /\ \A q \in Senders \ {s} : asked'[q] = asked[q]
<1>1. asked \in [Senders -> Envelope]
      /\ asked[s] = [client |-> client[s], from |-> from[s], to |-> to[s]]
  BY DEF InHand, EnvelopeTypes
<1>2. asked' = [q \in Senders |-> asked'[q]]
  BY <1>1 DEF Envelope
<1>3. asked'[s] = [client |-> k, from |-> from[s], to |-> to[s]]
  <2>1. asked \in [Senders -> Envelope]
    BY <1>1
  <2>2. asked'[s] = [client |-> k, from |-> asked[s].from, to |-> asked[s].to]
    BY <2>1 DEF Envelope
  <2> QED BY <1>1, <2>2
<1>4. \A q \in Senders \ {s} : asked'[q] = asked[q]
  BY <1>1 DEF Envelope
<1>5. asked'[s] \in Envelope
  BY <1>3 DEF Envelope, EnvelopeTypes
<1>6. \A q \in Senders : asked'[q] \in Envelope
  BY <1>1, <1>4, <1>5
<1> QED BY <1>2, <1>3, <1>4, <1>6

LEMMA AskedFrom ==
  ASSUME EnvelopeTypes, NEW s \in Senders, asked[s] = InHand(s), NEW f \in Addrs,
         asked' = [asked EXCEPT ![s].from = f]
  PROVE  /\ asked' \in [Senders -> Envelope]
         /\ asked'[s] = [client |-> client[s], from |-> f, to |-> to[s]]
         /\ \A q \in Senders \ {s} : asked'[q] = asked[q]
<1>1. asked \in [Senders -> Envelope]
      /\ asked[s] = [client |-> client[s], from |-> from[s], to |-> to[s]]
  BY DEF InHand, EnvelopeTypes
<1>2. asked' = [q \in Senders |-> asked'[q]]
  BY <1>1 DEF Envelope
<1>3. asked'[s] = [client |-> client[s], from |-> f, to |-> to[s]]
  <2>1. asked \in [Senders -> Envelope]
    BY <1>1
  <2>2. asked'[s] = [client |-> asked[s].client, from |-> f, to |-> asked[s].to]
    BY <2>1 DEF Envelope
  <2> QED BY <1>1, <2>2
<1>4. \A q \in Senders \ {s} : asked'[q] = asked[q]
  BY <1>1 DEF Envelope
<1>5. asked'[s] \in Envelope
  BY <1>3 DEF Envelope, EnvelopeTypes
<1>6. \A q \in Senders : asked'[q] \in Envelope
  BY <1>1, <1>4, <1>5
<1> QED BY <1>2, <1>3, <1>4, <1>6

LEMMA AskedTo ==
  ASSUME EnvelopeTypes, NEW s \in Senders, asked[s] = InHand(s), NEW f \in Addrs,
         asked' = [asked EXCEPT ![s].to = Append(@, f)]
  PROVE  /\ asked' \in [Senders -> Envelope]
         /\ asked'[s] = [client |-> client[s], from |-> from[s], to |-> Append(to[s], f)]
         /\ \A q \in Senders \ {s} : asked'[q] = asked[q]
<1>1. asked \in [Senders -> Envelope]
      /\ asked[s] = [client |-> client[s], from |-> from[s], to |-> to[s]]
  BY DEF InHand, EnvelopeTypes
<1>2. asked' = [q \in Senders |-> asked'[q]]
  BY <1>1 DEF Envelope
<1>3. asked'[s] = [client |-> client[s], from |-> from[s], to |-> Append(to[s], f)]
  <2>1. asked \in [Senders -> Envelope]
    BY <1>1
  <2>2. asked'[s] = [client |-> asked[s].client, from |-> asked[s].from, to |-> Append(asked[s].to, f)]
    BY <2>1 DEF Envelope
  <2> QED BY <1>1, <2>2
<1>4. \A q \in Senders \ {s} : asked'[q] = asked[q]
  BY <1>1 DEF Envelope
<1>5. asked'[s] \in Envelope
  <2>1. client[s] \in Clients \cup {None} /\ from[s] \in Addrs \cup {None}
    BY DEF EnvelopeTypes
  <2>2. to[s] \in Seq(Addrs)
    BY DEF EnvelopeTypes
  <2>3. Append(to[s], f) \in Seq(Addrs)
    BY <2>2
  <2>4. [client |-> client[s], from |-> from[s], to |-> Append(to[s], f)] \in Envelope
    BY <2>1, <2>3, Records
  <2> QED BY <1>3, <2>4
<1>6. \A q \in Senders : asked'[q] \in Envelope
  BY <1>1, <1>4, <1>5
<1> QED BY <1>2, <1>3, <1>4, <1>6

-----------------------------------------------------------------------------
(* The steps of a session between two messages.                            *)

LEMMA SessionQuiet ==
  ASSUME LocalTypes, SharedTypes, SendersInv, NEW c \in Conns,
         AuthPlain(c) \/ Mail(c) \/ Rcpt(c) \/ Reset(c) \/ Data(c)
  PROVE  Quiet(c) /\ Counted(c) /\ UNCHANGED <<connCount, used>>
<1>1. /\ c \in Senders /\ pc[c] = "ready" /\ EnvelopeTypes /\ pc \in [Senders -> PC]
      /\ asked[c] = InHand(c) /\ Ordered(c) /\ (c \in blind \/ Looked(c))
      /\ client[c] \in Clients \cup {None} /\ from[c] \in Addrs \cup {None}
      /\ to[c] \in Seq(Addrs) /\ blind \subseteq Senders
      /\ None \notin Clients /\ None \notin Addrs
  BY IntakeAssumption
  DEF Senders, LocalTypes, EnvelopeTypes, SendersInv, SenderOK, AuthPlain, Mail, Rcpt, Reset,
      Data
<1>2. /\ UNCHANGED <<rows, jobs, acked, excused, connCount, used>>
  BY DEF AuthPlain, Mail, Rcpt, Reset, Data, stores, history
<1>3. asked[c].from = from[c] /\ asked[c].to = to[c]
  BY <1>1 DEF InHand
<1>4. CASE AuthPlain(c)
  <2>1. PICK k \in Clients : client' = [client EXCEPT ![c] = k]
                             /\ asked' = [asked EXCEPT ![c].client = k]
    BY <1>4 DEF AuthPlain
  <2>2. UNCHANGED <<pc, from, to, id, blind>> /\ client[c] = None
    BY <1>4 DEF AuthPlain
  <2>3. /\ asked' \in [Senders -> Envelope]
        /\ asked'[c] = [client |-> k, from |-> from[c], to |-> to[c]]
        /\ \A q \in Senders \ {c} : asked'[q] = asked[q]
    BY <1>1, <2>1, AskedClient
  <2>4. from[c] = None /\ to[c] = <<>>
    BY <1>1, <2>2 DEF Ordered
  <2>5. client'[c] = k /\ client' \in [Senders -> Clients \cup {None}]
        /\ \A q \in Senders \ {c} : client'[q] = client[q]
    BY <1>1, <2>1 DEF EnvelopeTypes
  <2>6. SenderOK(c)'
    BY <1>1, <2>2, <2>3, <2>4, <2>5 DEF SenderOK, InHand, Ordered, Looked, Busy
  <2>7. LocalTypes'
    BY <1>1, <1>2, <2>2, <2>3, <2>5 DEF LocalTypes, EnvelopeTypes
  <2> QED
    BY <1>1, <1>2, <2>2, <2>3, <2>5, <2>6, <2>7 DEF Quiet, Elsewhere, SameInHand, Counted
<1>5. CASE Mail(c)
  <2>1. PICK a \in Addrs : /\ LetThrough(c, client[c], a)
                           /\ from' = [from EXCEPT ![c] = a]
                           /\ asked' = [asked EXCEPT ![c].from = a]
    BY <1>5 DEF Mail
  <2>2. UNCHANGED <<pc, client, to, id>> /\ client[c] # None
    BY <1>5 DEF Mail
  <2>3. /\ asked' \in [Senders -> Envelope]
        /\ asked'[c] = [client |-> client[c], from |-> a, to |-> to[c]]
        /\ \A q \in Senders \ {c} : asked'[q] = asked[q]
    BY <1>1, <2>1, AskedFrom
  <2>4. from'[c] = a /\ from' \in [Senders -> Addrs \cup {None}]
        /\ \A q \in Senders \ {c} : from'[q] = from[q]
    BY <1>1, <2>1 DEF EnvelopeTypes
  <2>5. (blind' = blind /\ Clean(client[c], a)) \/ blind' = blind \cup {c}
    BY <2>1 DEF LetThrough, Passes, Clean
  <2>6. SenderOK(c)'
    <3>1. asked'[c] = InHand(c)' /\ Ordered(c)'
      BY <1>1, <2>2, <2>3, <2>4 DEF InHand, Ordered, Busy
    <3>2. (c \in blind \/ Looked(c))'
      BY <1>1, <2>2, <2>4, <2>5 DEF Looked, Clean
    <3> QED BY <3>1, <3>2 DEF SenderOK
  <2>7. LocalTypes'
    BY <1>1, <1>2, <2>2, <2>3, <2>4, <2>5 DEF LocalTypes, EnvelopeTypes
  <2>8. \A q \in Senders \ {c} : q \in blind' <=> q \in blind
    BY <2>5
  <2> QED
    BY <1>1, <1>2, <2>2, <2>3, <2>4, <2>6, <2>7, <2>8 DEF Quiet, Elsewhere, SameInHand, Counted
<1>6. CASE Rcpt(c)
  <2>1. PICK a \in Addrs : /\ LetThrough(c, client[c], a)
                           /\ to' = [to EXCEPT ![c] = Append(@, a)]
                           /\ asked' = [asked EXCEPT ![c].to = Append(@, a)]
    BY <1>6 DEF Rcpt
  <2>2. UNCHANGED <<pc, client, from, id>> /\ from[c] # None
    BY <1>3, <1>6 DEF Rcpt
  <2>3. /\ asked' \in [Senders -> Envelope]
        /\ asked'[c] = [client |-> client[c], from |-> from[c], to |-> Append(to[c], a)]
        /\ \A q \in Senders \ {c} : asked'[q] = asked[q]
    BY <1>1, <2>1, AskedTo
  <2>4. to'[c] = Append(to[c], a) /\ Append(to[c], a) \in Seq(Addrs)
        /\ to' \in [Senders -> Seq(Addrs)]
        /\ \A q \in Senders \ {c} : to'[q] = to[q]
    BY <1>1, <2>1 DEF EnvelopeTypes
  <2>5. (blind' = blind /\ Clean(client[c], a)) \/ blind' = blind \cup {c}
    BY <2>1 DEF LetThrough, Passes, Clean
  <2>6. SenderOK(c)'
    <3>1. asked'[c] = InHand(c)' /\ Ordered(c)'
      BY <1>1, <2>2, <2>3, <2>4 DEF InHand, Ordered, Busy
    <3>2. ASSUME Looked(c), blind' = blind, Clean(client[c], a) PROVE Looked(c)'
      <4>1. \A i \in DOMAIN to'[c] :
               to'[c][i] = (IF i \in DOMAIN to[c] THEN to[c][i] ELSE a)
        BY <1>1, <2>4
      <4> QED BY <1>1, <2>2, <3>2, <4>1 DEF Looked, Clean
    <3>3. (c \in blind \/ Looked(c))'
      BY <1>1, <2>5, <3>2
    <3> QED BY <3>1, <3>3 DEF SenderOK
  <2>7. LocalTypes'
    BY <1>1, <1>2, <2>2, <2>3, <2>4, <2>5 DEF LocalTypes, EnvelopeTypes
  <2>8. \A q \in Senders \ {c} : q \in blind' <=> q \in blind
    BY <2>5
  <2> QED
    BY <1>1, <1>2, <2>2, <2>3, <2>4, <2>6, <2>7, <2>8 DEF Quiet, Elsewhere, SameInHand, Counted
<1>7. CASE Reset(c)
  <2>1. ResetSession(c) /\ UNCHANGED <<pc, client>>
    BY <1>7 DEF Reset
  <2>2. /\ from'[c] = None /\ to'[c] = <<>> /\ asked'[c] = InHand(c)'
        /\ EnvelopeTypes' /\ \A q \in Senders \ {c} : SameInHand(q)
    BY <1>1, <1>2, <2>1, ResetFacts DEF SharedTypes
  <2>3. SenderOK(c)'
    BY <1>1, <2>1, <2>2 DEF SenderOK, Ordered, Looked, Busy
  <2> QED
    BY <1>1, <1>2, <2>1, <2>2, <2>3 DEF Quiet, Elsewhere, Counted, LocalTypes
<1>8. CASE Data(c)
  <2>1. UNCHANGED <<client, from, to, id, asked, blind>> /\ pc' = [pc EXCEPT ![c] = "check"]
        /\ to[c] # <<>>
    BY <1>3, <1>8 DEF Data, Goto, envelope, history
  <2>2. pc' \in [Senders -> PC] /\ pc'[c] = "check" /\ \A q \in Senders \ {c} : pc'[q] = pc[q]
    BY <1>1, <2>1 DEF PC, Serving
  <2>3. SenderOK(c)'
    BY <1>1, <2>1, <2>2 DEF SenderOK, InHand, Ordered, Looked
  <2> QED
    BY <1>1, <1>2, <2>1, <2>2, <2>3
    DEF Quiet, Elsewhere, SameInHand, Counted, LocalTypes, EnvelopeTypes, Serving
<1> QED BY <1>4, <1>5, <1>6, <1>7, <1>8

LEMMA ConnectionQuiet ==
  ASSUME LocalTypes, SharedTypes, SendersInv, NEW c \in Conns,
         NewSession(c) \/ Refuse(c) \/ Logout(c)
  PROVE  Quiet(c) /\ UNCHANGED used
<1>1. /\ c \in Senders /\ pc[c] \notin Busy /\ EnvelopeTypes /\ pc \in [Senders -> PC]
      /\ SenderOK(c)
  BY DEF Senders, LocalTypes, SendersInv, NewSession, Refuse, Logout, Busy
<1>2. UNCHANGED <<rows, jobs, acked, excused, used>>
  BY DEF NewSession, Refuse, Logout, stores, history
<1>3. PICK label \in {"refusing", "ready", "closed"} : pc' = [pc EXCEPT ![c] = label]
  BY DEF NewSession, Refuse, Logout, Goto
<1>4. /\ pc' \in [Senders -> PC] /\ pc'[c] \in {"refusing", "ready", "closed"}
      /\ \A q \in Senders \ {c} : pc'[q] = pc[q]
  BY <1>1, <1>3 DEF PC, Serving
<1>5. CASE NewSession(c) \/ Refuse(c)
  <2>1. UNCHANGED <<client, from, to, id, asked, blind>>
    BY <1>5 DEF NewSession, Refuse, envelope, history
  <2>2. SenderOK(c)'
    BY <1>1, <1>4, <2>1 DEF SenderOK, InHand, Ordered, Looked, Busy
  <2> QED
    BY <1>1, <1>2, <1>4, <2>1, <2>2
    DEF Quiet, Elsewhere, SameInHand, LocalTypes, EnvelopeTypes, Busy
<1>6. CASE Logout(c)
  <2>1. /\ from'[c] = None /\ to'[c] = <<>> /\ asked'[c] = InHand(c)'
        /\ EnvelopeTypes' /\ \A q \in Senders \ {c} : SameInHand(q)
    BY <1>1, <1>2, <1>6, ForgetFacts DEF Logout, SharedTypes
  <2>2. SenderOK(c)'
    BY <1>1, <1>4, <2>1 DEF SenderOK, Ordered, Looked, Busy
  <2> QED
    BY <1>1, <1>2, <1>4, <2>1, <2>2 DEF Quiet, Elsewhere, LocalTypes, Busy
<1> QED BY <1>5, <1>6

-----------------------------------------------------------------------------
(* The steps of a message that are about no row.                           *)

LEMMA MessageQuiet ==
  ASSUME LocalTypes, SharedTypes, SendersInv, NEW s \in Senders,
         \/ CheckAll(s)
         \/ s \in Conns /\ ReadBody(s)
         \/ s \in Reqs /\ (Send(s) \/ CheckFirst(s))
  PROVE  Quiet(s) /\ Counted(s) /\ connCount' = connCount
         /\ used' \in [Clients -> 0..Limit]
<1>1. /\ EnvelopeTypes /\ pc \in [Senders -> PC] /\ SenderOK(s)
      /\ s \in Reqs => s \notin Conns
      /\ client[s] \in Clients \cup {None} /\ from[s] \in Addrs \cup {None}
      /\ to[s] \in Seq(Addrs) /\ blind \subseteq Senders
  BY IntakeAssumption DEF Senders, LocalTypes, EnvelopeTypes, SendersInv
<1>2. UNCHANGED <<rows, jobs, acked, excused>> /\ pc[s] # "push"
  BY DEF CheckAll, ReadBody, Send, CheckFirst, stores
<1>3. used' \in [Clients -> 0..Limit]
  <2>1. CASE used' = used
    BY <2>1 DEF SharedTypes
  <2>2. CASE CheckAll(s) /\ HasQuota(client[s]) /\ used' = Granted(client[s])
    <3>1. client[s] \in Clients
      BY <1>1, <2>2 DEF CheckAll, SenderOK, Ordered, Busy
    <3>2. used \in [Clients -> 0..Limit] /\ Limit \in Nat
      BY IntakeAssumption DEF SharedTypes
    <3>3. used[client[s]] + 1 \in 0..Limit
      BY <2>2, <3>1, <3>2 DEF HasQuota
    <3> QED BY <2>2, <3>1, <3>2, <3>3 DEF Granted
  <2> QED BY <2>1, <2>2 DEF CheckAll, ReadBody, Send, CheckFirst, stores
<1>4. ASSUME Done(s), pc[s] \in Busy
      PROVE  Quiet(s) /\ Counted(s) /\ connCount' = connCount
  <2>1. /\ Elsewhere(s) /\ LocalTypes' /\ SenderOK(s)' /\ Counted(s)
        /\ pc'[s] \in {"ready", "closed"} /\ connCount' = connCount
    BY <1>1, <1>2, <1>4, DoneFacts DEF SharedTypes
  <2> QED BY <1>2, <2>1 DEF Quiet
<1>5. ASSUME NEW label \in {"read", "create"}, Goto(s, label), pc[s] \in Busy,
             UNCHANGED <<connCount, client, from, to, id, asked>>,
             \/ blind' = blind
             \/ blind' = blind \cup {s},
             s \notin Conns /\ label = "create" =>
               s \in blind' \/ Clean(client[s], Head(to[s]))
      PROVE  Quiet(s) /\ Counted(s) /\ connCount' = connCount
  <2>1. /\ pc' \in [Senders -> PC] /\ pc'[s] = label
        /\ \A q \in Senders \ {s} : pc'[q] = pc[q]
    BY <1>1, <1>5 DEF Goto, PC, Serving
  <2>2. SenderOK(s)'
    <3>1. asked'[s] = InHand(s)' /\ Ordered(s)'
      BY <1>1, <1>5, <2>1 DEF SenderOK, InHand, Ordered
    <3>2. (s \in blind \/ Looked(s))'
      BY <1>1, <1>5, <2>1 DEF SenderOK, Looked, Clean
    <3> QED BY <3>1, <3>2 DEF SenderOK
  <2>3. LocalTypes'
    BY <1>1, <1>2, <1>5, <2>1 DEF LocalTypes, EnvelopeTypes
  <2>4. Elsewhere(s)
    BY <1>5, <2>1 DEF Elsewhere, SameInHand
  <2> QED
    BY <1>1, <1>2, <1>5, <2>1, <2>2, <2>3, <2>4 DEF Quiet, Counted, Busy, Serving
<1>6. CASE CheckAll(s)
  <2>1. pc[s] \in Busy
    BY <1>6 DEF CheckAll, Busy
  <2>2. \/ Done(s)
        \/ Goto(s, "read") /\ UNCHANGED <<connCount, client, from, to, id, asked, blind>>
    BY <1>6 DEF CheckAll, envelope
  <2> QED BY <1>3, <1>4, <1>5, <2>1, <2>2
<1>7. CASE s \in Conns /\ ReadBody(s)
  <2>1. pc[s] \in Busy
    BY <1>7 DEF ReadBody, Busy
  <2>2. \/ Done(s)
        \/ Goto(s, "create") /\ UNCHANGED <<connCount, client, from, to, id, asked, blind>>
    BY <1>7 DEF ReadBody, envelope
  <2> QED BY <1>3, <1>4, <1>5, <1>7, <2>1, <2>2
<1>8. CASE s \in Reqs /\ CheckFirst(s)
  <2>1. pc[s] \in Busy
    BY <1>8 DEF CheckFirst, Busy
  <2>2. \/ Done(s)
        \/ /\ Goto(s, "create") /\ UNCHANGED <<connCount, client, from, to, id, asked>>
           /\ \/ blind' = blind /\ Clean(client[s], Head(to[s]))
              \/ blind' = blind \cup {s}
    BY <1>8 DEF CheckFirst, envelope, LetThrough, Passes, Clean
  <2> QED BY <1>3, <1>4, <1>5, <2>1, <2>2
<1>9. CASE s \in Reqs /\ Send(s)
  <2>1. PICK e \in [client : Clients, from : Addrs, to : BoundedSeq(Addrs, MaxRcpts) \ {<<>>}] :
          /\ client' = [client EXCEPT ![s] = e.client]
          /\ from' = [from EXCEPT ![s] = e.from] /\ to' = [to EXCEPT ![s] = e.to]
          /\ asked' = [asked EXCEPT ![s] = e]
    BY <1>9 DEF Send, Requests
  <2>2. UNCHANGED <<connCount, id, blind>> /\ pc[s] = "closed" /\ pc' = [pc EXCEPT ![s] = "check"]
    BY <1>9 DEF Send, Goto
  <2>3. e.client \in Clients /\ e.from \in Addrs /\ e.to \in Seq(Addrs) \ {<<>>}
        /\ e = [client |-> e.client, from |-> e.from, to |-> e.to]
    <3>1. e.client \in Clients /\ e.from \in Addrs
          /\ e.to \in BoundedSeq(Addrs, MaxRcpts) /\ e.to # <<>>
          /\ e = [client |-> e.client, from |-> e.from, to |-> e.to]
      OBVIOUS
    <3>2. PICK m \in 0..MaxRcpts : e.to \in [1..m -> Addrs]
      BY <3>1 DEF BoundedSeq, SeqOf
    <3>3. m \in Nat
      BY <3>2, IntakeAssumption
    <3>4. e.to \in Seq(Addrs)
      BY <3>2, <3>3
    <3> QED BY <3>1, <3>4
  <2>4. e \in Envelope
    BY <2>3, Records
  <2>5. /\ pc' \in [Senders -> PC] /\ pc'[s] = "check"
        /\ \A q \in Senders \ {s} : pc'[q] = pc[q]
    BY <1>1, <2>2 DEF PC, Serving
  <2>6. /\ client' \in [Senders -> Clients \cup {None}] /\ client'[s] = e.client
        /\ from' \in [Senders -> Addrs \cup {None}] /\ from'[s] = e.from
        /\ to' \in [Senders -> Seq(Addrs)] /\ to'[s] = e.to
        /\ asked' \in [Senders -> Envelope] /\ asked'[s] = e
        /\ \A q \in Senders \ {s} : client'[q] = client[q] /\ from'[q] = from[q]
                                    /\ to'[q] = to[q] /\ asked'[q] = asked[q]
    BY <1>1, <2>1, <2>3, <2>4 DEF EnvelopeTypes
  <2>7. None \notin Clients /\ None \notin Addrs
    BY IntakeAssumption
  <2>8. SenderOK(s)'
    <3>1. Looked(s)'
      BY <1>1, <1>9, <2>5 DEF Looked
    <3>2. asked'[s] = InHand(s)' /\ Ordered(s)'
      BY <2>3, <2>6, <2>7 DEF InHand, Ordered
    <3> QED BY <3>1, <3>2 DEF SenderOK
  <2>9. LocalTypes'
    BY <1>1, <1>2, <2>2, <2>5, <2>6 DEF LocalTypes, EnvelopeTypes
  <2>10. Elsewhere(s) /\ Counted(s)
    BY <1>1, <1>9, <2>2, <2>5, <2>6 DEF Elsewhere, SameInHand, Counted
  <2> QED BY <1>2, <1>3, <2>2, <2>5, <2>8, <2>9, <2>10 DEF Quiet
<1> QED BY <1>6, <1>7, <1>8, <1>9

-----------------------------------------------------------------------------
(* The connection counter.                                                 *)

LEMMA CountStart == Init => CountInv
<1> SUFFICES ASSUME Init PROVE CountInv
  OBVIOUS
<1>1. Sessions = {} /\ Refusing = {} /\ connCount = 0
  BY DEF Init, Sessions, Refusing, Senders, Serving
<1>2. IsFiniteSet({}) /\ Cardinality({}) = 0
  BY FS_EmptySet
<1>3. MaxConns \in Nat
  BY IntakeAssumption
<1> QED BY <1>1, <1>2, <1>3 DEF CountInv, CountExact, SessionsBounded, Refusing

LEMMA CountKept ==
  ASSUME CountInv, connCount' = connCount,
         \A c \in Conns : /\ pc'[c] \in Serving <=> pc[c] \in Serving
                          /\ pc'[c] = "refusing" <=> pc[c] = "refusing"
  PROVE  CountInv'
<1>1. Sessions' = Sessions /\ Refusing' = Refusing
  BY DEF Sessions, Refusing
<1> QED BY <1>1 DEF CountInv, CountExact, SessionsBounded, Refusing

(* A connection that comes or goes is one more or one less of its kind.    *)
LEMMA CountMoves ==
  ASSUME CountInv, LocalTypes, NEW c \in Conns, NewSession(c) \/ Refuse(c) \/ Logout(c)
  PROVE  CountInv' /\ connCount' \in Int
<1>1. /\ IsFiniteSet(Sessions) /\ IsFiniteSet(Refusing)
      /\ Cardinality(Sessions) \in Nat /\ Cardinality(Refusing) \in Nat
      /\ connCount = Cardinality(Sessions) + Cardinality(Refusing)
      /\ Cardinality(Sessions) <= MaxConns /\ MaxConns \in Nat
      /\ pc \in [Senders -> PC] /\ c \in Senders
  BY FS_CardinalityType, IntakeAssumption
  DEF CountInv, CountExact, SessionsBounded, Refusing, LocalTypes, Senders
<1>2. SUFFICES /\ IsFiniteSet(Sessions') /\ IsFiniteSet(Refusing')
               /\ connCount' = Cardinality(Sessions') + Cardinality(Refusing')
               /\ Cardinality(Sessions') <= MaxConns
               /\ connCount' \in Int
  BY DEF CountInv, CountExact, SessionsBounded, Refusing
<1>3. CASE NewSession(c)
  <2>1. /\ pc[c] = "closed" /\ connCount' = connCount + 1
        /\ pc' = [pc EXCEPT ![c] = IF connCount + 1 > MaxConns THEN "refusing" ELSE "ready"]
    BY <1>3 DEF NewSession, Goto, TooMany
  <2>2. c \notin Sessions /\ c \notin Refusing
    BY <2>1 DEF Sessions, Refusing, Serving
  <2>3. CASE connCount + 1 > MaxConns
    <3>1. Sessions' = Sessions /\ Refusing' = Refusing \cup {c}
      BY <1>1, <2>1, <2>3 DEF Sessions, Refusing, Serving
    <3>2. IsFiniteSet(Refusing') /\ Cardinality(Refusing') = Cardinality(Refusing) + 1
      BY <1>1, <2>2, <3>1, FS_AddElement
    <3> QED BY <1>1, <2>1, <3>1, <3>2
  <2>4. CASE ~(connCount + 1 > MaxConns)
    <3>1. Sessions' = Sessions \cup {c} /\ Refusing' = Refusing
      BY <1>1, <2>1, <2>4 DEF Sessions, Refusing, Serving
    <3>2. IsFiniteSet(Sessions') /\ Cardinality(Sessions') = Cardinality(Sessions) + 1
      BY <1>1, <2>2, <3>1, FS_AddElement
    <3> QED BY <1>1, <2>1, <2>4, <3>1, <3>2
  <2> QED BY <2>3, <2>4
<1>4. CASE Refuse(c)
  <2>1. connCount' = connCount - 1 /\ pc' = [pc EXCEPT ![c] = "closed"] /\ pc[c] = "refusing"
    BY <1>4 DEF Refuse, Goto, Uncount
  <2>2. Sessions' = Sessions /\ Refusing' = Refusing \ {c} /\ c \in Refusing
    BY <1>1, <2>1 DEF Sessions, Refusing, Serving
  <2>3. IsFiniteSet(Refusing') /\ Cardinality(Refusing') = Cardinality(Refusing) - 1
    BY <1>1, <2>2, FS_RemoveElement
  <2> QED BY <1>1, <2>1, <2>2, <2>3
<1>5. CASE Logout(c)
  <2>1. connCount' = connCount - 1 /\ pc' = [pc EXCEPT ![c] = "closed"] /\ pc[c] = "ready"
    BY <1>5 DEF Logout, Goto
  <2>2. Sessions' = Sessions \ {c} /\ Refusing' = Refusing /\ c \in Sessions
    BY <1>1, <2>1 DEF Sessions, Refusing, Serving
  <2>3. IsFiniteSet(Sessions') /\ Cardinality(Sessions') = Cardinality(Sessions) - 1
    BY <1>1, <2>2, FS_RemoveElement
  <2> QED BY <1>1, <2>1, <2>2, <2>3
<1> QED BY <1>3, <1>4, <1>5

-----------------------------------------------------------------------------
(* Rows and jobs.                                                          *)

(* One more copy of a payload.                                             *)
LEMMA BagFacts ==
  ASSUME NEW B, IsABag(B), NEW x
  PROVE  /\ IsABag(B (+) SetToBag({x})) /\ DOMAIN (B (+) SetToBag({x})) = DOMAIN B \cup {x}
         /\ \A y \in DOMAIN B \ {x} : (B (+) SetToBag({x}))[y] = B[y]
         /\ x \in DOMAIN B => (B (+) SetToBag({x}))[x] = B[x] + 1
         /\ x \notin DOMAIN B => (B (+) SetToBag({x}))[x] = 1
BY DEF (+), SetToBag, IsABag

LEMMA EmptyJobs == IsABag(EmptyBag) /\ DOMAIN EmptyBag = {}
BY DEF EmptyBag, SetToBag, IsABag

LEMMA StoresStart == Init => StoresInv
BY EmptyJobs DEF Init, StoresInv, PushInv, JobHasRow, AckedIsQueued, OrphansExcused

(* A step about no row keeps what is known of them.                        *)
LEMMA StoresKept ==
  ASSUME StoresInv, NEW s \in Senders, Quiet(s)
  PROVE  StoresInv'
<1>1. /\ UNCHANGED <<rows, jobs, acked, excused>> /\ pc'[s] # "push" /\ pc[s] # "push"
      /\ \A q \in Senders \ {s} : /\ pc'[q] = pc[q] /\ id'[q] = id[q]
                                  /\ Row(q)' = Row(q) /\ Job(q)' = Job(q)
  BY DEF Quiet, Elsewhere, SameInHand, Row, Job
<1>2. \A q \in Senders : pc'[q] = "push" =>
        q # s /\ pc[q] = "push" /\ id'[q] = id[q] /\ Row(q)' = Row(q) /\ Job(q)' = Job(q)
  BY <1>1
<1>3. PushInv'
  BY <1>1, <1>2 DEF StoresInv, PushInv
<1>4. JobHasRow' /\ AckedIsQueued'
  BY <1>1 DEF StoresInv, JobHasRow, AckedIsQueued
<1>5. OrphansExcused'
  BY <1>1 DEF StoresInv, OrphansExcused
<1> QED BY <1>3, <1>4, <1>5 DEF StoresInv

(* What a sender at work on a message has in hand can be recorded.         *)
LEMMA RowFacts ==
  ASSUME LocalTypes, NEW s \in Senders, SenderOK(s), pc[s] \in Busy
  PROVE  /\ client[s] \in Clients /\ from[s] \in Addrs /\ to[s] \in Seq(Addrs)
         /\ Head(to[s]) \in Addrs
         /\ Row(s) \in [client : Clients, from : Addrs, to : Addrs]
<1>1. /\ client[s] \in Clients \cup {None} /\ from[s] \in Addrs \cup {None}
      /\ to[s] \in Seq(Addrs)
  BY DEF LocalTypes, EnvelopeTypes
<1>2. from[s] # None /\ client[s] # None /\ to[s] # <<>>
  BY DEF SenderOK, Ordered
<1>3. Head(to[s]) \in Addrs
  BY <1>1, <1>2
<1> QED BY <1>1, <1>2, <1>3 DEF Row

LEMMA CreateKeeps ==
  ASSUME LocalTypes, SharedTypes, SendersInv, StoresInv, NEW s \in Senders, Create(s)
  PROVE  /\ Elsewhere(s) /\ LocalTypes' /\ SharedTypes' /\ SenderOK(s)' /\ StoresInv'
         /\ Counted(s) /\ connCount' = connCount
<1>1. /\ pc[s] = "create" /\ SenderOK(s) /\ EnvelopeTypes /\ pc \in [Senders -> PC]
      /\ rows \in Seq([client : Clients, from : Addrs, to : Addrs])
      /\ PushInv /\ JobHasRow /\ AckedIsQueued /\ OrphansExcused
      /\ excused \subseteq 1..Len(rows) /\ acked \subseteq 1..Len(rows)
  BY DEF Create, SendersInv, LocalTypes, SharedTypes, StoresInv
<1>2. PICK done \in BOOLEAN, ok \in BOOLEAN :
        /\ ok => done
        /\ rows' = IF done THEN Append(rows, Row(s)) ELSE rows
        /\ excused' = IF done /\ ~ok THEN excused \cup {Len(rows) + 1} ELSE excused
        /\ IF ok
           THEN /\ Goto(s, "push") /\ id' = [id EXCEPT ![s] = Len(rows) + 1]
                /\ UNCHANGED <<connCount, client, from, to, asked, blind>>
           ELSE Done(s)
  BY DEF Create, CreateCounts
<1>3. UNCHANGED <<used, jobs, acked>>
  BY DEF Create
<1>4. Row(s) \in [client : Clients, from : Addrs, to : Addrs]
  BY <1>1, RowFacts DEF Busy
<1>5. /\ rows' \in Seq([client : Clients, from : Addrs, to : Addrs])
      /\ Len(rows) \in Nat /\ Len(rows') = (IF done THEN Len(rows) + 1 ELSE Len(rows))
      /\ \A i \in DOMAIN rows : i \in DOMAIN rows' /\ rows'[i] = rows[i]
      /\ done => Len(rows) + 1 \in DOMAIN rows' /\ rows'[Len(rows) + 1] = Row(s)
      /\ DOMAIN rows = 1..Len(rows)
      /\ DOMAIN rows' = 1..Len(rows')
  <2>1. CASE done
    <3>1. rows' = Append(rows, Row(s))
      BY <1>2, <2>1
    <3>2. /\ rows' \in Seq([client : Clients, from : Addrs, to : Addrs])
          /\ Len(rows) \in Nat /\ Len(rows') = Len(rows) + 1
          /\ rows'[Len(rows) + 1] = Row(s)
          /\ \A i \in 1..Len(rows) : rows'[i] = rows[i]
          /\ DOMAIN rows = 1..Len(rows) /\ DOMAIN rows' = 1..(Len(rows) + 1)
      BY <1>1, <1>4, <3>1
    <3> QED BY <2>1, <3>2
  <2>2. CASE ~done
    BY <1>1, <1>2, <2>2
  <2> QED BY <2>1, <2>2
<1>6. /\ Elsewhere(s) /\ LocalTypes' /\ SenderOK(s)' /\ Counted(s) /\ connCount' = connCount
      /\ pc'[s] = "push" => ok /\ id'[s] = Len(rows) + 1 /\ Row(s)' = Row(s)
      /\ ok => pc'[s] = "push"
  <2>1. CASE ok
    <3>1. /\ pc' = [pc EXCEPT ![s] = "push"] /\ id' = [id EXCEPT ![s] = Len(rows) + 1]
          /\ UNCHANGED <<connCount, client, from, to, asked, blind>>
      BY <1>2, <2>1 DEF Goto
    <3>2. pc' \in [Senders -> PC] /\ pc'[s] = "push" /\ \A q \in Senders \ {s} : pc'[q] = pc[q]
      BY <1>1, <3>1 DEF PC, Serving
    <3>3. id' \in [Senders -> 0..Len(rows')] /\ id'[s] = Len(rows) + 1
          /\ \A q \in Senders \ {s} : id'[q] = id[q]
      BY <1>1, <1>2, <1>5, <2>1, <3>1 DEF EnvelopeTypes
    <3>4. SenderOK(s)'
      BY <1>1, <3>1, <3>2 DEF SenderOK, InHand, Ordered, Looked, Busy
    <3>5. LocalTypes'
      BY <1>1, <3>1, <3>2, <3>3 DEF LocalTypes, EnvelopeTypes
    <3> QED
      BY <1>1, <2>1, <3>1, <3>2, <3>3, <3>4, <3>5
      DEF Elsewhere, SameInHand, Counted, Serving, Row
  <2>2. CASE ~ok
    <3>1. Done(s)
      BY <1>2, <2>2
    <3>2. Len(rows') \in Nat /\ Len(rows) <= Len(rows') /\ pc[s] \in Busy
      BY <1>1, <1>5 DEF Busy
    <3>3. /\ Elsewhere(s) /\ LocalTypes' /\ SenderOK(s)' /\ Counted(s)
          /\ pc'[s] \in {"ready", "closed"} /\ connCount' = connCount
      BY <1>1, <1>5, <3>1, <3>2, DoneFacts
    <3> QED BY <2>2, <3>3
  <2> QED BY <2>1, <2>2
<1>7. SharedTypes'
  <2>1. excused' \subseteq 1..Len(rows') /\ acked' \subseteq 1..Len(rows')
    BY <1>1, <1>2, <1>3, <1>5
  <2> QED BY <1>3, <1>5, <1>6, <2>1 DEF SharedTypes
<1>8. \A q \in Senders \ {s} : /\ pc'[q] = pc[q] /\ id'[q] = id[q]
                                /\ Row(q)' = Row(q) /\ Job(q)' = Job(q)
  BY <1>6 DEF Elsewhere, SameInHand, Row, Job
<1>9. \A j \in DOMAIN jobs : j.id \in 1..Len(rows)
  BY <1>1, <1>5 DEF JobHasRow
<1>10. PushInv'
  <2>1. ASSUME NEW q \in Senders \ {s}, pc'[q] = "push"
        PROVE  /\ id'[q] \in DOMAIN rows /\ id'[q] \in DOMAIN rows' /\ rows'[id'[q]] = Row(q)'
               /\ \A j \in DOMAIN jobs : j.id = id'[q] => j = Job(q)' /\ jobs[j] < MaxPushes
               /\ \A x \in Senders \ {s, q} : pc'[x] = "push" => id'[x] # id'[q]
    BY <1>1, <1>5, <1>8, <2>1 DEF PushInv
  <2>2. ASSUME pc'[s] = "push"
        PROVE  /\ id'[s] = Len(rows) + 1 /\ id'[s] \in DOMAIN rows' /\ rows'[id'[s]] = Row(s)'
               /\ \A j \in DOMAIN jobs : j.id # id'[s]
    BY <1>2, <1>5, <1>6, <1>9, <2>2
  <2>3. ASSUME NEW q \in Senders \ {s}, pc'[q] = "push", pc'[s] = "push"
        PROVE  id'[q] # id'[s]
    BY <1>5, <2>1, <2>2, <2>3
  <2> QED BY <1>3, <2>1, <2>2, <2>3 DEF PushInv
<1>11. JobHasRow'
  BY <1>1, <1>3, <1>5 DEF JobHasRow
<1>12. AckedIsQueued'
  BY <1>1, <1>3, <1>5 DEF AckedIsQueued
<1>13. OrphansExcused'
  <2> SUFFICES ASSUME NEW i \in DOMAIN rows'
               PROVE  \/ i \in excused' \/ \E j \in DOMAIN jobs : j.id = i
                      \/ \E q \in Senders : pc'[q] = "push" /\ id'[q] = i
    BY <1>3 DEF OrphansExcused
  <2>1. CASE i \in DOMAIN rows
    BY <1>1, <1>2, <1>8, <2>1 DEF OrphansExcused
  <2>2. CASE i \notin DOMAIN rows
    <3>1. done /\ i = Len(rows) + 1
      BY <1>5, <2>2
    <3> QED BY <1>2, <1>6, <3>1
  <2> QED BY <2>1, <2>2
<1> QED BY <1>6, <1>7, <1>10, <1>11, <1>12, <1>13 DEF StoresInv

(* One more copy of the job a sender is about to push.                     *)
LEMMA PushedFacts ==
  ASSUME LocalTypes, SharedTypes, SendersInv, StoresInv, NEW s \in Senders, pc[s] = "push",
         jobs' = Pushed(Job(s)), UNCHANGED rows,
         acked' \subseteq acked \cup {id[s]}, excused \subseteq excused'
  PROVE  /\ IsABag(jobs') /\ DOMAIN jobs' = DOMAIN jobs \cup {Job(s)}
         /\ DOMAIN jobs' \subseteq Payloads
         /\ \A j \in DOMAIN jobs \ {Job(s)} : jobs'[j] = jobs[j] /\ j.id # id[s]
         /\ jobs'[Job(s)] = Copies(Job(s)) + 1 /\ Copies(Job(s)) \in Nat
         /\ Job(s).id = id[s]
         /\ JobHasRow' /\ AckedIsQueued'
<1>1. /\ SenderOK(s) /\ IsABag(jobs) /\ DOMAIN jobs \subseteq Payloads
      /\ Len(rows) \in Nat /\ DOMAIN rows = 1..Len(rows)
      /\ PushInv /\ JobHasRow /\ AckedIsQueued /\ MaxPushes \in Nat /\ MaxPushes >= 1
  <2>1. MaxPushes \in Nat \ {0}
    BY IntakeAssumption
  <2> QED BY <2>1 DEF SendersInv, SharedTypes, StoresInv
<1>2. /\ id[s] \in DOMAIN rows /\ rows[id[s]] = Row(s)
      /\ \A j \in DOMAIN jobs : j.id = id[s] => j = Job(s) /\ jobs[j] < MaxPushes
  BY <1>1 DEF PushInv
<1>3. /\ Job(s) \in Payloads /\ Job(s).id = id[s]
      /\ rows[Job(s).id] = [client |-> Job(s).client, from |-> Job(s).from, to |-> Head(Job(s).to)]
  BY <1>1, <1>2, RowFacts DEF Busy, Job, Row, Payloads
<1>4. /\ IsABag(jobs') /\ DOMAIN jobs' = DOMAIN jobs \cup {Job(s)}
      /\ \A j \in DOMAIN jobs \ {Job(s)} : jobs'[j] = jobs[j]
      /\ Job(s) \in DOMAIN jobs => jobs'[Job(s)] = jobs[Job(s)] + 1
      /\ Job(s) \notin DOMAIN jobs => jobs'[Job(s)] = 1
  BY <1>1, BagFacts DEF Pushed
<1>5. /\ jobs'[Job(s)] = Copies(Job(s)) + 1 /\ Copies(Job(s)) \in Nat
      /\ Copies(Job(s)) < MaxPushes
  <2>1. Job(s) \in DOMAIN jobs => jobs[Job(s)] \in Nat /\ jobs[Job(s)] < MaxPushes
    BY <1>1, <1>2, <1>3 DEF IsABag
  <2> QED BY <1>1, <1>4, <2>1 DEF Copies, BagIn, BagToSet
<1>6. JobHasRow'
  <2>1. ASSUME NEW j \in DOMAIN jobs'
        PROVE  /\ j.id \in DOMAIN rows
               /\ rows[j.id] = [client |-> j.client, from |-> j.from, to |-> Head(j.to)]
               /\ \A i \in DOMAIN jobs' : i.id = j.id => i = j
               /\ jobs'[j] <= MaxPushes
    <3>1. CASE j = Job(s)
      <4>1. \A i \in DOMAIN jobs' : i.id = j.id => i = j
        BY <1>2, <1>3, <1>4, <3>1
      <4>2. jobs'[j] <= MaxPushes
        BY <1>1, <1>5, <3>1
      <4> QED BY <1>2, <1>3, <3>1, <4>1, <4>2
    <3>2. CASE j \in DOMAIN jobs \ {Job(s)}
      <4>1. j.id # id[s] /\ jobs'[j] = jobs[j]
        BY <1>2, <1>4, <3>2
      <4> QED BY <1>1, <1>3, <1>4, <3>2, <4>1 DEF JobHasRow
    <3> QED BY <1>4, <3>1, <3>2
  <2> QED BY <2>1 DEF JobHasRow
<1>7. AckedIsQueued'
  <2> SUFFICES ASSUME NEW i \in acked'
               PROVE  i \in DOMAIN rows /\ \E j \in DOMAIN jobs' : j.id = i
    BY DEF AckedIsQueued
  <2>1. CASE i \in acked
    BY <1>1, <1>4, <2>1 DEF AckedIsQueued
  <2>2. CASE i = id[s]
    BY <1>2, <1>3, <1>4, <2>2
  <2> QED BY <2>1, <2>2
<1> QED BY <1>1, <1>2, <1>3, <1>4, <1>5, <1>6, <1>7

LEMMA PushAgainKeeps ==
  ASSUME LocalTypes, SharedTypes, SendersInv, StoresInv, NEW s \in Senders, PushAgain(s)
  PROVE  /\ Elsewhere(s) /\ LocalTypes' /\ SharedTypes' /\ SenderOK(s)' /\ StoresInv'
         /\ Counted(s) /\ connCount' = connCount
<1>1. /\ pc[s] = "push" /\ Copies(Job(s)) < MaxPushes - 1 /\ jobs' = Pushed(Job(s))
      /\ UNCHANGED <<connCount, pc, client, from, to, id, used, rows, asked, blind, acked, excused>>
  BY DEF PushAgain, envelope, history
<1>2. /\ IsABag(jobs') /\ DOMAIN jobs' = DOMAIN jobs \cup {Job(s)}
      /\ DOMAIN jobs' \subseteq Payloads
      /\ \A j \in DOMAIN jobs \ {Job(s)} : jobs'[j] = jobs[j] /\ j.id # id[s]
      /\ jobs'[Job(s)] = Copies(Job(s)) + 1 /\ Copies(Job(s)) \in Nat
      /\ Job(s).id = id[s]
      /\ JobHasRow' /\ AckedIsQueued'
  BY <1>1, PushedFacts
<1>3. MaxPushes \in Nat
  BY IntakeAssumption
<1>4. /\ Elsewhere(s) /\ LocalTypes' /\ SenderOK(s)' /\ Counted(s)
  BY <1>1
  DEF Elsewhere, SameInHand, LocalTypes, EnvelopeTypes, SendersInv, SenderOK, InHand, Ordered,
      Looked, Counted
<1>5. SharedTypes'
  BY <1>1, <1>2 DEF SharedTypes
<1>6. PushInv'
  <2> SUFFICES ASSUME NEW q \in Senders, pc[q] = "push"
               PROVE  /\ id[q] \in DOMAIN rows /\ rows[id[q]] = Row(q)
                      /\ \A j \in DOMAIN jobs' : j.id = id[q] => j = Job(q) /\ jobs'[j] < MaxPushes
                      /\ \A x \in Senders \ {q} : pc[x] = "push" => id[x] # id[q]
    BY <1>1 DEF PushInv, Row, Job
  <2>1. /\ id[q] \in DOMAIN rows /\ rows[id[q]] = Row(q)
        /\ \A j \in DOMAIN jobs : j.id = id[q] => j = Job(q) /\ jobs[j] < MaxPushes
        /\ \A x \in Senders \ {q} : pc[x] = "push" => id[x] # id[q]
    BY DEF StoresInv, PushInv
  <2>2. CASE q = s
    BY <1>1, <1>2, <1>3, <2>1, <2>2
  <2>3. CASE q # s
    <3>1. id[s] # id[q]
      BY <1>1, <2>1, <2>3
    <3> QED BY <1>2, <2>1, <3>1
  <2> QED BY <2>2, <2>3
<1>7. OrphansExcused'
  BY <1>1, <1>2 DEF StoresInv, OrphansExcused
<1> QED BY <1>1, <1>2, <1>4, <1>5, <1>6, <1>7 DEF StoresInv

LEMMA PushKeeps ==
  ASSUME LocalTypes, SharedTypes, SendersInv, StoresInv, NEW s \in Senders, Push(s)
  PROVE  /\ Elsewhere(s) /\ LocalTypes' /\ SharedTypes' /\ SenderOK(s)' /\ StoresInv'
         /\ Counted(s) /\ connCount' = connCount
<1>1. /\ pc[s] = "push" /\ SenderOK(s) /\ Len(rows) \in Nat
      /\ DOMAIN rows = 1..Len(rows)
      /\ IsABag(jobs) /\ DOMAIN jobs \subseteq Payloads
      /\ PushInv /\ JobHasRow /\ AckedIsQueued /\ OrphansExcused
      /\ excused \subseteq 1..Len(rows) /\ acked \subseteq 1..Len(rows)
  BY DEF Push, SendersInv, SharedTypes, StoresInv
<1>2. PICK done \in BOOLEAN, ok \in BOOLEAN :
        /\ ok => done
        /\ jobs' = IF done THEN Pushed(Job(s)) ELSE jobs
        /\ acked' = IF ok THEN acked \cup {id[s]} ELSE acked
        /\ excused' = IF ok THEN excused ELSE excused \cup {id[s]}
  BY DEF Push, AckWhen
<1>3. UNCHANGED <<used, rows>>
  BY DEF Push
<1>4. /\ Elsewhere(s) /\ LocalTypes' /\ SenderOK(s)' /\ Counted(s)
      /\ pc'[s] \in {"ready", "closed"} /\ connCount' = connCount
  BY <1>1, <1>3, DoneFacts DEF Push, Busy
<1>5. id[s] \in DOMAIN rows /\ \A q \in Senders \ {s} : pc[q] = "push" => id[q] # id[s]
  BY <1>1 DEF PushInv
<1>6. /\ IsABag(jobs') /\ DOMAIN jobs \subseteq DOMAIN jobs'
      /\ DOMAIN jobs' \subseteq Payloads
      /\ \A j \in DOMAIN jobs' : j.id # id[s] => j \in DOMAIN jobs /\ jobs'[j] = jobs[j]
      /\ done => \E j \in DOMAIN jobs' : j.id = id[s]
      /\ JobHasRow' /\ AckedIsQueued'
  <2>1. CASE done
    <3>1. /\ jobs' = Pushed(Job(s)) /\ UNCHANGED rows
          /\ acked' \subseteq acked \cup {id[s]} /\ excused \subseteq excused'
      BY <1>2, <1>3, <2>1
    <3>2. /\ IsABag(jobs') /\ DOMAIN jobs' = DOMAIN jobs \cup {Job(s)}
          /\ DOMAIN jobs' \subseteq Payloads
          /\ \A j \in DOMAIN jobs \ {Job(s)} : jobs'[j] = jobs[j] /\ j.id # id[s]
          /\ Job(s).id = id[s]
          /\ JobHasRow' /\ AckedIsQueued'
      BY <1>1, <3>1, PushedFacts
    <3> QED BY <3>2
  <2>2. CASE ~done
    BY <1>1, <1>2, <1>3, <2>2 DEF JobHasRow, AckedIsQueued
  <2> QED BY <2>1, <2>2
<1>7. SharedTypes'
  <2>1. excused' \subseteq 1..Len(rows) /\ acked' \subseteq 1..Len(rows)
    BY <1>1, <1>2, <1>5
  <2> QED BY <1>3, <1>4, <1>6, <2>1 DEF SharedTypes
<1>8. \A q \in Senders : pc'[q] = "push" =>
        /\ q # s /\ pc[q] = "push" /\ id'[q] = id[q]
        /\ Row(q)' = Row(q) /\ Job(q)' = Job(q)
  BY <1>4 DEF Elsewhere, SameInHand, Row, Job
<1>9. PushInv'
  <2> SUFFICES ASSUME NEW q \in Senders, pc'[q] = "push"
               PROVE  /\ id'[q] \in DOMAIN rows /\ rows[id'[q]] = Row(q)'
                      /\ \A j \in DOMAIN jobs' : j.id = id'[q] => j = Job(q)' /\ jobs'[j] < MaxPushes
                      /\ \A x \in Senders \ {q} : pc'[x] = "push" => id'[x] # id'[q]
    BY <1>3 DEF PushInv
  <2>1. q # s /\ pc[q] = "push" /\ id'[q] = id[q] /\ Row(q)' = Row(q) /\ Job(q)' = Job(q)
    BY <1>8
  <2>2. /\ id[q] \in DOMAIN rows /\ rows[id[q]] = Row(q)
        /\ \A j \in DOMAIN jobs : j.id = id[q] => j = Job(q) /\ jobs[j] < MaxPushes
    BY <1>1, <2>1 DEF PushInv
  <2>3. \A j \in DOMAIN jobs' : j.id = id[q] => j = Job(q) /\ jobs'[j] < MaxPushes
    BY <1>5, <1>6, <2>1, <2>2
  <2>4. \A x \in Senders \ {q} : pc'[x] = "push" => id'[x] # id[q]
    BY <1>1, <1>8, <2>1 DEF PushInv
  <2> QED BY <2>1, <2>2, <2>3, <2>4
<1>10. OrphansExcused'
  <2> SUFFICES ASSUME NEW i \in DOMAIN rows
               PROVE  \/ i \in excused' \/ \E j \in DOMAIN jobs' : j.id = i
                      \/ \E q \in Senders : pc'[q] = "push" /\ id'[q] = i
    BY <1>3 DEF OrphansExcused
  <2>1. CASE i \in excused \/ \E j \in DOMAIN jobs : j.id = i
    BY <1>2, <1>6, <2>1
  <2>2. CASE \E q \in Senders : pc[q] = "push" /\ id[q] = i
    <3>1. PICK q \in Senders : pc[q] = "push" /\ id[q] = i
      BY <2>2
    <3>2. CASE q = s
      BY <1>2, <1>6, <3>1, <3>2
    <3>3. CASE q # s
      BY <1>4, <3>1, <3>3 DEF Elsewhere, SameInHand
    <3> QED BY <3>2, <3>3
  <2> QED BY <1>1, <2>1, <2>2 DEF OrphansExcused
<1> QED BY <1>4, <1>6, <1>7, <1>9, <1>10 DEF StoresInv

-----------------------------------------------------------------------------
(* A kill takes what its process had in hand; the rows of the messages     *)
(* whose job was not pushed yet are left behind and excused.               *)
LEMMA CrashKeeps ==
  ASSUME LocalTypes, SharedTypes, SendersInv, CountInv, StoresInv,
         Crash(Conns) \/ Crash(Reqs)
  PROVE  LocalTypes' /\ SharedTypes' /\ SendersInv' /\ CountInv' /\ StoresInv'
<1>1. PICK S \in {Conns, Reqs} : Crash(S)
  OBVIOUS
<1>2. /\ pc' = [s \in Senders |-> IF s \in S THEN "closed" ELSE pc[s]]
      /\ client' = [s \in Senders |-> IF s \in S THEN None ELSE client[s]]
      /\ from' = [s \in Senders |-> IF s \in S THEN None ELSE from[s]]
      /\ to' = [s \in Senders |-> IF s \in S THEN <<>> ELSE to[s]]
      /\ id' = [s \in Senders |-> IF s \in S THEN 0 ELSE id[s]]
      /\ asked' = [s \in Senders |-> IF s \in S THEN Blank ELSE asked[s]]
      /\ blind' = blind \ S
      /\ excused' = excused \cup {id[s] : s \in {x \in S : pc[x] = "push"}}
      /\ UNCHANGED <<used, rows, jobs, acked>>
  BY <1>1 DEF Crash, stores
<1>3. S \subseteq Senders
      /\ (\E s \in S : pc[s] # "closed")
      /\ connCount' = IF S = Conns THEN 0 ELSE connCount
  BY <1>1 DEF Crash, Senders
<1>4. \A s \in Senders :
        \/ /\ s \notin S /\ pc'[s] = pc[s] /\ SameInHand(s) /\ InHand(s)' = InHand(s)
           /\ Row(s)' = Row(s)
        \/ /\ s \in S /\ pc'[s] = "closed" /\ from'[s] = None /\ to'[s] = <<>>
           /\ asked'[s] = InHand(s)'
  BY <1>2 DEF SameInHand, InHand, Row, Blank
<1>5. LocalTypes'
  <2>1. pc' \in [Senders -> PC] /\ id' \in [Senders -> 0..Len(rows')]
    BY <1>2 DEF LocalTypes, EnvelopeTypes, SharedTypes, PC
  <2>2. Blank \in Envelope /\ <<>> \in Seq(Addrs)
    BY Records DEF Blank
  <2>3. /\ client' \in [Senders -> Clients \cup {None}]
        /\ from' \in [Senders -> Addrs \cup {None}]
    BY <1>2 DEF LocalTypes, EnvelopeTypes
  <2>4. to' \in [Senders -> Seq(Addrs)]
    BY <1>2, <2>2 DEF LocalTypes, EnvelopeTypes
  <2>5. asked' \in [Senders -> Envelope]
    BY <1>2, <2>2 DEF LocalTypes, EnvelopeTypes
  <2>6. blind' \subseteq Senders
    BY <1>2 DEF LocalTypes, EnvelopeTypes
  <2> QED BY <2>1, <2>3, <2>4, <2>5, <2>6 DEF LocalTypes, EnvelopeTypes
<1>6. \A s \in S : pc[s] = "push" => id[s] \in 1..Len(rows)
  BY <1>3 DEF StoresInv, PushInv, SharedTypes
<1>7. SharedTypes'
  <2>1. excused' \subseteq 1..Len(rows)
    BY <1>2, <1>6 DEF SharedTypes
  <2>2. connCount' \in Int
    BY <1>3, IntakeAssumption DEF SharedTypes
  <2> QED BY <1>2, <2>1, <2>2 DEF SharedTypes
<1>8. SendersInv'
  <2> SUFFICES ASSUME NEW s \in Senders PROVE SenderOK(s)'
    BY DEF SendersInv
  <2>1. SenderOK(s)
    BY DEF SendersInv
  <2>2. CASE s \in S
    BY <1>4, <2>2 DEF SenderOK, Ordered, Looked, Busy
  <2>3. CASE s \notin S
    BY <1>4, <2>1, <2>3 DEF SenderOK, Ordered, Looked, SameInHand
  <2> QED BY <2>2, <2>3
<1>9. CountInv'
  <2>1. CASE S = Conns
    <3>1. \A c \in Conns : pc'[c] = "closed"
      BY <1>2, <2>1 DEF Senders
    <3>2. Sessions' = {} /\ Refusing' = {} /\ connCount' = 0
      BY <1>3, <2>1, <3>1 DEF Sessions, Refusing, Serving
    <3>3. IsFiniteSet({}) /\ Cardinality({}) = 0 /\ MaxConns \in Nat
      BY FS_EmptySet, IntakeAssumption
    <3>4. /\ IsFiniteSet(Sessions') /\ IsFiniteSet(Refusing')
          /\ Cardinality(Sessions') = 0 /\ Cardinality(Refusing') = 0
      BY <3>2, <3>3
    <3>5. CountExact'
      BY <3>2, <3>4 DEF CountExact, Refusing
    <3> QED BY <3>3, <3>4, <3>5 DEF CountInv, SessionsBounded
  <2>2. CASE S # Conns
    <3>1. S = Reqs /\ connCount' = connCount
      BY <1>3, <2>2
    <3>2. \A c \in Conns : pc'[c] = pc[c]
      BY <1>2, <3>1, IntakeAssumption DEF Senders
    <3> QED BY <3>1, <3>2, CountKept
  <2> QED BY <2>1, <2>2
<1>10. \A q \in Senders : pc'[q] = "push" =>
         /\ q \notin S /\ pc[q] = "push" /\ id'[q] = id[q]
         /\ Row(q)' = Row(q) /\ Job(q)' = Job(q)
  BY <1>4 DEF SameInHand, Job
<1>11. PushInv'
  BY <1>2, <1>10 DEF StoresInv, PushInv
<1>12. JobHasRow' /\ AckedIsQueued'
  BY <1>2 DEF StoresInv, JobHasRow, AckedIsQueued
<1>13. OrphansExcused'
  <2> SUFFICES ASSUME NEW i \in DOMAIN rows
               PROVE  \/ i \in excused' \/ \E j \in DOMAIN jobs : j.id = i
                      \/ \E q \in Senders : pc'[q] = "push" /\ id'[q] = i
    BY <1>2 DEF OrphansExcused
  <2>1. CASE \E q \in Senders : pc[q] = "push" /\ id[q] = i
    <3>1. PICK q \in Senders : pc[q] = "push" /\ id[q] = i
      BY <2>1
    <3>2. CASE q \in S
      BY <1>2, <3>1, <3>2
    <3>3. CASE q \notin S
      BY <1>4, <3>1, <3>3 DEF SameInHand
    <3> QED BY <3>2, <3>3
  <2>2. CASE i \in excused \/ \E j \in DOMAIN jobs : j.id = i
    BY <1>2, <2>2
  <2> QED BY <2>1, <2>2 DEF StoresInv, OrphansExcused
<1> QED BY <1>5, <1>7, <1>8, <1>9, <1>11, <1>12, <1>13 DEF StoresInv

-----------------------------------------------------------------------------
LEMMA IntakeStart == Init => IntakeInv
<1> SUFFICES ASSUME Init PROVE IntakeInv
  OBVIOUS
<1>1. /\ pc = [s \in Senders |-> "closed"]
      /\ client = [s \in Senders |-> None] /\ from = [s \in Senders |-> None]
      /\ to = [s \in Senders |-> <<>>] /\ id = [s \in Senders |-> 0]
      /\ asked = [s \in Senders |-> Blank] /\ blind = {}
      /\ rows = <<>> /\ Len(rows) = 0
  BY DEF Init
<1>2. LocalTypes
  <2>1. Blank \in Envelope /\ <<>> \in Seq(Addrs)
    BY Records DEF Blank
  <2>2. pc \in [Senders -> PC] /\ id \in [Senders -> 0..Len(rows)]
    BY <1>1 DEF PC
  <2>3. client \in [Senders -> Clients \cup {None}] /\ from \in [Senders -> Addrs \cup {None}]
    BY <1>1
  <2>4. to \in [Senders -> Seq(Addrs)] /\ asked \in [Senders -> Envelope]
    BY <1>1, <2>1
  <2> QED BY <1>1, <2>2, <2>3, <2>4 DEF LocalTypes, EnvelopeTypes
<1>3. SharedTypes
  <2>1. connCount \in Int /\ used \in [Clients -> 0..Limit]
    BY IntakeAssumption DEF Init
  <2>2. /\ rows \in Seq([client : Clients, from : Addrs, to : Addrs])
        /\ IsABag(jobs) /\ DOMAIN jobs \subseteq Payloads
    BY EmptyJobs DEF Init
  <2>3. acked \subseteq 1..Len(rows) /\ excused \subseteq 1..Len(rows)
    BY DEF Init
  <2> QED BY <2>1, <2>2, <2>3 DEF SharedTypes
<1>4. SendersInv
  <2> SUFFICES ASSUME NEW s \in Senders PROVE SenderOK(s)
    BY DEF SendersInv
  <2>1. from[s] = None /\ to[s] = <<>> /\ pc[s] \notin Busy /\ asked[s] = InHand(s)
    BY <1>1 DEF Busy, InHand, Blank
  <2> QED BY <2>1, BlankIsOK
<1> QED BY <1>2, <1>3, <1>4, CountStart, StoresStart DEF IntakeInv

LEMMA IntakeStep == IntakeInv /\ [Next]_vars => IntakeInv'
<1> SUFFICES ASSUME IntakeInv, [Next]_vars PROVE IntakeInv'
  OBVIOUS
<1>1. LocalTypes /\ SharedTypes /\ SendersInv /\ CountInv /\ StoresInv
  BY DEF IntakeInv
<1>2. ASSUME NEW s \in Senders, Elsewhere(s), SenderOK(s)'
      PROVE  SendersInv'
  <2> SUFFICES ASSUME NEW q \in Senders \ {s} PROVE SenderOK(q)'
    BY <1>2 DEF SendersInv
  <2>1. SenderOK(q) /\ pc'[q] = pc[q] /\ SameInHand(q)
    BY <1>1, <1>2 DEF SendersInv, Elsewhere
  <2> QED BY <2>1 DEF SenderOK, InHand, Ordered, Looked, SameInHand
<1>3. ASSUME NEW s \in Senders, Elsewhere(s), Counted(s), connCount' = connCount
      PROVE  CountInv'
  <2>1. \A c \in Conns : /\ pc'[c] \in Serving <=> pc[c] \in Serving
                         /\ pc'[c] = "refusing" <=> pc[c] = "refusing"
    BY <1>3 DEF Elsewhere, Counted, Senders
  <2> QED BY <1>1, <1>3, <2>1, CountKept
<1>4. ASSUME NEW s \in Senders, Quiet(s), connCount' \in Int, used' \in [Clients -> 0..Limit],
             CountInv'
      PROVE  IntakeInv'
  <2>1. LocalTypes' /\ SendersInv' /\ StoresInv'
    BY <1>1, <1>2, <1>4, StoresKept DEF Quiet
  <2>2. SharedTypes'
    BY <1>1, <1>4 DEF SharedTypes, Quiet
  <2> QED BY <1>4, <2>1, <2>2 DEF IntakeInv
<1>5. ASSUME NEW c \in Conns, NewSession(c) \/ Refuse(c) \/ Logout(c)
      PROVE  IntakeInv'
  <2>1. Quiet(c) /\ used' = used /\ CountInv' /\ connCount' \in Int /\ c \in Senders
    BY <1>1, <1>5, ConnectionQuiet, CountMoves DEF Senders
  <2> QED BY <1>1, <1>4, <2>1 DEF SharedTypes
<1>6. ASSUME NEW c \in Conns, AuthPlain(c) \/ Mail(c) \/ Rcpt(c) \/ Reset(c) \/ Data(c)
      PROVE  IntakeInv'
  <2>1. Quiet(c) /\ Counted(c) /\ UNCHANGED <<connCount, used>> /\ c \in Senders
    BY <1>1, <1>6, SessionQuiet DEF Senders
  <2>2. CountInv'
    BY <1>3, <2>1 DEF Quiet
  <2> QED BY <1>1, <1>4, <2>1, <2>2 DEF SharedTypes
<1>7. ASSUME NEW s \in Senders,
             \/ CheckAll(s)
             \/ s \in Conns /\ ReadBody(s)
             \/ s \in Reqs /\ (Send(s) \/ CheckFirst(s))
      PROVE  IntakeInv'
  <2>1. Quiet(s) /\ Counted(s) /\ connCount' = connCount /\ used' \in [Clients -> 0..Limit]
    BY <1>1, <1>7, MessageQuiet
  <2>2. CountInv'
    BY <1>3, <2>1 DEF Quiet
  <2> QED BY <1>1, <1>4, <2>1, <2>2 DEF SharedTypes
<1>8. ASSUME NEW s \in Senders, Create(s) \/ PushAgain(s) \/ Push(s)
      PROVE  IntakeInv'
  <2>1. /\ Elsewhere(s) /\ LocalTypes' /\ SharedTypes' /\ SenderOK(s)' /\ StoresInv'
        /\ Counted(s) /\ connCount' = connCount
    BY <1>1, <1>8, CreateKeeps, PushAgainKeeps, PushKeeps
  <2> QED BY <1>2, <1>3, <2>1 DEF IntakeInv
<1>9. CASE Crash(Conns) \/ Crash(Reqs)
  BY <1>1, <1>9, CrashKeeps DEF IntakeInv
<1>10. CASE UNCHANGED vars
  <2>1. LocalTypes' /\ SharedTypes'
    BY <1>1, <1>10
    DEF vars, envelope, stores, history, LocalTypes, EnvelopeTypes, SharedTypes
  <2>2. SendersInv' /\ CountInv'
    BY <1>1, <1>10, CountKept
    DEF vars, envelope, history, SendersInv, SenderOK, InHand, Ordered, Looked
  <2>3. StoresInv'
    BY <1>1, <1>10
    DEF vars, envelope, stores, history, StoresInv, PushInv, Row, Job, JobHasRow, AckedIsQueued,
        OrphansExcused
  <2> QED BY <2>1, <2>2, <2>3 DEF IntakeInv
<1> QED
  BY <1>5, <1>6, <1>7, <1>8, <1>9, <1>10 DEF Next, Message, Senders

LEMMA IntakeAlways == Spec => []IntakeInv
BY IntakeStart, IntakeStep, PTL DEF Spec

(* The state keeps its type: no row is referred to before it is created,   *)
(* the counter of connections is never negative, no client is granted more *)
(* than the limit.                                                         *)
THEOREM IntakeTypes == Spec => []TypeOK
<1>1. IntakeInv => TypeOK
  <2> SUFFICES ASSUME IntakeInv PROVE TypeOK
    OBVIOUS
  <2>1. /\ connCount = Cardinality(Sessions) + Cardinality(Refusing)
        /\ Cardinality(Sessions) \in Nat /\ Cardinality(Refusing) \in Nat
    BY FS_CardinalityType DEF IntakeInv, CountInv, CountExact, Refusing
  <2>2. connCount \in Nat
    BY <2>1
  <2> QED BY <2>2 DEF IntakeInv, LocalTypes, EnvelopeTypes, SharedTypes, Payloads, TypeOK
<1> QED BY <1>1, IntakeAlways, PTL

(* The lock-free counter counts exactly the sessions and the connections   *)
(* about to be refused (cmd/smtp/main.go 149-152, 304-307).                *)
THEOREM CounterIsExact == Spec => []CountExact
<1>1. IntakeInv => CountExact
  BY DEF IntakeInv, CountInv
<1> QED BY <1>1, IntakeAlways, PTL

(* Never more than MaxConns sessions, whatever arrives at once (146-156).  *)
THEOREM SessionsAreBounded == Spec => []SessionsBounded
<1>1. IntakeInv => SessionsBounded
  BY DEF IntakeInv, CountInv
<1> QED BY <1>1, IntakeAlways, PTL

(* Whatever was answered 250 or 202 is recorded and queued, whichever      *)
(* calls failed and whoever was killed (api/main.go 145-170, smtp/main.go  *)
(* 257-283).                                                               *)
THEOREM AckedAreQueued == Spec => []AckedIsQueued
<1>1. IntakeInv => AckedIsQueued
  BY DEF IntakeInv, StoresInv
<1> QED BY <1>1, IntakeAlways, PTL

(* Every job has a row of its own, of the same tenant, sender and first    *)
(* recipient, and a row no jobs but the copies of one, which are never     *)
(* more than the LPUSHes go-redis makes of one push.                       *)
THEOREM JobsHaveRows == Spec => []JobHasRow
<1>1. IntakeInv => JobHasRow
  BY DEF IntakeInv, StoresInv
<1> QED BY <1>1, IntakeAlways, PTL

(* A row without a job is one whose sender was not told it was accepted.   *)
THEOREM OrphansAreExcused == Spec => []OrphansExcused
<1>1. IntakeInv => OrphansExcused
  BY DEF IntakeInv, StoresInv
<1> QED BY <1>1, IntakeAlways, PTL

(* Nothing of one message gets into the next of the same session (smtp     *)
(* main.go 299-302).                                                       *)
THEOREM EnvelopesAreKept == Spec => []EnvelopeKept
<1>1. IntakeInv => EnvelopeKept
  BY DEF IntakeInv, SendersInv, SenderOK, InHand, EnvelopeKept
<1> QED BY <1>1, IntakeAlways, PTL

(* A listed address gets in only past a failed lookup, or as a later       *)
(* recipient of an API request (smtp/main.go 180-211, api/main.go          *)
(* 140-143).                                                               *)
THEOREM ListedAreStopped == Spec => []ListedStopped
<1>1. IntakeInv => ListedStopped
  <2> SUFFICES ASSUME IntakeInv, NEW s \in Senders \ blind, pc[s] \in {"create", "push"}
               PROVE  /\ <<client[s], Head(to[s])>> \notin Listed
                      /\ s \in Conns => \A a \in {from[s]} \cup Range(to[s]) :
                                          <<client[s], a>> \notin Listed
    BY DEF ListedStopped
  <2>1. Looked(s) /\ from[s] # None /\ to[s] # <<>> /\ to[s] \in Seq(Addrs)
    BY DEF IntakeInv, SendersInv, SenderOK, Ordered, Busy, LocalTypes, EnvelopeTypes
  <2>2. CASE s \in Conns
    <3>1. Head(to[s]) = to[s][1] /\ 1 \in DOMAIN to[s]
      BY <2>1
    <3> QED BY <2>1, <2>2, <3>1 DEF Looked, Clean, Range
  <2>3. CASE s \notin Conns
    BY <2>1, <2>3 DEF Looked, Clean
  <2> QED BY <2>2, <2>3
<1> QED BY <1>1, IntakeAlways, PTL
=============================================================================
