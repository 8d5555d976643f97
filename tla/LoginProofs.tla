----------------------------- MODULE LoginProofs -----------------------------
(***************************************************************************)
(* For every number of clients, names and passwords, and whatever pushes   *)
(* and statements fail, as long as malloc does not give a new LoginClient  *)
(* the address a query on the database thread still names: a client is     *)
(* authorized, and char select told of it, only for an account whose name  *)
(* and password it sent, and it never waits for more than one answer nor,  *)
(* unless it was dropped or a push failed for it, for none.                *)
(***************************************************************************)
EXTENDS Login, SequenceTheorems, FiniteSetTheorems, TLAPS

Queries ==
  [zop : {"LoginCredentials", "LoginNewAccount"}, client : Objects, session : 1 .. MaxSessions,
   name : Names \cup {None}, password : Passwords \cup {None}]

Replies ==
  [zop : {"LoginCredentials", "LoginNewAccount"}, client : Objects, session : 1 .. MaxSessions,
   hadError : BOOLEAN, acctId : Nat, password : Passwords \cup {None}]

TypeInv ==
  /\ client \in [Objects -> LoginClients \cup {None}]
  /\ opened \in 0 .. MaxSessions /\ attempts \in 0 .. MaxAttempts
  /\ dbQueue \in Seq(Queries) /\ writes \in Seq(Queries) /\ reads \in Seq(Queries)
  /\ replies \in Seq(Replies)
  /\ accounts \in Seq([name : Names, password : Passwords])
  /\ executing \in BOOLEAN /\ failures \in 0 .. MaxFailures

\* The objects the messages of a queue are about, and that each is there once.
ClientsIn(s) == {s[i].client : i \in 1 .. Len(s)}
OnePerClient(s) == \A i, j \in 1 .. Len(s) : s[i].client = s[j].client => i = j

\* An object is named by one message on the database thread at most.
UniqueInv ==
  /\ OnePerClient(dbQueue) /\ OnePerClient(writes) /\ OnePerClient(reads) /\ OnePerClient(replies)
  /\ ClientsIn(dbQueue) \cap ClientsIn(writes) = {} /\ ClientsIn(dbQueue) \cap ClientsIn(reads) = {}
  /\ ClientsIn(dbQueue) \cap ClientsIn(replies) = {} /\ ClientsIn(writes) \cap ClientsIn(reads) = {}
  /\ ClientsIn(writes) \cap ClientsIn(replies) = {} /\ ClientsIn(reads) \cap ClientsIn(replies) = {}

Asked(o) ==
  \/ o \in ClientsIn(dbQueue) \/ o \in ClientsIn(writes)
  \/ o \in ClientsIn(reads) \/ o \in ClientsIn(replies)

\* Connections are told apart by their session.
SessionInv ==
  /\ \A o \in Live : client[o].session <= opened
  /\ \A o, p \in Live : client[o].session = client[p].session => o = p
  /\ \A q \in Outstanding : q.session <= opened
  /\ \A q \in Outstanding, o \in Live : q.session = client[o].session => q.client = o

\* A message about a live client belongs to that client's attempt.
AttemptOf(q) ==
  q.client \in Live =>
    LET c == client[q.client] IN
    /\ c.session = q.session /\ c.authState = ProcessingCredentials
    /\ c.accountName \in Names /\ c.typed \in Passwords
    /\ q.zop = "LoginCredentials" => c.passwordTemp = c.typed

\* A query carries what the client sent.
QueryOK(q) ==
  /\ AttemptOf(q) /\ q.name \in Names
  /\ q.zop = "LoginNewAccount" => q.password \in Passwords
  /\ q.client \in Live =>
       /\ client[q.client].accountName = q.name
       /\ q.zop = "LoginNewAccount" => client[q.client].typed = q.password

\* An answer names the row that its client's credentials stand for.
ReplyOK(r) ==
  /\ AttemptOf(r)
  /\ r.client \in Live /\ ~r.hadError =>
       LET c == client[r.client] IN
       /\ r.zop = "LoginNewAccount" => Proves(r.acctId, c.accountName, c.typed)
       /\ r.zop = "LoginCredentials" /\ r.acctId # 0 =>
            Proves(r.acctId, c.accountName, r.password)

MessageInv ==
  /\ \A q \in ToSet(dbQueue) : QueryOK(q)
  /\ \A q \in ToSet(writes) : QueryOK(q) /\ q.zop = "LoginNewAccount"
  /\ \A q \in ToSet(reads) : QueryOK(q) /\ q.zop = "LoginCredentials"
  /\ \A r \in ToSet(replies) : ReplyOK(r)

\* A client that is processing its credentials is being answered, unless it was
\* dropped or a push failed for it.
WaitInv ==
  \A o \in Live : client[o].authState = ProcessingCredentials =>
    Asked(o) \/ client[o].dropped \/ client[o].unlucky

IInv ==
  /\ TypeInv /\ UniqueInv /\ SessionInv /\ MessageInv /\ WaitInv
  /\ SessionsAreProven /\ LoginAuthsAreProven

-----------------------------------------------------------------------------
(* Queues as sets of messages.                                             *)

\* What a push adds to a queue.
LEMMA Pushed ==
  ASSUME NEW S, NEW s \in Seq(S), NEW q \in S
  PROVE  /\ Append(s, q) \in Seq(S)
         /\ ToSet(Append(s, q)) = ToSet(s) \cup {q}
         /\ ClientsIn(Append(s, q)) = ClientsIn(s) \cup {q.client}
         /\ OnePerClient(s) /\ q.client \notin ClientsIn(s) => OnePerClient(Append(s, q))
<1> DEFINE t == Append(s, q)
<1>1. PICK n \in Nat : n = Len(s)  BY LenProperties
<1>2. /\ t \in Seq(S) /\ Len(s) = n /\ Len(t) = n + 1
      /\ \A i \in 1 .. n : t[i] = s[i]
      /\ t[n + 1] = q
  BY <1>1, AppendProperties
<1>3. DOMAIN s = 1 .. n /\ DOMAIN t = 1 .. n + 1  BY <1>2, LenProperties
<1> HIDE DEF t
<1>4. \A i \in 1 .. n + 1 : i \in 1 .. n \/ i = n + 1  OBVIOUS
<1>5. 1 .. n \subseteq 1 .. n + 1 /\ n + 1 \in 1 .. n + 1  OBVIOUS
<1>6. ToSet(t) = ToSet(s) \cup {q}
  <2>1. \A x \in ToSet(t) : x \in ToSet(s) \cup {q}  BY <1>2, <1>3, <1>4 DEF ToSet
  <2>2. \A x \in ToSet(s) \cup {q} : x \in ToSet(t)  BY <1>2, <1>3, <1>5 DEF ToSet
  <2>3. QED  BY <2>1, <2>2
<1>7. ClientsIn(t) = ClientsIn(s) \cup {q.client}
  <2>1. \A x \in ClientsIn(t) : x \in ClientsIn(s) \cup {q.client}
    BY <1>2, <1>4 DEF ClientsIn
  <2>2. \A x \in ClientsIn(s) \cup {q.client} : x \in ClientsIn(t)
    BY <1>2, <1>5 DEF ClientsIn
  <2>3. QED  BY <2>1, <2>2
<1>8. OnePerClient(s) /\ q.client \notin ClientsIn(s) => OnePerClient(t)
  BY <1>2, <1>4 DEF OnePerClient, ClientsIn
<1>9. QED  BY <1>2, <1>6, <1>7, <1>8 DEF t

\* What a pop takes from a queue.
LEMMA Popped ==
  ASSUME NEW S, NEW s \in Seq(S), s # <<>>
  PROVE  /\ Tail(s) \in Seq(S) /\ Head(s) \in S
         /\ ToSet(s) = ToSet(Tail(s)) \cup {Head(s)}
         /\ OnePerClient(s) =>
              /\ OnePerClient(Tail(s))
              /\ ClientsIn(Tail(s)) = ClientsIn(s) \ {Head(s).client}
              /\ Head(s).client \in ClientsIn(s)
<1> DEFINE t == Tail(s)
<1>1. PICK n \in Nat \ {0} : n = Len(s)  BY EmptySeq
<1>2. /\ t \in Seq(S) /\ Len(s) = n /\ Len(t) = n - 1 /\ Head(s) = s[1] /\ Head(s) \in S
      /\ \A i \in 1 .. n - 1 : t[i] = s[i + 1]
  BY <1>1, HeadTailProperties
<1>3. DOMAIN s = 1 .. n /\ DOMAIN t = 1 .. n - 1  BY <1>2, LenProperties
<1> HIDE DEF t
<1>4. \A i \in 1 .. n : i = 1 \/ (i - 1 \in 1 .. n - 1 /\ t[i - 1] = s[i])  BY <1>2
<1>5. 1 \in 1 .. n /\ \A i \in 1 .. n - 1 : i + 1 \in 1 .. n /\ i + 1 # 1  OBVIOUS
<1>6. ToSet(s) = ToSet(t) \cup {s[1]}
  <2>1. \A x \in ToSet(s) : x \in ToSet(t) \cup {s[1]}  BY <1>3, <1>4 DEF ToSet
  <2>2. \A x \in ToSet(t) \cup {s[1]} : x \in ToSet(s)  BY <1>2, <1>3, <1>5, SMTT(30) DEF ToSet
  <2>3. QED  BY <2>1, <2>2
<1>7. ASSUME OnePerClient(s)
      PROVE  /\ OnePerClient(t) /\ ClientsIn(t) = ClientsIn(s) \ {s[1].client}
             /\ s[1].client \in ClientsIn(s)
  <2>1. \A x \in ClientsIn(t) : x \in ClientsIn(s) \ {s[1].client}
    BY <1>2, <1>5, <1>7, SMTT(30) DEF ClientsIn, OnePerClient
  <2>2. ASSUME NEW x \in ClientsIn(s) \ {s[1].client} PROVE x \in ClientsIn(t)
    <3>1. PICK i \in 1 .. n : x = s[i].client  BY <1>2 DEF ClientsIn
    <3>2. i - 1 \in 1 .. n - 1 /\ t[i - 1] = s[i]  BY <1>4, <3>1
    <3>3. QED  BY <1>2, <3>1, <3>2 DEF ClientsIn
  <2>3. OnePerClient(t)
    <3>1. ASSUME NEW i \in 1 .. n - 1, NEW j \in 1 .. n - 1, t[i].client = t[j].client
          PROVE  i = j
      <4>1. i + 1 \in 1 .. n /\ j + 1 \in 1 .. n /\ s[i + 1].client = s[j + 1].client
        BY <1>2, <3>1
      <4>2. i + 1 = j + 1  BY <1>2, <1>7, <4>1 DEF OnePerClient
      <4>3. QED  BY <4>2
    <3>2. QED  BY <1>2, <3>1 DEF OnePerClient
  <2>4. s[1].client \in ClientsIn(s)  BY <1>2, <1>5 DEF ClientsIn
  <2>5. QED  BY <2>1, <2>2, <2>3, <2>4
<1>8. QED  BY <1>2, <1>6, <1>7 DEF t

\* The messages of a queue and the clients they are about.
LEMMA MembersOf ==
  ASSUME NEW S, NEW s \in Seq(S)
  PROVE  /\ \A q \in ToSet(s) : q \in S /\ q.client \in ClientsIn(s)
         /\ \A o \in ClientsIn(s) : \E q \in ToSet(s) : q.client = o
         /\ OnePerClient(s) => \A q, r \in ToSet(s) : q.client = r.client => q = r
<1>1. DOMAIN s = 1 .. Len(s) /\ \A i \in 1 .. Len(s) : s[i] \in S
  BY LenProperties, ElementOfSeq
<1>2. QED  BY <1>1 DEF ToSet, ClientsIn, OnePerClient

-----------------------------------------------------------------------------
(* What the steps share.                                                   *)

\* d is the client c in the same attempt: only its flags may have been raised.
SameAttempt(c, d) ==
  /\ d.session = c.session /\ d.accountName = c.accountName /\ d.typed = c.typed
  /\ d.passwordTemp = c.passwordTemp /\ d.accountId = c.accountId
  /\ d.authState = c.authState \/ {c.authState, d.authState} \subseteq {Initial, VersionSent}
  /\ (c.dropped => d.dropped) /\ (c.unlucky => d.unlucky)

Kept(o) == o \in Live' => o \in Live /\ SameAttempt(client[o], client'[o])

AccountsKept ==
  \A id \in DOMAIN accounts : id \in DOMAIN accounts' /\ accounts'[id] = accounts[id]

\* A message stays true of a client that keeps its attempt.
LEMMA MessageKept ==
  ASSUME NEW q, Kept(q.client), AccountsKept
  PROVE  /\ QueryOK(q) => QueryOK(q)'
         /\ ReplyOK(q) => ReplyOK(q)'
<1>1. AttemptOf(q) => AttemptOf(q)'
  BY DEF Kept, SameAttempt, AttemptOf, Initial, VersionSent, ProcessingCredentials
<1>2. QueryOK(q) => QueryOK(q)'
  BY <1>1 DEF QueryOK, Kept, SameAttempt
<1>3. ReplyOK(q) => ReplyOK(q)'
  BY <1>1 DEF ReplyOK, Kept, SameAttempt, AccountsKept, Proves
<1>4. QED  BY <1>2, <1>3

\* A client that keeps its attempt stays authorized by right.
LEMMA ProvenKept ==
  ASSUME SessionsAreProven, NEW o, Kept(o), AccountsKept, o \in Live',
         client'[o].authState = Authorized
  PROVE  Proves(client[o].accountId, client[o].accountName, client[o].typed)'
  BY DEF SessionsAreProven, Kept, SameAttempt, AccountsKept, Proves, Initial, VersionSent, Authorized

\* A step that leaves the database thread and its rows alone.
LEMMA QueuesKept ==
  ASSUME IInv, UNCHANGED <<dbQueue, writes, reads, replies, accounts>>
  PROVE  /\ UniqueInv' /\ Outstanding' = Outstanding /\ AccountsKept
         /\ \A o : Asked(o)' <=> Asked(o)
  BY DEF IInv, UniqueInv, Outstanding, AccountsKept, Asked

\* The clients of outstanding messages.
LEMMA OutstandingClients ==
  ASSUME TypeInv
  PROVE  /\ \A q \in Outstanding : Asked(q.client) /\ q.client \in Objects /\ q.session \in Nat
         /\ \A o : Asked(o) => \E q \in Outstanding : q.client = o
<1>1. /\ \A q \in ToSet(dbQueue) : q \in Queries /\ q.client \in ClientsIn(dbQueue)
      /\ \A q \in ToSet(writes) : q \in Queries /\ q.client \in ClientsIn(writes)
      /\ \A q \in ToSet(reads) : q \in Queries /\ q.client \in ClientsIn(reads)
      /\ \A q \in ToSet(replies) : q \in Replies /\ q.client \in ClientsIn(replies)
  BY MembersOf DEF TypeInv
<1>2. /\ \A o \in ClientsIn(dbQueue) : \E q \in ToSet(dbQueue) : q.client = o
      /\ \A o \in ClientsIn(writes) : \E q \in ToSet(writes) : q.client = o
      /\ \A o \in ClientsIn(reads) : \E q \in ToSet(reads) : q.client = o
      /\ \A o \in ClientsIn(replies) : \E q \in ToSet(replies) : q.client = o
  BY MembersOf DEF TypeInv
<1>3. \A q \in Queries : q.client \in Objects /\ q.session \in Nat  BY DEF Queries
<1>4. \A q \in Replies : q.client \in Objects /\ q.session \in Nat  BY DEF Replies
<1>5. QED  BY <1>1, <1>2, <1>3, <1>4 DEF Outstanding, Asked

\* The connections of clients that keep their attempts stay told apart.
LEMMA SessionsKept ==
  ASSUME IInv, opened' = opened, \A o \in Objects : Kept(o),
         \A q \in Outstanding' : q \in Outstanding
  PROVE  SessionInv'
<1>1. Live' \subseteq Objects  BY DEF Live
<1>2. QED  BY <1>1 DEF IInv, SessionInv, Kept, SameAttempt

\* A step in which every client keeps its attempt, and neither queues nor rows
\* change, keeps all that is said of messages and clients.
LEMMA FlagsInv ==
  ASSUME IInv, UNCHANGED <<dbQueue, writes, reads, replies, accounts, opened>>,
         \A o \in Objects : Kept(o)
  PROVE  UniqueInv' /\ SessionInv' /\ MessageInv' /\ WaitInv' /\ SessionsAreProven'
<1>1. /\ UniqueInv' /\ Outstanding' = Outstanding /\ AccountsKept
      /\ \A o : Asked(o)' <=> Asked(o)
  BY QueuesKept
<1>2. SessionInv'  BY <1>1, SessionsKept
<1>3. \A q \in Outstanding : Kept(q.client)
  BY OutstandingClients DEF IInv
<1>4. MessageInv'
  <2>1. \A q \in Outstanding : (QueryOK(q) => QueryOK(q)') /\ (ReplyOK(q) => ReplyOK(q)')
    BY <1>1, <1>3, MessageKept
  <2>2. QED  BY <2>1 DEF IInv, MessageInv, Outstanding
<1>5. WaitInv'
  <2>1. Live' \subseteq Objects  BY DEF Live
  <2>2. QED
    BY <1>1, <2>1 DEF IInv, WaitInv, Kept, SameAttempt, Initial, VersionSent, ProcessingCredentials
<1>6. SessionsAreProven'
  <2>1. Live' \subseteq Objects  BY DEF Live
  <2>2. ASSUME NEW o \in Live', client'[o].authState = Authorized
        PROVE  Proves(client[o].accountId, client[o].accountName, client[o].typed)'
    BY <1>1, <2>1, <2>2, ProvenKept DEF IInv
  <2>3. QED  BY <2>2 DEF SessionsAreProven
<1>7. QED  BY <1>1, <1>2, <1>4, <1>5, <1>6

\* The reply about o, if there was one, is gone from the login queue.
Answered(o) ==
  /\ replies' \in Seq(Replies) /\ OnePerClient(replies')
  /\ ToSet(replies') \subseteq ToSet(replies)
  /\ ClientsIn(replies') = ClientsIn(replies) \ {o}

\* No query about o is on the database thread.
Unqueried(o) ==
  o \notin ClientsIn(dbQueue) /\ o \notin ClientsIn(writes) /\ o \notin ClientsIn(reads)

\* Nothing that is left of the queues names o, and what is left was there.
LEMMA AnsweredQueues ==
  ASSUME IInv, NEW o, Answered(o), Unqueried(o), UNCHANGED <<writes, reads>>
  PROVE  /\ \A q \in ToSet(dbQueue) \cup ToSet(writes) \cup ToSet(reads) \cup ToSet(replies') :
              q.client # o /\ q.client \in Objects /\ q \in Outstanding
         /\ \A x : x # o => (Asked(x) => x \in ClientsIn(dbQueue) \cup ClientsIn(writes)
                                           \cup ClientsIn(reads) \cup ClientsIn(replies'))
<1>1. /\ \A q \in ToSet(dbQueue) : q \in Queries /\ q.client \in ClientsIn(dbQueue)
      /\ \A q \in ToSet(writes) : q \in Queries /\ q.client \in ClientsIn(writes)
      /\ \A q \in ToSet(reads) : q \in Queries /\ q.client \in ClientsIn(reads)
  BY MembersOf DEF IInv, TypeInv
<1>2. \A q \in ToSet(replies') : q \in Replies /\ q.client \in ClientsIn(replies')
  BY MembersOf DEF Answered
<1>3. \A q \in Queries : q.client \in Objects  BY DEF Queries
<1>4. \A q \in Replies : q.client \in Objects  BY DEF Replies
<1>5. QED  BY <1>1, <1>2, <1>3, <1>4 DEF Answered, Unqueried, Outstanding, Asked

\* Client o gets its answer: nothing about it is left on the database thread.
LEMMA SettledInv ==
  ASSUME IInv, NEW o \in Live, NEW d \in LoginClients,
         client' = [client EXCEPT ![o] = d], d.session = client[o].session,
         d.authState = ProcessingCredentials => d.dropped \/ d.unlucky,
         d.authState = Authorized => Proves(d.accountId, d.accountName, d.typed),
         Answered(o), Unqueried(o), UNCHANGED <<dbQueue, writes, reads, accounts, opened>>
  PROVE  UniqueInv' /\ SessionInv' /\ MessageInv' /\ WaitInv' /\ SessionsAreProven'
<1>1. o \in Objects /\ Live' \subseteq Objects /\ client'[o] = d
      /\ \A x \in Objects : x # o => client'[x] = client[x]
  BY DEF Live, IInv, TypeInv
<1>2. \A x \in Objects : x # o => Kept(x) /\ (x \in Live' <=> x \in Live)
  BY <1>1 DEF Kept, SameAttempt, Live
<1>3. /\ \A q \in ToSet(dbQueue) \cup ToSet(writes) \cup ToSet(reads) \cup ToSet(replies') :
           q.client # o /\ q.client \in Objects /\ q \in Outstanding
      /\ \A x : x # o => (Asked(x) => x \in ClientsIn(dbQueue) \cup ClientsIn(writes)
                                           \cup ClientsIn(reads) \cup ClientsIn(replies'))
  BY AnsweredQueues
<1>4. AccountsKept  BY DEF AccountsKept
<1>5. UniqueInv'  BY DEF IInv, UniqueInv, Answered
<1>6. SessionInv'
  <2>1. \A q \in Outstanding' : q \in Outstanding /\ q.client # o
    BY <1>3 DEF Outstanding
  <2>2. \A x \in Live' : x \in Live /\ client'[x].session = client[x].session
    BY <1>1, <1>2 DEF Kept
  <2>3. QED  BY <2>1, <2>2 DEF IInv, SessionInv
<1>7. MessageInv'
  <2>1. \A q \in ToSet(dbQueue) \cup ToSet(writes) \cup ToSet(reads) \cup ToSet(replies') :
          (QueryOK(q) => QueryOK(q)') /\ (ReplyOK(q) => ReplyOK(q)')
    BY <1>2, <1>3, <1>4, MessageKept
  <2>2. QED  BY <2>1 DEF IInv, MessageInv, Answered
<1>8. WaitInv'
  <2>1. ASSUME NEW x \in Live', client'[x].authState = ProcessingCredentials
        PROVE  Asked(x)' \/ client'[x].dropped \/ client'[x].unlucky
    <3>1. CASE x = o  BY <1>1, <2>1, <3>1
    <3>2. CASE x # o  BY <1>1, <1>2, <1>3, <2>1, <3>2 DEF IInv, WaitInv, Asked
    <3>3. QED  BY <3>1, <3>2
  <2>2. QED  BY <2>1 DEF WaitInv
<1>9. SessionsAreProven'
  BY <1>1, <1>2 DEF IInv, SessionsAreProven, Proves
<1>10. QED  BY <1>5, <1>6, <1>7, <1>8, <1>9

\* A query about client o, which has none on its way, is pushed.
LEMMA AskedInv ==
  ASSUME IInv, NEW o \in Live, NEW d \in LoginClients, NEW q \in Queries,
         client' = [client EXCEPT ![o] = d], dbQueue' = Append(dbQueue, q),
         d.session = client[o].session, d.authState = ProcessingCredentials,
         d.accountName \in Names, d.typed \in Passwords,
         q.client = o, q.session = d.session, q.name = d.accountName,
         q.zop = "LoginCredentials" => d.passwordTemp = d.typed,
         q.zop = "LoginNewAccount" => q.password = d.typed,
         Answered(o), Unqueried(o), UNCHANGED <<writes, reads, accounts, opened>>
  PROVE  UniqueInv' /\ SessionInv' /\ MessageInv' /\ WaitInv' /\ SessionsAreProven'
<1>1. o \in Objects /\ Live' \subseteq Objects /\ client'[o] = d
      /\ \A x \in Objects : x # o => client'[x] = client[x]
  BY DEF Live, IInv, TypeInv
<1>2. \A x \in Objects : x # o => Kept(x) /\ (x \in Live' <=> x \in Live)
  BY <1>1 DEF Kept, SameAttempt, Live
<1>3. /\ \A m \in ToSet(dbQueue) \cup ToSet(writes) \cup ToSet(reads) \cup ToSet(replies') :
           m.client # o /\ m.client \in Objects /\ m \in Outstanding
      /\ \A x : x # o => (Asked(x) => x \in ClientsIn(dbQueue) \cup ClientsIn(writes)
                                           \cup ClientsIn(reads) \cup ClientsIn(replies'))
  BY AnsweredQueues
<1>4. AccountsKept  BY DEF AccountsKept
<1>5. /\ ToSet(dbQueue') = ToSet(dbQueue) \cup {q}
      /\ ClientsIn(dbQueue') = ClientsIn(dbQueue) \cup {o}
      /\ OnePerClient(dbQueue')
  BY Pushed DEF IInv, TypeInv, UniqueInv, Unqueried
<1>6. UniqueInv'
  BY <1>5 DEF IInv, UniqueInv, Answered, Unqueried
<1>7. SessionInv'
  <2>1. \A m \in Outstanding' : (m \in Outstanding /\ m.client # o) \/ m = q
    BY <1>3, <1>5 DEF Outstanding
  <2>2. \A x \in Live' : x \in Live /\ client'[x].session = client[x].session
    BY <1>1, <1>2 DEF Kept
  <2>3. QED  BY <2>1, <2>2 DEF IInv, SessionInv
<1>8. MessageInv'
  <2>1. \A m \in ToSet(dbQueue) \cup ToSet(writes) \cup ToSet(reads) \cup ToSet(replies') :
          (QueryOK(m) => QueryOK(m)') /\ (ReplyOK(m) => ReplyOK(m)')
    BY <1>2, <1>3, <1>4, MessageKept
  <2>2. QueryOK(q)'  BY <1>1 DEF QueryOK, AttemptOf
  <2>3. QED  BY <1>5, <2>1, <2>2 DEF IInv, MessageInv, Answered
<1>9. WaitInv'
  <2>1. ASSUME NEW x \in Live', client'[x].authState = ProcessingCredentials
        PROVE  Asked(x)' \/ client'[x].dropped \/ client'[x].unlucky
    <3>1. CASE x = o  BY <1>5, <3>1 DEF Asked
    <3>2. CASE x # o  BY <1>1, <1>2, <1>3, <1>5, <2>1, <3>2 DEF IInv, WaitInv, Asked
    <3>3. QED  BY <3>1, <3>2
  <2>2. QED  BY <2>1 DEF WaitInv
<1>10. SessionsAreProven'
  BY <1>1, <1>2 DEF IInv, SessionsAreProven, Proves, ProcessingCredentials, Authorized
<1>11. QED  BY <1>6, <1>7, <1>8, <1>9, <1>10

-----------------------------------------------------------------------------
(* The steps of the login thread that ask nothing and answer nothing.      *)

CoreInv == TypeInv /\ UniqueInv /\ SessionInv /\ MessageInv /\ WaitInv /\ SessionsAreProven

\* Client o becomes d, whatever else the step does.
Becomes(o, d) == d \in LoginClients /\ client' = [client EXCEPT ![o] = d]

\* What login_thread_drop_client makes of a client.
LEMMA DroppedClient ==
  ASSUME NEW c \in LoginClients, NEW ok \in BOOLEAN
  PROVE  /\ Dropped(c, ok) \in LoginClients /\ SameAttempt(c, Dropped(c, ok))
         /\ Dropped(c, ok).dropped \/ Dropped(c, ok).unlucky
         /\ [c EXCEPT !.unlucky = TRUE] \in LoginClients
         /\ SameAttempt(c, [c EXCEPT !.unlucky = TRUE])
         /\ [c EXCEPT !.unlucky = TRUE].unlucky
<1>1. /\ [c EXCEPT !.unlucky = TRUE] \in LoginClients /\ SameAttempt(c, [c EXCEPT !.unlucky = TRUE])
      /\ [c EXCEPT !.unlucky = TRUE].unlucky
  BY DEF LoginClients, SameAttempt
<1>2. /\ [c EXCEPT !.dropped = TRUE] \in LoginClients /\ SameAttempt(c, [c EXCEPT !.dropped = TRUE])
      /\ [c EXCEPT !.dropped = TRUE].dropped
  BY DEF LoginClients, SameAttempt
<1>3. QED  BY <1>1, <1>2 DEF Dropped

\* The same attempt, twice over.
LEMMA SameAttemptTransitive ==
  ASSUME NEW c, NEW d, NEW e, SameAttempt(c, d), SameAttempt(d, e)
  PROVE  SameAttempt(c, e)
  BY DEF SameAttempt

\* login_thread_drop_client, whether its push fits or not.
LEMMA DropGives ==
  ASSUME TypeInv, NEW o, NEW c \in LoginClients, Drop(o, c)
  PROVE  /\ \E d : Becomes(o, d) /\ SameAttempt(c, d) /\ (d.dropped \/ d.unlucky)
         /\ failures' \in 0 .. MaxFailures
<1>1. PICK ok \in BOOLEAN : /\ client' = [client EXCEPT ![o] = Dropped(c, ok)]
                            /\ Spend(IF ok THEN 0 ELSE 1)
  BY DEF Drop
<1>2. failures' \in 0 .. MaxFailures  BY <1>1, LoginAssumption DEF Spend, TypeInv
<1>3. QED  BY <1>1, <1>2, DroppedClient DEF Becomes

\* A push that fails, and the drop it leads to.
LEMMA FailAndDropGives ==
  ASSUME TypeInv, NEW o, NEW c \in LoginClients, FailAndDrop(o, c)
  PROVE  /\ \E d : Becomes(o, d) /\ SameAttempt(c, d) /\ d.unlucky
         /\ failures' \in 0 .. MaxFailures
<1> DEFINE e == [c EXCEPT !.unlucky = TRUE]
<1>1. PICK ok \in BOOLEAN : /\ client' = [client EXCEPT ![o] = Dropped(e, ok)]
                            /\ Spend(IF ok THEN 1 ELSE 2)
  BY DEF FailAndDrop
<1>2. failures' \in 0 .. MaxFailures  BY <1>1, LoginAssumption DEF Spend, TypeInv
<1>3. e \in LoginClients /\ SameAttempt(c, e) /\ e.unlucky  BY DroppedClient
<1> HIDE DEF e
<1>4. Dropped(e, ok) \in LoginClients /\ SameAttempt(e, Dropped(e, ok))  BY <1>3, DroppedClient
<1>5. SameAttempt(c, Dropped(e, ok)) /\ Dropped(e, ok).unlucky
  BY <1>3, <1>4, SameAttemptTransitive DEF SameAttempt
<1>6. QED  BY <1>1, <1>2, <1>4, <1>5 DEF Becomes

\* A packet to the client, scheduled or not.
LEMMA SendGives ==
  ASSUME TypeInv, NEW o, NEW c \in LoginClients, Send(o, c)
  PROVE  /\ \E d : Becomes(o, d) /\ SameAttempt(c, d)
         /\ failures' \in 0 .. MaxFailures
<1>1. CASE client' = [client EXCEPT ![o] = c] /\ Spend(0)
  <2>1. SameAttempt(c, c)  BY DEF SameAttempt
  <2>2. failures' \in 0 .. MaxFailures  BY <1>1, LoginAssumption DEF Spend, TypeInv
  <2>3. QED  BY <1>1, <2>1, <2>2 DEF Becomes
<1>2. CASE FailAndDrop(o, c)  BY <1>2, FailAndDropGives
<1>3. QED  BY <1>1, <1>2 DEF Send

\* The clients stay LoginClients.
LEMMA BecomesType ==
  ASSUME TypeInv, NEW o \in Live, NEW d, Becomes(o, d), accounts' = accounts
  PROVE  (client \in [Objects -> LoginClients \cup {None}])'
  BY DEF TypeInv, Becomes, LoginClients, Live

\* A step that only raises flags of one client.
LEMMA FlagStep ==
  ASSUME IInv, NEW o \in Live, NEW d, Becomes(o, d), SameAttempt(client[o], d),
         UNCHANGED <<opened, attempts, db, replies>>, failures' \in 0 .. MaxFailures
  PROVE  CoreInv'
<1>1. \A x \in Objects : Kept(x)
  <2>1. o \in Objects /\ client'[o] = d /\ \A x \in Objects : x # o => client'[x] = client[x]
    BY DEF Becomes, Live, IInv, TypeInv
  <2>2. QED  BY <2>1 DEF Kept, SameAttempt, Live
<1>2. TypeInv'
  <2>1. (client \in [Objects -> LoginClients \cup {None}])'  BY BecomesType DEF IInv, db
  <2>2. QED  BY <2>1 DEF IInv, TypeInv, db
<1>3. QED  BY <1>1, <1>2, FlagsInv DEF CoreInv, db

\* A live client is a LoginClient.
LEMMA LiveClient ==
  ASSUME TypeInv, NEW o \in Live
  PROVE  client[o] \in LoginClients /\ o \in Objects
  BY DEF TypeInv, Live

\* The database thread knows nothing of a client that waits for no answer.
LEMMA IdleIsUnasked ==
  ASSUME IInv, NEW o \in Live, client[o].authState # ProcessingCredentials
  PROVE  ~Asked(o)
<1>1. ASSUME Asked(o) PROVE FALSE
  <2>1. PICK q \in Outstanding : q.client = o  BY <1>1, OutstandingClients DEF IInv
  <2>2. AttemptOf(q)
    BY DEF IInv, MessageInv, Outstanding, QueryOK, ReplyOK
  <2>3. QED  BY <2>1, <2>2 DEF AttemptOf
<1>2. QED  BY <1>1

\* OP_LOGIN_Version.
LEMMA OpVersionInv ==
  ASSUME IInv, NEW o \in Live, OpVersion(o)
  PROVE  CoreInv'
<1> DEFINE c == client[o]
           s == IF c.authState < VersionSent THEN VersionSent ELSE c.authState
           d == [c EXCEPT !.authState = s]
<1>1. TypeInv /\ c \in LoginClients /\ o \in Objects  BY LiveClient DEF IInv
<1>2. \E e : Becomes(o, e) /\ SameAttempt(c, e) /\ failures' \in 0 .. MaxFailures
  <2>1. CASE Spend(0) /\ client' = [client EXCEPT ![o].authState = s]
    <3>1. c.authState \in 0 .. 3
      BY <1>1 DEF LoginClients, Initial, Authorized
    <3>2. s \in 0 .. 3 /\ (s = c.authState \/ (c.authState = 0 /\ s = 1))
      BY <3>1 DEF VersionSent
    <3> HIDE DEF s
    <3>3. d \in LoginClients /\ SameAttempt(c, d)
      BY <1>1, <3>2 DEF LoginClients, SameAttempt, Initial, VersionSent, Authorized
    <3>4. client' = [client EXCEPT ![o] = d]  BY <2>1
    <3>5. failures' \in 0 .. MaxFailures  BY <1>1, <2>1, LoginAssumption DEF Spend, TypeInv
    <3>6. QED  BY <3>3, <3>4, <3>5 DEF Becomes
  <2>2. CASE FailAndDrop(o, c)  BY <1>1, <2>2, FailAndDropGives
  <2>3. QED  BY <2>1, <2>2 DEF OpVersion
<1> HIDE DEF c
<1>3. UNCHANGED <<opened, attempts, db, replies>>  BY DEF OpVersion
<1>4. QED  BY <1>2, <1>3, FlagStep DEF c

\* The packets that drop the client.
LEMMA OpRefusedInv ==
  ASSUME IInv, NEW o \in Live, OpRefused(o)
  PROVE  CoreInv'
<1>1. TypeInv /\ client[o] \in LoginClients  BY LiveClient DEF IInv
<1>2. \E d : Becomes(o, d) /\ SameAttempt(client[o], d) /\ failures' \in 0 .. MaxFailures
  BY <1>1, DropGives DEF OpRefused
<1>3. QED  BY <1>2, FlagStep DEF OpRefused

\* OP_LOGIN_Banner, ServerList and ServerStatusRequest.
LEMMA OpServersInv ==
  ASSUME IInv, NEW o \in Live, OpServers(o)
  PROVE  CoreInv'
<1>1. TypeInv /\ client[o] \in LoginClients  BY LiveClient DEF IInv
<1>2. \E d : Becomes(o, d) /\ SameAttempt(client[o], d) /\ failures' \in 0 .. MaxFailures
  BY <1>1, DropGives, SendGives DEF OpServers
<1>3. QED  BY <1>2, FlagStep DEF OpServers

\* OP_LOGIN_SessionKey: what char select is told is the client's own account.
LEMMA OpSessionKeyInv ==
  ASSUME IInv, NEW o \in Live, OpSessionKey(o)
  PROVE  CoreInv' /\ LoginAuthsAreProven'
<1>1. TypeInv /\ client[o] \in LoginClients  BY LiveClient DEF IInv
<1>2. \E d : Becomes(o, d) /\ SameAttempt(client[o], d) /\ failures' \in 0 .. MaxFailures
  BY <1>1, DropGives, SendGives, FailAndDropGives DEF OpSessionKey
<1>3. UNCHANGED <<opened, attempts, db, replies>>  BY DEF OpSessionKey
<1>4. CoreInv'  BY <1>2, <1>3, FlagStep
<1>5. LoginAuthsAreProven'
  <2>1. CASE login' = None  BY <2>1 DEF LoginAuthsAreProven
  <2>2. CASE /\ IsAuthorized(client[o])
             /\ login' = [accountId |-> client[o].accountId, name |-> client[o].accountName,
                          password |-> client[o].typed]
    <3>1. Proves(client[o].accountId, client[o].accountName, client[o].typed)
      BY <2>2 DEF IInv, SessionsAreProven, IsAuthorized
    <3>2. accounts' = accounts  BY <1>3 DEF db
    <3>3. QED  BY <2>2, <3>1, <3>2 DEF LoginAuthsAreProven, Proves
  <2>3. QED  BY <2>1, <2>2 DEF OpSessionKey
<1>6. QED  BY <1>4, <1>5

\* The UDP thread reports that the client is gone.
LEMMA DisconnectInv ==
  ASSUME IInv, NEW o \in Live, Disconnect(o)
  PROVE  CoreInv'
<1>1. UNCHANGED <<opened, attempts, dbQueue, writes, reads, executing, accounts, replies, failures>>
  BY DEF Disconnect, db
<1>2. /\ client' \in [Objects -> LoginClients \cup {None}]
      /\ \A x \in Objects : client'[x] = IF x = o THEN None ELSE client[x]
  BY DEF IInv, TypeInv, Disconnect
<1>3. \A x \in Objects : Kept(x)  BY <1>2 DEF Kept, SameAttempt, Live
<1>4. TypeInv'
  BY <1>1, <1>2 DEF IInv, TypeInv, LoginClients
<1>5. QED  BY <1>1, <1>3, <1>4, FlagsInv DEF CoreInv

\* What the credentials make of a client (login_thread_handle_op_credentials).
LEMMA AttemptClient ==
  ASSUME NEW c \in LoginClients, NEW n \in Names, NEW p \in Passwords
  PROVE  LET a == Attempt(c, n, p) IN
         /\ a \in LoginClients /\ a.session = c.session /\ a.authState = ProcessingCredentials
         /\ a.accountName = n /\ a.typed = p /\ a.passwordTemp = p
<1> DEFINE c1 == [c EXCEPT !.accountName = n]
           c2 == [c1 EXCEPT !.passwordTemp = p]
           c3 == [c2 EXCEPT !.typed = p]
           a == [c3 EXCEPT !.authState = ProcessingCredentials]
<1>1. c1 \in LoginClients /\ c1.session = c.session /\ c1.accountName = n  BY DEF LoginClients
<1> HIDE DEF c1
<1>2. /\ c2 \in LoginClients /\ c2.session = c.session /\ c2.accountName = n
      /\ c2.passwordTemp = p
  BY <1>1 DEF LoginClients
<1> HIDE DEF c2
<1>3. /\ c3 \in LoginClients /\ c3.session = c.session /\ c3.accountName = n
      /\ c3.passwordTemp = p /\ c3.typed = p
  BY <1>2 DEF LoginClients
<1> HIDE DEF c3
<1>4. /\ a \in LoginClients /\ a.session = c.session /\ a.accountName = n
      /\ a.passwordTemp = p /\ a.typed = p /\ a.authState = ProcessingCredentials
  BY <1>3 DEF LoginClients, ProcessingCredentials, Initial, Authorized
<1> HIDE DEF a
<1>5. Attempt(c, n, p) = a  BY DEF Attempt, a, c3, c2, c1
<1>6. QED  BY <1>4, <1>5

\* OP_LOGIN_Credentials: a client that is not busy asks about its account.
LEMMA OpCredentialsInv ==
  ASSUME IInv, NEW o \in Live, NEW n \in Names, NEW p \in Passwords, OpCredentials(o, n, p)
  PROVE  CoreInv'
<1> DEFINE c == client[o]
           a == Attempt(c, n, p)
           q == Query("LoginCredentials", o, a, None)
<1>1. TypeInv /\ c \in LoginClients /\ o \in Objects  BY LiveClient DEF IInv
<1>2. UNCHANGED <<opened, writes, reads, executing, accounts, replies>>  BY DEF OpCredentials
<1>3. CASE Drop(o, c) /\ UNCHANGED <<attempts, dbQueue>>
  <2>1. \E d : Becomes(o, d) /\ SameAttempt(client[o], d) /\ failures' \in 0 .. MaxFailures
    BY <1>1, <1>3, DropGives
  <2>2. QED  BY <1>2, <1>3, <2>1, FlagStep DEF db
<1>4. CASE /\ ~Busy(c) /\ attempts < MaxAttempts /\ attempts' = attempts + 1
           /\ Ask(o, a, q)
  <2>1. /\ a \in LoginClients /\ a.session = c.session /\ a.authState = ProcessingCredentials
        /\ a.accountName = n /\ a.typed = p /\ a.passwordTemp = p
    BY <1>1, AttemptClient
  <2>2. ~Asked(o)  BY <1>4, IdleIsUnasked DEF Busy
  <2>3. Answered(o) /\ Unqueried(o)
    BY <1>2, <2>2 DEF Answered, Unqueried, Asked, IInv, TypeInv, UniqueInv
  <2>4. attempts' \in 0 .. MaxAttempts  BY <1>1, <1>4, LoginAssumption DEF TypeInv
  <2>5. /\ q \in Queries /\ q.client = o /\ q.session = a.session /\ q.name = a.accountName
        /\ q.zop = "LoginCredentials"
    BY <1>1, <2>1 DEF Query, Queries, LoginClients
  <2> HIDE DEF a, q
  <2>6. CASE client' = [client EXCEPT ![o] = a] /\ dbQueue' = Append(dbQueue, q) /\ Spend(0)
    <3>1. UniqueInv' /\ SessionInv' /\ MessageInv' /\ WaitInv' /\ SessionsAreProven'
      BY <1>2, <2>1, <2>3, <2>5, <2>6, AskedInv
    <3>2. dbQueue' \in Seq(Queries)  BY <1>1, <2>5, <2>6, Pushed DEF TypeInv
    <3>3. failures' \in 0 .. MaxFailures  BY <1>1, <2>6, LoginAssumption DEF Spend, TypeInv
    <3>4. (client \in [Objects -> LoginClients \cup {None}])'
      BY <1>1, <1>2, <2>1, <2>6, BecomesType DEF Becomes
    <3>5. TypeInv'  BY <1>1, <1>2, <2>4, <3>2, <3>3, <3>4 DEF TypeInv
    <3>6. QED  BY <3>1, <3>5 DEF CoreInv
  <2>7. CASE FailAndDrop(o, a) /\ UNCHANGED dbQueue
    <3>1. failures' \in 0 .. MaxFailures  BY <1>1, <2>1, <2>7, FailAndDropGives
    <3>2. PICK d : Becomes(o, d) /\ SameAttempt(a, d) /\ d.unlucky
      BY <1>1, <2>1, <2>7, FailAndDropGives
    <3>3. d.session = c.session /\ d.authState # Authorized
      BY <2>1, <3>2 DEF SameAttempt, Initial, VersionSent, ProcessingCredentials, Authorized
    <3>4. UniqueInv' /\ SessionInv' /\ MessageInv' /\ WaitInv' /\ SessionsAreProven'
      BY <1>2, <2>3, <2>7, <3>2, <3>3, SettledInv DEF Becomes
    <3>5. (client \in [Objects -> LoginClients \cup {None}])'
      BY <1>1, <1>2, <3>2, BecomesType
    <3>6. TypeInv'  BY <1>1, <1>2, <2>4, <2>7, <3>1, <3>5 DEF TypeInv
    <3>7. QED  BY <3>4, <3>6 DEF CoreInv
  <2>8. QED  BY <1>4, <2>6, <2>7 DEF Ask
<1>5. QED  BY <1>3, <1>4 DEF OpCredentials

-----------------------------------------------------------------------------
(* The database thread.                                                    *)

\* A step of the database thread: it moves a message, and clients at most learn
\* that a push failed for them.
LEMMA DbStepInv ==
  ASSUME IInv, opened' = opened, \A o \in Objects : Kept(o), AccountsKept,
         \A q \in Outstanding' : \E p \in Outstanding : q.client = p.client /\ q.session = p.session,
         \A o \in Live' : Asked(o) => Asked(o)' \/ client'[o].unlucky
  PROVE  SessionInv' /\ WaitInv' /\ SessionsAreProven'
<1>1. Live' \subseteq Objects  BY DEF Live
<1>2. SessionInv'
  <2>1. \A o \in Live' : o \in Live /\ client'[o].session = client[o].session
    BY <1>1 DEF Kept, SameAttempt
  <2>2. QED  BY <2>1 DEF IInv, SessionInv
<1>3. WaitInv'
  BY <1>1 DEF IInv, WaitInv, Kept, SameAttempt, Initial, VersionSent, ProcessingCredentials
<1>4. SessionsAreProven'
  <2>1. ASSUME NEW o \in Live', client'[o].authState = Authorized
        PROVE  Proves(client[o].accountId, client[o].accountName, client[o].typed)'
    BY <1>1, <2>1, ProvenKept DEF IInv
  <2>2. QED  BY <2>1 DEF SessionsAreProven
<1>5. QED  BY <1>2, <1>3, <1>4

\* A query that is on the database thread is well formed.
LEMMA QueryTypes ==
  ASSUME IInv
  PROVE  /\ \A q \in ToSet(dbQueue) \cup ToSet(writes) \cup ToSet(reads) :
              q \in Queries /\ q.client \in Objects /\ q \in Outstanding
         /\ \A r \in ToSet(replies) : r \in Replies /\ r.client \in Objects /\ r \in Outstanding
<1>1. /\ \A q \in ToSet(dbQueue) : q \in Queries
      /\ \A q \in ToSet(writes) : q \in Queries
      /\ \A q \in ToSet(reads) : q \in Queries
      /\ \A q \in ToSet(replies) : q \in Replies
  BY MembersOf DEF IInv, TypeInv
<1>2. \A q \in Queries : q.client \in Objects  BY DEF Queries
<1>3. \A q \in Replies : q.client \in Objects  BY DEF Replies
<1>4. QED  BY <1>1, <1>2, <1>3 DEF Outstanding

\* The database thread takes a query from its queue.
LEMMA DbPopInv ==
  ASSUME IInv, DbPop
  PROVE  CoreInv'
<1> DEFINE q == Head(dbQueue)
<1>1. /\ dbQueue # <<>> /\ dbQueue' = Tail(dbQueue)
      /\ UNCHANGED <<client, opened, attempts, executing, accounts, replies, failures>>
  BY DEF DbPop
<1>2. /\ dbQueue' \in Seq(Queries) /\ q \in Queries
      /\ ToSet(dbQueue) = ToSet(dbQueue') \cup {q}
      /\ OnePerClient(dbQueue') /\ ClientsIn(dbQueue') = ClientsIn(dbQueue) \ {q.client}
      /\ q.client \in ClientsIn(dbQueue)
  BY <1>1, Popped DEF IInv, TypeInv, UniqueInv
<1>3. QueryOK(q) /\ (q.zop = "LoginNewAccount" \/ q.zop = "LoginCredentials")
  BY <1>2 DEF IInv, MessageInv, Queries
<1>4. \/ /\ writes' \in Seq(Queries) /\ ToSet(writes') = ToSet(writes) \cup {q}
         /\ ClientsIn(writes') = ClientsIn(writes) \cup {q.client} /\ OnePerClient(writes')
         /\ q.zop = "LoginNewAccount" /\ reads' = reads
      \/ /\ reads' \in Seq(Queries) /\ ToSet(reads') = ToSet(reads) \cup {q}
         /\ ClientsIn(reads') = ClientsIn(reads) \cup {q.client} /\ OnePerClient(reads')
         /\ q.zop = "LoginCredentials" /\ writes' = writes
  <2>1. q.client \notin ClientsIn(writes) /\ q.client \notin ClientsIn(reads)
    BY <1>2 DEF IInv, UniqueInv
  <2>2. CASE q.zop = "LoginNewAccount"
    <3>1. writes' = Append(writes, q) /\ reads' = reads  BY <2>2 DEF DbPop
    <3>2. QED  BY <1>2, <2>1, <2>2, <3>1, Pushed DEF IInv, TypeInv, UniqueInv
  <2>3. CASE q.zop # "LoginNewAccount"
    <3>1. reads' = Append(reads, q) /\ writes' = writes  BY <2>3 DEF DbPop
    <3>2. QED  BY <1>2, <1>3, <2>1, <2>3, <3>1, Pushed DEF IInv, TypeInv, UniqueInv
  <2>4. QED  BY <2>2, <2>3
<1> HIDE DEF q
<1>5. TypeInv'
  BY <1>1, <1>2, <1>4 DEF IInv, TypeInv, LoginClients
<1>6. UniqueInv'
  BY <1>1, <1>2, <1>4 DEF IInv, UniqueInv
<1>7. Outstanding' = Outstanding /\ \A o : Asked(o)' <=> Asked(o)
  BY <1>1, <1>2, <1>4 DEF Outstanding, Asked
<1>8. AccountsKept /\ Live' = Live /\ (\A o : Kept(o))
  BY <1>1 DEF AccountsKept, Kept, SameAttempt, Live
<1>9. SessionInv' /\ WaitInv' /\ SessionsAreProven'
  BY <1>1, <1>7, <1>8, DbStepInv
<1>10. MessageInv'
  <2>1. \A m : (QueryOK(m) => QueryOK(m)') /\ (ReplyOK(m) => ReplyOK(m)')
    BY <1>8, MessageKept
  <2>2. QED  BY <1>1, <1>2, <1>3, <1>4, <2>1 DEF IInv, MessageInv
<1>11. QED  BY <1>5, <1>6, <1>9, <1>10 DEF CoreInv

\* The database thread begins or ends a batch.
LEMMA DbBatchInv ==
  ASSUME IInv, DbDrained \/ DbBatchDone
  PROVE  CoreInv'
<1>1. /\ UNCHANGED <<client, opened, attempts, dbQueue, writes, reads, accounts, replies, failures>>
      /\ executing' \in BOOLEAN
  BY DEF DbDrained, DbBatchDone
<1>2. TypeInv'  BY <1>1 DEF IInv, TypeInv, LoginClients
<1>3. \A o \in Objects : Kept(o)  BY <1>1 DEF Kept, SameAttempt, Live
<1>4. QED  BY <1>1, <1>2, <1>3, FlagsInv DEF CoreInv

\* Query q is done with: it has left the writes or the reads.
Taken(q) ==
  /\ q \in ToSet(writes) \cup ToSet(reads)
  /\ writes' \in Seq(Queries) /\ reads' \in Seq(Queries)
  /\ ToSet(writes') \subseteq ToSet(writes) /\ ToSet(reads') \subseteq ToSet(reads)
  /\ OnePerClient(writes') /\ OnePerClient(reads')
  /\ ClientsIn(writes') = ClientsIn(writes) \ {q.client}
  /\ ClientsIn(reads') = ClientsIn(reads) \ {q.client}
  /\ q.client \notin ClientsIn(dbQueue) /\ q.client \notin ClientsIn(replies)

\* The rows stay, and the clients hold rows as before.
LEMMA MoreAccounts ==
  ASSUME TypeInv, client' \in [Objects -> LoginClients \cup {None}],
         Len(accounts) \in Nat, Len(accounts') \in Nat, Len(accounts) <= Len(accounts')
  PROVE  (client \in [Objects -> LoginClients \cup {None}])'
<1>1. LoginClients \subseteq LoginClients'
  <2>1. 0 .. Len(accounts) \subseteq 0 .. Len(accounts')  OBVIOUS
  <2>2. QED  BY <2>1 DEF LoginClients
<1>2. QED  BY <1>1

\* The answer to q is pushed to the login thread.
LEMMA ReplyPushedInv ==
  ASSUME IInv, NEW q, Taken(q), NEW r \in Replies, r.client = q.client, r.session = q.session,
         replies' = Append(replies, r), ReplyOK(r)', AccountsKept,
         UNCHANGED <<client, dbQueue, opened>>
  PROVE  /\ UniqueInv' /\ SessionInv' /\ MessageInv' /\ WaitInv' /\ SessionsAreProven'
         /\ replies' \in Seq(Replies)
<1>1. /\ replies' \in Seq(Replies) /\ ToSet(replies') = ToSet(replies) \cup {r}
      /\ ClientsIn(replies') = ClientsIn(replies) \cup {q.client} /\ OnePerClient(replies')
  BY Pushed DEF IInv, TypeInv, UniqueInv, Taken
<1>2. UniqueInv'
  BY <1>1 DEF IInv, UniqueInv, Taken
<1>3. \A o : Kept(o)  BY DEF Kept, SameAttempt, Live
<1>4. \A m \in Outstanding' : \E p \in Outstanding : m.client = p.client /\ m.session = p.session
  BY <1>1 DEF Outstanding, Taken
<1>5. \A o : Asked(o) => Asked(o)'  BY <1>1 DEF Asked, Taken
<1>6. SessionInv' /\ WaitInv' /\ SessionsAreProven'  BY <1>3, <1>4, <1>5, DbStepInv
<1>7. MessageInv'
  <2>1. \A m : (QueryOK(m) => QueryOK(m)') /\ (ReplyOK(m) => ReplyOK(m)')
    BY <1>3, MessageKept
  <2>2. QED  BY <1>1, <2>1 DEF IInv, MessageInv, Taken
<1>8. QED  BY <1>1, <1>2, <1>6, <1>7

\* What becomes of a client whose answer did not fit the login queue.
LEMMA UnluckyClients ==
  ASSUME TypeInv, NEW q
  PROVE  /\ Unlucky(q) \in [Objects -> LoginClients \cup {None}]
         /\ \A o \in Live : o # q.client => Unlucky(q)[o] = client[o]
         /\ \A o \in Live : SameAttempt(client[o], Unlucky(q)[o])
         /\ \A o \in Live : o = q.client => Unlucky(q)[o].unlucky
         /\ \A o \in Objects : o \notin Live => Unlucky(q)[o] = client[o]
<1>1. \A o \in Live : o \in Objects /\ client[o] \in LoginClients  BY LiveClient
<1>2. \A o \in Live : /\ [client[o] EXCEPT !.unlucky = TRUE] \in LoginClients
                      /\ SameAttempt(client[o], [client[o] EXCEPT !.unlucky = TRUE])
                      /\ [client[o] EXCEPT !.unlucky = TRUE].unlucky
  BY <1>1, DroppedClient
<1>3. \A o : SameAttempt(client[o], client[o])  BY DEF SameAttempt
<1>4. \A o \in Objects : Unlucky(q)[o] = IF o = q.client /\ o \in Live
                                         THEN [client[o] EXCEPT !.unlucky = TRUE] ELSE client[o]
  BY DEF Unlucky
<1>5. Unlucky(q) \in [Objects -> LoginClients \cup {None}]
  <2>1. \A o \in Objects : Unlucky(q)[o] \in LoginClients \cup {None}
    BY <1>2, <1>4 DEF TypeInv
  <2>2. QED  BY <2>1 DEF Unlucky
<1>6. QED  BY <1>1, <1>2, <1>3, <1>4, <1>5

\* The answer to q does not fit the login queue.
LEMMA ReplyLostInv ==
  ASSUME IInv, NEW q, Taken(q), client' = Unlucky(q), AccountsKept,
         UNCHANGED <<replies, dbQueue, opened>>
  PROVE  UniqueInv' /\ SessionInv' /\ MessageInv' /\ WaitInv' /\ SessionsAreProven'
<1>1. UniqueInv'
  BY DEF IInv, UniqueInv, Taken
<1>2. \A o \in Objects : Kept(o) /\ (o \in Live' /\ o = q.client => client'[o].unlucky)
  BY UnluckyClients DEF IInv, Kept, Live
<1>3. \A m \in Outstanding' : m \in Outstanding  BY DEF Outstanding, Taken
<1>4. \A o : o # q.client => (Asked(o) => Asked(o)')  BY DEF Asked, Taken
<1>5. Live' \subseteq Objects  BY DEF Live
<1>6. SessionInv' /\ WaitInv' /\ SessionsAreProven'
  <2>1. \A o \in Live' : Asked(o) => Asked(o)' \/ client'[o].unlucky  BY <1>2, <1>4, <1>5
  <2>2. \A m \in Outstanding' : \E p \in Outstanding : m.client = p.client /\ m.session = p.session
    BY <1>3
  <2>3. \A o \in Objects : Kept(o)  BY <1>2
  <2>4. QED  BY <2>1, <2>2, <2>3, DbStepInv
<1>7. MessageInv'
  <2>1. \A m \in Outstanding : (QueryOK(m) => QueryOK(m)') /\ (ReplyOK(m) => ReplyOK(m)')
    BY <1>2, OutstandingClients, MessageKept DEF IInv
  <2>2. QED  BY <2>1 DEF IInv, MessageInv, Taken, Outstanding
<1>8. QED  BY <1>1, <1>6, <1>7

\* What db_reply does once q is done with.
LEMMA DbReplyInv ==
  ASSUME IInv, NEW q, Taken(q), NEW r \in Replies, r.client = q.client, r.session = q.session,
         DbReply(q, r) \/ (replies' = Append(replies, r) /\ UNCHANGED client /\ Spend(1)),
         AccountsKept, (accounts \in Seq([name : Names, password : Passwords]))',
         Len(accounts) <= Len(accounts'), Len(accounts) \in Nat, Len(accounts') \in Nat,
         client' = client => ReplyOK(r)',
         UNCHANGED <<opened, attempts, dbQueue, executing>>
  PROVE  CoreInv'
<1>1. failures' \in 0 .. MaxFailures
  BY LoginAssumption DEF IInv, TypeInv, DbReply, Spend
<1>2. CASE replies' = Append(replies, r) /\ UNCHANGED client
  <2>1. /\ UniqueInv' /\ SessionInv' /\ MessageInv' /\ WaitInv' /\ SessionsAreProven'
        /\ replies' \in Seq(Replies)
    BY <1>2, ReplyPushedInv
  <2>2. client' \in [Objects -> LoginClients \cup {None}]  BY <1>2 DEF IInv, TypeInv
  <2>3. (client \in [Objects -> LoginClients \cup {None}])'  BY <2>2, MoreAccounts DEF IInv
  <2>4. TypeInv'  BY <1>1, <2>1, <2>3 DEF IInv, TypeInv, Taken
  <2>5. QED  BY <2>1, <2>4 DEF CoreInv
<1>3. CASE replies' = replies /\ client' = Unlucky(q)
  <2>1. UniqueInv' /\ SessionInv' /\ MessageInv' /\ WaitInv' /\ SessionsAreProven'
    BY <1>3, ReplyLostInv
  <2>2. client' \in [Objects -> LoginClients \cup {None}]  BY <1>3, UnluckyClients DEF IInv
  <2>3. (client \in [Objects -> LoginClients \cup {None}])'  BY <2>2, MoreAccounts DEF IInv
  <2>4. TypeInv'  BY <1>1, <1>3, <2>3 DEF IInv, TypeInv, Taken
  <2>5. QED  BY <2>1, <2>4 DEF CoreInv
<1>4. QED  BY <1>2, <1>3 DEF DbReply

\* An answer of the database thread is well formed, and is about the attempt
\* its query was about.
LEMMA ResultOK ==
  ASSUME IInv, NEW q \in Queries, QueryOK(q), NEW e \in BOOLEAN, NEW id \in Nat,
         NEW r, r = Result(q, e, id)
  PROVE  /\ r \in Replies /\ r.client = q.client /\ r.session = q.session
         /\ r.hadError = e /\ r.acctId = id /\ r.zop = q.zop
         /\ id \in DOMAIN accounts => r.password = accounts[id].password
         /\ client' = client => AttemptOf(r)'
<1>1. PICK w : w = IF id \in DOMAIN accounts THEN accounts[id].password ELSE None  OBVIOUS
<1>2. w \in Passwords \cup {None} /\ (id \in DOMAIN accounts => w = accounts[id].password)
  <2>1. \A i \in DOMAIN accounts : accounts[i] \in [name : Names, password : Passwords]
    BY ElementOfSeq, LenProperties DEF IInv, TypeInv
  <2>2. QED  BY <1>1, <2>1
<1>3. r = [zop |-> q.zop, client |-> q.client, session |-> q.session, hadError |-> e,
           acctId |-> id, password |-> w]
  BY <1>1 DEF Result
<1>4. r \in Replies  BY <1>2, <1>3 DEF Queries, Replies
<1>5. r.client = q.client /\ r.session = q.session /\ r.hadError = e /\ r.acctId = id
      /\ r.zop = q.zop /\ r.password = w
  BY <1>3
<1>6. AttemptOf(r)  BY <1>5 DEF QueryOK, AttemptOf
<1>7. client' = client => AttemptOf(r)'  BY <1>6 DEF AttemptOf, Live
<1>8. QED  BY <1>2, <1>4, <1>5, <1>7

\* dbw_login_new_account: the row the answer names is the one it has written.
LEMMA DbWriteInv ==
  ASSUME IInv, DbWrite
  PROVE  CoreInv'
<1>1. /\ writes # <<>> /\ writes' = Tail(writes)
      /\ UNCHANGED <<opened, attempts, dbQueue, reads, executing>>
  BY DEF DbWrite
<1>2. PICK q : q = Head(writes)  OBVIOUS
<1>3. /\ q \in Queries /\ Taken(q)
      /\ QueryOK(q) /\ q.zop = "LoginNewAccount"
  <2>1. /\ writes' \in Seq(Queries) /\ q \in Queries
        /\ ToSet(writes) = ToSet(writes') \cup {q}
        /\ OnePerClient(writes') /\ ClientsIn(writes') = ClientsIn(writes) \ {q.client}
        /\ q.client \in ClientsIn(writes)
    BY <1>1, <1>2, Popped DEF IInv, TypeInv, UniqueInv
  <2>2. Taken(q)
    <3>1. q \in ToSet(writes) /\ ToSet(writes') \subseteq ToSet(writes)  BY <2>1
    <3>2. q.client \notin ClientsIn(dbQueue) /\ q.client \notin ClientsIn(reads)
          /\ q.client \notin ClientsIn(replies)
      BY <2>1 DEF IInv, UniqueInv
    <3>3. reads' \in Seq(Queries) /\ ToSet(reads') \subseteq ToSet(reads)
          /\ OnePerClient(reads') /\ ClientsIn(reads') = ClientsIn(reads) \ {q.client}
      BY <1>1, <3>2 DEF IInv, TypeInv, UniqueInv
    <3>4. QED  BY <2>1, <3>1, <3>2, <3>3 DEF Taken
  <2>3. QED  BY <2>1, <2>2 DEF IInv, MessageInv
<1>4. /\ Len(accounts) \in Nat /\ DOMAIN accounts = 1 .. Len(accounts)
      /\ accounts \in Seq([name : Names, password : Passwords])
  BY LenProperties DEF IInv, TypeInv
<1>5. PICK id \in Nat : id = RowId /\ id = Len(accounts) + 1  BY <1>4 DEF RowId
<1>6. PICK row, no, yes : /\ row = [name |-> q.name, password |-> q.password]
                          /\ no = FALSE /\ yes = TRUE /\ {no, yes} \subseteq BOOLEAN
  OBVIOUS
<1>7. CASE accounts' = Append(accounts, row) /\ DbReply(q, Result(q, FALSE, id))
  <2>1. row \in [name : Names, password : Passwords]  BY <1>3, <1>6 DEF QueryOK
  <2>2. /\ accounts' \in Seq([name : Names, password : Passwords])
        /\ Len(accounts') = Len(accounts) + 1 /\ AccountsKept
        /\ id \in DOMAIN accounts' /\ accounts'[id] = row
    BY <1>4, <1>5, <1>7, <2>1, AppendProperties, LenProperties DEF AccountsKept
  <2>3. PICK r : r = Result(q, no, id)  OBVIOUS
  <2>4. r \in Replies /\ r.client = q.client /\ r.session = q.session /\ r.acctId = id
        /\ r.zop = q.zop
    BY <1>3, <1>6, <2>3, ResultOK
  <2>5. ASSUME client' = client PROVE ReplyOK(r)'
    <3>1. AttemptOf(r)'  BY <1>3, <1>6, <2>3, <2>5, ResultOK
    <3>2. ASSUME q.client \in Live
          PROVE  Proves(id, client[q.client].accountName, client[q.client].typed)'
      BY <1>3, <1>6, <2>2, <2>5, <3>2 DEF QueryOK, Proves
    <3>3. QED  BY <1>3, <2>4, <2>5, <3>1, <3>2 DEF ReplyOK, Live
  <2>6. DbReply(q, r)  BY <1>6, <1>7, <2>3
  <2>7. Len(accounts) <= Len(accounts') /\ Len(accounts') \in Nat  BY <1>4, <2>2
  <2>8. QED  BY <1>1, <1>3, <1>4, <2>2, <2>4, <2>5, <2>6, <2>7, DbReplyInv
<1>8. CASE /\ UNCHANGED <<accounts, client>> /\ Spend(1)
           /\ replies' = Append(replies, Result(q, TRUE, 0))
  <2>1. PICK r : r = Result(q, yes, 0)  OBVIOUS
  <2>2. r \in Replies /\ r.client = q.client /\ r.session = q.session /\ r.hadError = yes
        /\ AttemptOf(r)'
    <3>1. client' = client /\ yes \in BOOLEAN /\ 0 \in Nat  BY <1>6, <1>8
    <3>2. QED  BY <1>3, <2>1, <3>1, ResultOK
  <2>3. ReplyOK(r)'  BY <1>6, <2>2 DEF ReplyOK
  <2>4. AccountsKept  BY <1>8 DEF AccountsKept
  <2>5. replies' = Append(replies, r) /\ UNCHANGED client /\ Spend(1)  BY <1>6, <1>8, <2>1
  <2>6. /\ (accounts \in Seq([name : Names, password : Passwords]))'
        /\ Len(accounts) <= Len(accounts') /\ Len(accounts') \in Nat
    BY <1>4, <1>8
  <2>7. QED  BY <1>1, <1>3, <1>4, <2>2, <2>3, <2>4, <2>5, <2>6, DbReplyInv, Zenon
<1>9. QED  BY <1>2, <1>5, <1>6, <1>7, <1>8 DEF DbWrite

\* A set of natural numbers has a least element, which Min chooses.
LEMMA LeastElement ==
  ASSUME NEW T, T \subseteq Nat, T # {}
  PROVE  Min(T) \in T
<1>1. PICK R : R = OpToRel(<, Nat)  OBVIOUS
<1>2. IsWellFoundedOn(R, Nat)  BY <1>1, NatLessThanWellFounded
<1>3. PICK x \in T : \A y \in T : ~(<<y, x>> \in R)  BY <1>2, WFMin
<1>4. \A a, b \in Nat : a < b => <<a, b>> \in R  BY <1>1 DEF OpToRel
<1>5. \A y \in T : ~(y < x)
  <2>1. x \in Nat /\ \A y \in T : y \in Nat  OBVIOUS
  <2>2. QED  BY <1>3, <1>4, <2>1, Zenon
<1>6. \A y \in T : x <= y  BY <1>5
<1>7. QED  BY <1>6 DEF Min

\* dbr_login_credentials finds a row with the name it was asked for, or none.
LEMMA LookupFinds ==
  ASSUME TypeInv, NEW n
  PROVE  /\ Lookup(n) \in Nat
         /\ Lookup(n) # 0 => Lookup(n) \in DOMAIN accounts /\ accounts[Lookup(n)].name = n
<1> DEFINE ids == {i \in DOMAIN accounts : accounts[i].name = n}
<1>1. ids \subseteq Nat /\ \A i \in ids : i \in DOMAIN accounts /\ accounts[i].name = n
  BY LenProperties DEF TypeInv
<1>2. Lookup(n) = IF ids = {} THEN 0 ELSE Min(ids)  BY DEF Lookup
<1> HIDE DEF ids
<1>3. ids # {} => Min(ids) \in ids  BY <1>1, LeastElement
<1>4. CASE ids = {}  BY <1>2, <1>4
<1>5. CASE ids # {}
  <2>1. Lookup(n) = Min(ids) /\ Min(ids) \in ids  BY <1>2, <1>3, <1>5
  <2>2. QED  BY <1>1, <2>1
<1>6. QED  BY <1>4, <1>5

\* dbr_login_credentials: the row the answer names has the name the client sent.
LEMMA DbReadInv ==
  ASSUME IInv, DbRead
  PROVE  CoreInv'
<1>1. /\ reads # <<>> /\ reads' = Tail(reads)
      /\ UNCHANGED <<opened, attempts, dbQueue, writes, executing, accounts>>
  BY DEF DbRead
<1>2. PICK q : q = Head(reads)  OBVIOUS
<1>3. /\ q \in Queries /\ Taken(q)
      /\ QueryOK(q) /\ q.zop = "LoginCredentials"
  <2>1. /\ reads' \in Seq(Queries) /\ q \in Queries
        /\ ToSet(reads) = ToSet(reads') \cup {q}
        /\ OnePerClient(reads') /\ ClientsIn(reads') = ClientsIn(reads) \ {q.client}
        /\ q.client \in ClientsIn(reads)
    BY <1>1, <1>2, Popped DEF IInv, TypeInv, UniqueInv
  <2>2. Taken(q)
    <3>1. q \in ToSet(reads) /\ ToSet(reads') \subseteq ToSet(reads)  BY <2>1
    <3>2. q.client \notin ClientsIn(dbQueue) /\ q.client \notin ClientsIn(writes)
          /\ q.client \notin ClientsIn(replies)
      BY <2>1 DEF IInv, UniqueInv
    <3>3. writes' \in Seq(Queries) /\ ToSet(writes') \subseteq ToSet(writes)
          /\ OnePerClient(writes') /\ ClientsIn(writes') = ClientsIn(writes) \ {q.client}
      BY <1>1, <3>2 DEF IInv, TypeInv, UniqueInv
    <3>4. QED  BY <2>1, <3>1, <3>2, <3>3 DEF Taken
  <2>3. QED  BY <2>1, <2>2 DEF IInv, MessageInv
<1>4. /\ Len(accounts) \in Nat /\ DOMAIN accounts = 1 .. Len(accounts)
      /\ accounts \in Seq([name : Names, password : Passwords])
      /\ \A i \in DOMAIN accounts : accounts[i] \in [name : Names, password : Passwords]
  BY LenProperties, ElementOfSeq DEF IInv, TypeInv
<1>5. AccountsKept  BY <1>1 DEF AccountsKept
<1>6. PICK id, no, yes : /\ id \in Nat /\ id = Lookup(q.name)
                         /\ no = FALSE /\ yes = TRUE /\ {no, yes} \subseteq BOOLEAN
  BY LookupFinds DEF IInv
<1>7. id # 0 => id \in DOMAIN accounts /\ accounts[id].name = q.name
  BY <1>6, LookupFinds DEF IInv
<1>8. /\ (accounts \in Seq([name : Names, password : Passwords]))'
       /\ Len(accounts) <= Len(accounts') /\ Len(accounts') \in Nat
  BY <1>1, <1>4
<1>9. CASE DbReply(q, Result(q, FALSE, id))
  <2>1. PICK r : r = Result(q, no, id)  OBVIOUS
  <2>2. /\ r \in Replies /\ r.client = q.client /\ r.session = q.session /\ r.acctId = id
        /\ r.zop = q.zop /\ (id \in DOMAIN accounts => r.password = accounts[id].password)
    BY <1>3, <1>6, <2>1, ResultOK
  <2>3. id # 0 => accounts[id] = [name |-> q.name, password |-> r.password]
    BY <1>4, <1>7, <2>2
  <2>4. ASSUME client' = client PROVE ReplyOK(r)'
    <3>1. AttemptOf(r)'  BY <1>3, <1>6, <2>1, <2>4, ResultOK
    <3>2. ASSUME q.client \in Live, id # 0
          PROVE  (Proves(id, client[q.client].accountName, r.password))'
      BY <1>1, <1>3, <1>7, <2>3, <2>4, <3>2 DEF QueryOK, Proves
    <3>3. QED  BY <1>3, <2>2, <2>4, <3>1, <3>2 DEF ReplyOK, Live
  <2>5. DbReply(q, r)  BY <1>6, <1>9, <2>1
  <2>6. QED  BY <1>1, <1>3, <1>4, <1>5, <1>8, <2>2, <2>4, <2>5, DbReplyInv, Zenon
<1>10. CASE /\ UNCHANGED client /\ Spend(1)
           /\ replies' = Append(replies, Result(q, TRUE, 0))
  <2>1. PICK r : r = Result(q, yes, 0)  OBVIOUS
  <2>2. r \in Replies /\ r.client = q.client /\ r.session = q.session /\ r.hadError = yes
        /\ AttemptOf(r)'
    <3>1. client' = client /\ yes \in BOOLEAN /\ 0 \in Nat  BY <1>6, <1>10
    <3>2. QED  BY <1>3, <2>1, <3>1, ResultOK
  <2>3. ReplyOK(r)'  BY <1>6, <2>2 DEF ReplyOK
  <2>4. replies' = Append(replies, r) /\ UNCHANGED client /\ Spend(1)  BY <1>6, <1>10, <2>1
  <2>5. QED  BY <1>1, <1>3, <1>4, <1>5, <1>8, <2>2, <2>3, <2>4, DbReplyInv, Zenon
<1>11. QED  BY <1>2, <1>6, <1>9, <1>10 DEF DbRead

-----------------------------------------------------------------------------
(* The login thread handles an answer.                                     *)

\* The answer leaves the login queue and nothing else is on its way about its
\* client.
LEMMA ReplyTaken ==
  ASSUME IInv, HandleReply, NEW r, r = Head(replies)
  PROVE  /\ r \in Replies /\ r \in ToSet(replies) /\ ReplyOK(r)
         /\ Answered(r.client) /\ Unqueried(r.client)
         /\ UNCHANGED <<opened, attempts, writes, reads, executing, accounts>>
<1>1. replies # <<>> /\ replies' = Tail(replies)
      /\ UNCHANGED <<opened, attempts, writes, reads, executing, accounts>>
  BY DEF HandleReply
<1>2. /\ replies' \in Seq(Replies) /\ r \in Replies
      /\ ToSet(replies) = ToSet(replies') \cup {r}
      /\ OnePerClient(replies') /\ ClientsIn(replies') = ClientsIn(replies) \ {r.client}
      /\ r.client \in ClientsIn(replies)
  BY <1>1, Popped DEF IInv, TypeInv, UniqueInv
<1>3. Unqueried(r.client)  BY <1>2 DEF IInv, UniqueInv, Unqueried
<1>4. QED  BY <1>1, <1>2, <1>3 DEF Answered, IInv, MessageInv

\* The client that asked is gone.
LEMMA ReplyUnclaimedInv ==
  ASSUME IInv, HandleReply, NEW r, r = Head(replies), ReplyUnclaimed(r)
  PROVE  CoreInv'
<1>1. /\ r \in Replies /\ Answered(r.client) /\ Unqueried(r.client) /\ r.client \notin Live
      /\ UNCHANGED <<client, dbQueue, failures, opened, attempts, writes, reads, executing, accounts>>
  BY ReplyTaken DEF ReplyUnclaimed
<1>2. TypeInv'  BY <1>1 DEF IInv, TypeInv, LoginClients, Answered
<1>3. UniqueInv'  BY <1>1 DEF IInv, UniqueInv, Answered
<1>4. Live' = Live /\ (\A o : Kept(o)) /\ AccountsKept
  BY <1>1 DEF Live, Kept, SameAttempt, AccountsKept
<1>5. \A m \in Outstanding' : m \in Outstanding  BY <1>1 DEF Outstanding, Answered
<1>6. \A o \in Live' : Asked(o) => Asked(o)'  BY <1>1, <1>4 DEF Asked, Answered
<1>7. SessionInv' /\ WaitInv' /\ SessionsAreProven'
  BY <1>1, <1>4, <1>5, <1>6, DbStepInv
<1>8. MessageInv'
  <2>1. \A m : (QueryOK(m) => QueryOK(m)') /\ (ReplyOK(m) => ReplyOK(m)')
    BY <1>4, MessageKept
  <2>2. QED  BY <1>1, <2>1 DEF IInv, MessageInv, Answered
<1>9. QED  BY <1>2, <1>3, <1>7, <1>8 DEF CoreInv

\* The client's attempt ends: it is authorized by right, or dropped.
LEMMA AttemptSettled ==
  ASSUME IInv, HandleReply, NEW r, r = Head(replies), r.client \in Live, dbQueue' = dbQueue,
         NEW d, Becomes(r.client, d), failures' \in 0 .. MaxFailures,
         d.session = client[r.client].session,
         d.authState = ProcessingCredentials => d.dropped \/ d.unlucky,
         d.authState = Authorized => Proves(d.accountId, d.accountName, d.typed)
  PROVE  CoreInv'
<1>1. /\ Answered(r.client) /\ Unqueried(r.client)
      /\ UNCHANGED <<opened, attempts, writes, reads, executing, accounts>>
  BY ReplyTaken
<1>2. UniqueInv' /\ SessionInv' /\ MessageInv' /\ WaitInv' /\ SessionsAreProven'
  BY <1>1, SettledInv DEF Becomes
<1>3. (client \in [Objects -> LoginClients \cup {None}])'  BY <1>1, BecomesType DEF IInv
<1>4. TypeInv'  BY <1>1, <1>3 DEF IInv, TypeInv, Answered
<1>5. QED  BY <1>2, <1>4 DEF CoreInv

\* drop_client of both handlers.
LEMMA DroppedAfterErrorInv ==
  ASSUME IInv, HandleReply, NEW r, r = Head(replies), r.client \in Live, dbQueue' = dbQueue,
         DroppedAfterError(r.client, client[r.client])
  PROVE  CoreInv'
<1>1. TypeInv /\ client[r.client] \in LoginClients  BY LiveClient DEF IInv
<1>2. client[r.client].authState = ProcessingCredentials
  BY ReplyTaken DEF ReplyOK, AttemptOf
<1>3. failures' \in 0 .. MaxFailures  BY <1>1, DropGives DEF DroppedAfterError
<1>4. PICK d : Becomes(r.client, d) /\ SameAttempt(client[r.client], d) /\ (d.dropped \/ d.unlucky)
  BY <1>1, DropGives DEF DroppedAfterError
<1>5. d.session = client[r.client].session /\ d.authState # Authorized
  BY <1>2, <1>4 DEF SameAttempt, Initial, VersionSent, ProcessingCredentials, Authorized
<1>6. QED  BY <1>3, <1>4, <1>5, AttemptSettled

\* The last assignment of loginc_send_session_packet.
LEMMA AuthorizedClient ==
  ASSUME NEW b \in LoginClients, NEW e, e = [b EXCEPT !.authState = Authorized]
  PROVE  /\ e \in LoginClients
         /\ e.session = b.session /\ e.accountId = b.accountId /\ e.accountName = b.accountName
         /\ e.typed = b.typed /\ e.authState = Authorized
<1>1. Authorized \in Initial .. Authorized  BY DEF Initial, Authorized
<1>2. QED  BY <1>1 DEF LoginClients

\* loginc_send_session_packet: the client gets the account it has proved.
LEMMA SessionInvOf ==
  ASSUME IInv, HandleReply, NEW r, r = Head(replies), r.client \in Live, dbQueue' = dbQueue,
         NEW c \in LoginClients, c.session = client[r.client].session,
         Proves(r.acctId, c.accountName, c.typed), Send(r.client, SessionOf(c, r.acctId))
  PROVE  CoreInv'
<1>1. PICK e : e = SessionOf(c, r.acctId)  OBVIOUS
<1>2. r.acctId \in 0 .. Len(accounts)
  BY LenProperties DEF Proves, IInv, TypeInv
<1>3. /\ e \in LoginClients /\ e.session = c.session /\ e.accountId = r.acctId
      /\ e.accountName = c.accountName /\ e.typed = c.typed /\ e.authState = Authorized
  <2>1. PICK b : b = [c EXCEPT !.accountId = r.acctId]  OBVIOUS
  <2>2. /\ b \in LoginClients /\ b.session = c.session /\ b.accountId = r.acctId
        /\ b.accountName = c.accountName /\ b.typed = c.typed
    BY <1>2, <2>1 DEF LoginClients
  <2>3. e = [b EXCEPT !.authState = Authorized]  BY <1>1, <2>1 DEF SessionOf
  <2>4. QED  BY <2>2, <2>3, AuthorizedClient
<1>4. TypeInv /\ Send(r.client, e)  BY <1>1 DEF IInv
<1>5. failures' \in 0 .. MaxFailures  BY <1>3, <1>4, SendGives
<1>6. PICK d : Becomes(r.client, d) /\ SameAttempt(e, d)  BY <1>3, <1>4, SendGives
<1>7. /\ d.session = client[r.client].session /\ d.authState # ProcessingCredentials
      /\ Proves(d.accountId, d.accountName, d.typed)
  BY <1>3, <1>6 DEF SameAttempt, Initial, VersionSent, ProcessingCredentials, Authorized
<1>8. QED  BY <1>5, <1>6, <1>7, AttemptSettled

\* The account is unknown: the client's attempt goes on with a new account.
LEMMA ReplyUnknownInv ==
  ASSUME IInv, HandleReply, NEW r, r = Head(replies), ReplyUnknown(r)
  PROVE  CoreInv'
<1>1. PICK o, c, e, q : /\ o = r.client /\ c = client[o] /\ e = Cleared(c)
                        /\ q = Query("LoginNewAccount", o, c, c.passwordTemp)
  OBVIOUS
<1>2. o \in Live /\ r.zop = "LoginCredentials" /\ Ask(o, e, q)
  BY <1>1 DEF ReplyUnknown
<1>3. /\ ReplyOK(r) /\ Answered(o) /\ Unqueried(o)
      /\ UNCHANGED <<opened, attempts, writes, reads, executing, accounts>>
  BY <1>1, ReplyTaken
<1>4. TypeInv /\ c \in LoginClients /\ o \in Objects  BY <1>1, <1>2, LiveClient DEF IInv
<1>5. /\ c.authState = ProcessingCredentials /\ c.accountName \in Names
      /\ c.typed \in Passwords /\ c.passwordTemp = c.typed
  BY <1>1, <1>2, <1>3 DEF ReplyOK, AttemptOf
<1>6. /\ e \in LoginClients /\ e.session = c.session /\ e.authState = ProcessingCredentials
      /\ e.accountName = c.accountName /\ e.typed = c.typed
  BY <1>1, <1>4, <1>5 DEF Cleared, LoginClients
<1>7. /\ q \in Queries /\ q.client = o /\ q.session = e.session /\ q.name = e.accountName
      /\ q.zop = "LoginNewAccount" /\ q.password = e.typed
  BY <1>1, <1>4, <1>5, <1>6 DEF Query, Queries, LoginClients
<1>8. CASE client' = [client EXCEPT ![o] = e] /\ dbQueue' = Append(dbQueue, q) /\ Spend(0)
  <2>1. UniqueInv' /\ SessionInv' /\ MessageInv' /\ WaitInv' /\ SessionsAreProven'
    BY <1>1, <1>2, <1>3, <1>5, <1>6, <1>7, <1>8, AskedInv
  <2>2. dbQueue' \in Seq(Queries)  BY <1>4, <1>7, <1>8, Pushed DEF TypeInv
  <2>3. failures' \in 0 .. MaxFailures  BY <1>4, <1>8, LoginAssumption DEF Spend, TypeInv
  <2>4. (client \in [Objects -> LoginClients \cup {None}])'
    BY <1>2, <1>3, <1>4, <1>6, <1>8, BecomesType DEF Becomes
  <2>5. TypeInv'  BY <1>3, <1>4, <2>2, <2>3, <2>4 DEF TypeInv, Answered
  <2>6. QED  BY <2>1, <2>5, SMTT(30) DEF CoreInv
<1>9. CASE FailAndDrop(o, e) /\ dbQueue' = dbQueue
  <2>1. failures' \in 0 .. MaxFailures  BY <1>4, <1>6, <1>9, FailAndDropGives
  <2>2. PICK d : Becomes(o, d) /\ SameAttempt(e, d) /\ d.unlucky
    BY <1>4, <1>6, <1>9, FailAndDropGives
  <2>3. d.session = client[o].session /\ d.authState # Authorized
    BY <1>1, <1>6, <2>2 DEF SameAttempt, Initial, VersionSent, ProcessingCredentials, Authorized
  <2>4. QED  BY <1>1, <1>2, <1>9, <2>1, <2>2, <2>3, AttemptSettled
<1>10. QED  BY <1>2, <1>8, <1>9 DEF Ask

\* loginc_handle_db_credentials: the row's password is the one the client sent.
LEMMA ReplyKnownInv ==
  ASSUME IInv, HandleReply, NEW r, r = Head(replies), ReplyKnown(r)
  PROVE  CoreInv'
<1>1. PICK c, e : c = client[r.client] /\ e = Cleared(c)  OBVIOUS
<1>2. /\ r.client \in Live /\ ~r.hadError /\ r.zop = "LoginCredentials" /\ r.acctId # 0
      /\ dbQueue' = dbQueue
  BY DEF ReplyKnown
<1>3. c \in LoginClients  BY <1>1, <1>2, LiveClient DEF IInv
<1>4. ReplyOK(r)  BY ReplyTaken
<1>5. CASE c.passwordTemp = r.password /\ Send(r.client, SessionOf(e, r.acctId))
  <2>1. /\ e \in LoginClients /\ e.session = c.session
        /\ e.accountName = c.accountName /\ e.typed = c.typed
    BY <1>1, <1>3 DEF Cleared, LoginClients
  <2>2. Proves(r.acctId, c.accountName, r.password) /\ c.passwordTemp = c.typed
    BY <1>1, <1>2, <1>4 DEF ReplyOK, AttemptOf
  <2>3. Proves(r.acctId, e.accountName, e.typed)  BY <1>5, <2>1, <2>2
  <2>4. QED  BY <1>1, <1>2, <1>5, <2>1, <2>3, SessionInvOf
<1>6. CASE DroppedAfterError(r.client, client[r.client])
  BY <1>2, <1>6, DroppedAfterErrorInv
<1>7. QED  BY <1>1, <1>5, <1>6 DEF ReplyKnown

\* The account was created for this client.
LEMMA ReplyCreatedInv ==
  ASSUME IInv, HandleReply, NEW r, r = Head(replies), ReplyCreated(r)
  PROVE  CoreInv'
<1>1. PICK c : c = client[r.client]  OBVIOUS
<1>2. /\ r.client \in Live /\ ~r.hadError /\ r.zop = "LoginNewAccount"
      /\ dbQueue' = dbQueue /\ Send(r.client, SessionOf(c, r.acctId))
  BY <1>1 DEF ReplyCreated
<1>3. c \in LoginClients  BY <1>1, <1>2, LiveClient DEF IInv
<1>4. Proves(r.acctId, c.accountName, c.typed)  BY <1>1, <1>2, ReplyTaken DEF ReplyOK
<1>5. QED  BY <1>1, <1>2, <1>3, <1>4, SessionInvOf

\* login_thread_handle_db_login_credentials and _db_new_account.
LEMMA HandleReplyInv ==
  ASSUME IInv, HandleReply
  PROVE  CoreInv'
<1>1. PICK r : r = Head(replies)  OBVIOUS
<1>2. CASE ReplyUnclaimed(r)  BY <1>1, <1>2, ReplyUnclaimedInv
<1>3. CASE ReplyFailed(r)
  <2>1. r.client \in Live /\ dbQueue' = dbQueue /\ DroppedAfterError(r.client, client[r.client])
    BY <1>3 DEF ReplyFailed
  <2>2. QED  BY <1>1, <2>1, DroppedAfterErrorInv
<1>4. CASE ReplyUnknown(r)  BY <1>1, <1>4, ReplyUnknownInv
<1>5. CASE ReplyKnown(r)  BY <1>1, <1>5, ReplyKnownInv
<1>6. CASE ReplyCreated(r)  BY <1>1, <1>6, ReplyCreatedInv
<1>7. QED  BY <1>1, <1>2, <1>3, <1>4, <1>5, <1>6 DEF HandleReply

-----------------------------------------------------------------------------
(* A new connection, and the theorems.                                     *)

\* Addresses may be given out again, but not while a message names them.
NoReuse == ~ReuseWhileQueried

\* A new client takes an address that neither a client nor a message has.
LEMMA NewClientInv ==
  ASSUME NoReuse, IInv, NewClient
  PROVE  CoreInv'
<1>1. PICK o : o = CHOOSE x \in Free : TRUE  OBVIOUS
<1>2. PICK c : c = NewLoginClient(opened + 1)  OBVIOUS
<1>3. /\ opened < MaxSessions /\ Free # {} /\ client' = [client EXCEPT ![o] = c]
      /\ opened' = opened + 1
      /\ UNCHANGED <<attempts, dbQueue, writes, reads, executing, accounts, replies, failures>>
  BY <1>1, <1>2 DEF NewClient, db
<1>4. o \in Free  BY <1>1, <1>3
<1>5. o \in Objects /\ o \notin Live /\ \A q \in Outstanding : q.client # o
  BY <1>4 DEF Free, NoReuse
<1>6. opened \in Nat /\ opened + 1 \in 1 .. MaxSessions /\ Len(accounts) \in Nat
  BY <1>3, LoginAssumption, LenProperties DEF IInv, TypeInv
<1>7. c \in LoginClients /\ c.session = opened + 1 /\ c.authState = Initial
  <2>1. c = [session |-> opened + 1, authState |-> 0, accountName |-> None,
             passwordTemp |-> None, typed |-> None, accountId |-> 0,
             dropped |-> FALSE, unlucky |-> FALSE]
    BY <1>2 DEF NewLoginClient, Initial
  <2>2. 0 \in 0 .. 3 /\ 0 \in 0 .. Len(accounts)  BY <1>6
  <2>3. QED  BY <1>6, <2>1, <2>2 DEF LoginClients, Initial, Authorized
<1>8. /\ client' \in [Objects -> LoginClients \cup {None}] /\ client'[o] = c
      /\ \A x \in Objects : x # o => client'[x] = client[x]
  BY <1>3, <1>5, <1>7 DEF IInv, TypeInv
<1>9. TypeInv'
  BY <1>3, <1>6, <1>8 DEF IInv, TypeInv, LoginClients
<1>10. /\ UniqueInv' /\ Outstanding' = Outstanding /\ AccountsKept
       /\ \A x : Asked(x)' <=> Asked(x)
  BY <1>3, QueuesKept
<1>11. \A x \in Objects : x # o => Kept(x) /\ (x \in Live' <=> x \in Live)
  BY <1>8 DEF Kept, SameAttempt, Live
<1>12. Live' \subseteq Objects  BY DEF Live
<1>13. SessionInv'
  <2>1. \A x \in Live' : x = o \/ (x \in Live /\ client'[x] = client[x] /\ client[x].session \in Nat)
    BY <1>8, <1>11, <1>12, LiveClient DEF IInv, LoginClients
  <2>2. \A q \in Outstanding : q.session \in Nat  BY OutstandingClients DEF IInv
  <2>3. \A x \in Live' : client'[x].session <= opened'
    BY <1>3, <1>6, <1>7, <1>8, <2>1 DEF IInv, SessionInv
  <2>4. \A x, y \in Live' : client'[x].session = client'[y].session => x = y
    BY <1>3, <1>6, <1>7, <1>8, <2>1 DEF IInv, SessionInv
  <2>5. \A q \in Outstanding : q.session <= opened'
    BY <1>3, <1>6, <2>2 DEF IInv, SessionInv
  <2>6. \A q \in Outstanding, x \in Live' : q.session = client'[x].session => q.client = x
    BY <1>6, <1>7, <1>8, <2>1, <2>2 DEF IInv, SessionInv
  <2>7. QED  BY <1>10, <2>3, <2>4, <2>5, <2>6 DEF SessionInv
<1>14. MessageInv'
  <2>1. \A q \in Outstanding : (QueryOK(q) => QueryOK(q)') /\ (ReplyOK(q) => ReplyOK(q)')
    BY <1>5, <1>10, <1>11, OutstandingClients, MessageKept DEF IInv
  <2>2. QED  BY <1>3, <2>1 DEF IInv, MessageInv, Outstanding
<1>15. WaitInv'
  <2>1. \A x \in Live' : x = o \/ (x \in Live /\ client'[x] = client[x])
    BY <1>8, <1>11, <1>12
  <2>2. QED  BY <1>7, <1>8, <1>10, <2>1 DEF IInv, WaitInv, Initial, ProcessingCredentials
<1>16. SessionsAreProven'
  <2>1. \A x \in Live' : x = o \/ (x \in Live /\ client'[x] = client[x])
    BY <1>8, <1>11, <1>12
  <2>2. QED  BY <1>3, <1>7, <1>8, <2>1 DEF IInv, SessionsAreProven, Proves, Initial, Authorized
<1>17. QED  BY <1>9, <1>10, <1>13, <1>14, <1>15, <1>16 DEF CoreInv

\* Before any connection.
LEMMA InitInv == Init => IInv
<1> SUFFICES ASSUME Init PROVE IInv  OBVIOUS
<1>1. Live = {}  BY DEF Init, Live
<1>2. ClientsIn(<<>>) = {} /\ ToSet(<<>>) = {} /\ OnePerClient(<<>>)
  BY DEF ClientsIn, ToSet, OnePerClient
<1>3. TypeInv
  <2>1. /\ dbQueue \in Seq(Queries) /\ writes \in Seq(Queries) /\ reads \in Seq(Queries)
        /\ replies \in Seq(Replies) /\ accounts \in Seq([name : Names, password : Passwords])
    BY DEF Init
  <2>2. client \in [Objects -> LoginClients \cup {None}]  BY DEF Init
  <2>3. opened \in 0 .. MaxSessions /\ attempts \in 0 .. MaxAttempts /\ failures \in 0 .. MaxFailures
    BY LoginAssumption DEF Init
  <2>4. QED  BY <2>1, <2>2, <2>3 DEF Init, TypeInv
<1>4. UniqueInv  BY <1>2 DEF Init, UniqueInv
<1>5. Outstanding = {}  BY <1>2 DEF Init, Outstanding
<1>6. SessionInv /\ WaitInv /\ SessionsAreProven
  BY <1>1, <1>5 DEF SessionInv, WaitInv, SessionsAreProven
<1>7. MessageInv  BY <1>2 DEF Init, MessageInv
<1>8. LoginAuthsAreProven  BY DEF Init, LoginAuthsAreProven
<1>9. QED  BY <1>3, <1>4, <1>6, <1>7, <1>8 DEF IInv

\* Every step of the login and database threads.
LEMMA NextInv ==
  ASSUME NoReuse, IInv, [Next]_vars
  PROVE  IInv'
<1>1. CASE Quietly(NewClient)
  BY <1>1, NewClientInv DEF Quietly, CoreInv, IInv, LoginAuthsAreProven
<1>2. ASSUME NEW o \in Live, OpSessionKey(o) PROVE IInv'
  BY <1>2, OpSessionKeyInv DEF CoreInv, IInv
<1>3. ASSUME NEW o \in Live, Quietly(Packet(o)) PROVE IInv'
  <2>1. CoreInv'
    BY <1>3, OpVersionInv, OpCredentialsInv, OpRefusedInv, OpServersInv DEF Quietly, Packet
  <2>2. QED  BY <1>3, <2>1 DEF Quietly, CoreInv, IInv, LoginAuthsAreProven
<1>4. ASSUME NEW o \in Live, Quietly(Disconnect(o)) PROVE IInv'
  BY <1>4, DisconnectInv DEF Quietly, CoreInv, IInv, LoginAuthsAreProven
<1>5. CASE Quietly(DbThread)
  <2>1. CoreInv'
    BY <1>5, DbPopInv, DbBatchInv, DbWriteInv, DbReadInv DEF Quietly, DbThread
  <2>2. QED  BY <1>5, <2>1 DEF Quietly, CoreInv, IInv, LoginAuthsAreProven
<1>6. CASE Quietly(HandleReply)
  BY <1>6, HandleReplyInv DEF Quietly, CoreInv, IInv, LoginAuthsAreProven
<1>7. CASE UNCHANGED vars
  <2>1. UNCHANGED <<client, opened, attempts, dbQueue, writes, reads, executing, accounts,
                    replies, login, failures>>
    BY <1>7 DEF vars, db
  <2>2. \A x \in Objects : Kept(x)  BY <2>1 DEF Kept, SameAttempt, Live
  <2>3. UniqueInv' /\ SessionInv' /\ MessageInv' /\ WaitInv' /\ SessionsAreProven'
    BY <2>1, <2>2, FlagsInv
  <2>4. TypeInv' /\ LoginAuthsAreProven'
    BY <2>1 DEF IInv, TypeInv, LoginClients, LoginAuthsAreProven, Proves
  <2>5. QED  BY <2>3, <2>4 DEF IInv
<1>8. QED  BY <1>1, <1>2, <1>3, <1>4, <1>5, <1>6, <1>7 DEF Next

\* The inductive invariant of the login and database threads.
THEOREM InductiveInvariant ==
  ASSUME NoReuse
  PROVE  Spec => []IInv
<1>1. Init => IInv  BY InitInv
<1>2. IInv /\ [Next]_vars => IInv'  BY NextInv
<1>3. QED  BY <1>1, <1>2, PTL DEF Spec

\* Every client stays a LoginClient, and the account it holds is a row, whatever
\* order packets, disconnects and answers come in.
THEOREM TypeCorrect ==
  ASSUME NoReuse
  PROVE  Spec => []TypeOK
<1>1. IInv => TypeOK  BY DEF IInv, TypeInv, TypeOK, Live
<1>2. QED  BY <1>1, InductiveInvariant, PTL

\* loginc_handle_db_credentials and _db_new_account authorize a client only for
\* a row whose name and password it sent.
THEOREM SessionsProven ==
  ASSUME NoReuse
  PROVE  Spec => []SessionsAreProven
<1>1. IInv => SessionsAreProven  BY DEF IInv
<1>2. QED  BY <1>1, InductiveInvariant, PTL

\* login_thread_handle_op_session_key tells char select only of such accounts.
THEOREM LoginAuthsProven ==
  ASSUME NoReuse
  PROVE  Spec => []LoginAuthsAreProven
<1>1. IInv => LoginAuthsAreProven  BY DEF IInv
<1>2. QED  BY <1>1, InductiveInvariant, PTL

\* Two messages with the session of a live client are the same message.
LEMMA OneMessage ==
  ASSUME IInv, NEW o \in Live, NEW q \in Outstanding, NEW r \in Outstanding,
         q.client = o, r.client = o
  PROVE  q = r
<1>1. /\ \A m \in ToSet(dbQueue) : m.client \in ClientsIn(dbQueue)
      /\ \A m \in ToSet(writes) : m.client \in ClientsIn(writes)
      /\ \A m \in ToSet(reads) : m.client \in ClientsIn(reads)
      /\ \A m \in ToSet(replies) : m.client \in ClientsIn(replies)
  BY MembersOf DEF IInv, TypeInv
<1>2. /\ \A m, n \in ToSet(dbQueue) : m.client = n.client => m = n
      /\ \A m, n \in ToSet(writes) : m.client = n.client => m = n
      /\ \A m, n \in ToSet(reads) : m.client = n.client => m = n
      /\ \A m, n \in ToSet(replies) : m.client = n.client => m = n
  BY MembersOf DEF IInv, TypeInv, UniqueInv
<1>3. QED  BY <1>1, <1>2 DEF IInv, UniqueInv, Outstanding

\* A client waits for at most one answer, however often it sends its
\* credentials, and one that is processing them is being answered unless it was
\* dropped or a push failed for it.
THEOREM OneQueryPerAttempt ==
  ASSUME NoReuse
  PROVE  Spec => []AttemptsHaveOneQuery
<1>1. IInv => AttemptsHaveOneQuery
  <2> SUFFICES ASSUME IInv, NEW o \in Live, NEW Q, Q = QueriesOf(client[o])
               PROVE  /\ Cardinality(Q) <= 1
                      /\ Q # {} => client[o].authState = ProcessingCredentials
                      /\ client[o].authState = ProcessingCredentials =>
                           Q # {} \/ client[o].dropped \/ client[o].unlucky
    BY DEF AttemptsHaveOneQuery
  <2>1. \A q \in Q : q \in Outstanding /\ q.client = o
    BY DEF QueriesOf, IInv, SessionInv
  <2>2. \A q \in Outstanding : q.client = o => q \in Q
    BY DEF QueriesOf, IInv, MessageInv, Outstanding, QueryOK, ReplyOK, AttemptOf
  <2>3. \A q, r \in Q : q = r  BY <2>1, OneMessage
  <2>4. Cardinality(Q) <= 1
    <3>1. CASE Q = {}  BY <3>1, FS_EmptySet
    <3>2. CASE Q # {}
      <4>1. PICK q : Q = {q}  BY <2>3, <3>2
      <4>2. Cardinality(Q) = 1  BY <4>1, FS_Singleton
      <4>3. QED  BY <4>2
    <3>3. QED  BY <3>1, <3>2
  <2>5. Q # {} => client[o].authState = ProcessingCredentials
    BY <2>1 DEF IInv, MessageInv, Outstanding, QueryOK, ReplyOK, AttemptOf
  <2>6. client[o].authState = ProcessingCredentials =>
          Q # {} \/ client[o].dropped \/ client[o].unlucky
    BY <2>2, OutstandingClients DEF IInv, WaitInv
  <2>7. QED  BY <2>4, <2>5, <2>6
<1>2. QED  BY <1>1, InductiveInvariant, PTL
=============================================================================
