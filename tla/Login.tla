-------------------------------- MODULE Login --------------------------------
(***************************************************************************)
(* Logging in: the login thread (login_thread.c), its LoginClient objects  *)
(* (login_client.c) and the two queries it runs on the database thread     *)
(* (db_thread.c, db_read.c, db_write.c).                                   *)
(*                                                                         *)
(* The UDP thread tells the login thread of new clients, packets and       *)
(* disconnects in that order (UdpClients, KnownWhileUsed); here each of    *)
(* them is one step.  A query names the client by the address of its       *)
(* object, and the answer may come back when that client has gone.         *)
(***************************************************************************)
EXTENDS Naturals, FiniteSets, FiniteSetsExt, SequencesExt

CONSTANTS
  Objects,            \* addresses malloc can give a LoginClient
  Names, Passwords,
  None,               \* NULL
  MaxSessions,        \* connections over the whole run
  MaxAttempts,        \* credentials handed to the database over the whole run
  MaxFailures,        \* pushes and statements that fail over the whole run
  ReuseWhileQueried   \* may malloc return an address a query still names?

ASSUME LoginAssumption ==
  /\ MaxSessions \in Nat /\ MaxAttempts \in Nat /\ MaxFailures \in Nat
  /\ ReuseWhileQueried \in BOOLEAN
  /\ None \notin Names \cup Passwords

VARIABLES
  client,     \* object |-> the LoginClient in it, or None
  opened,     \* connections so far
  attempts,   \* credentials handed to the database so far
  dbQueue, writes, reads, executing,  \* the database thread
  accounts,   \* rows of the account table, by id
  replies,    \* what it has pushed to the login queue
  login,      \* the ZOP_CS_LoginAuth this step pushed to char select, or None
  failures

db   == <<dbQueue, writes, reads, executing, accounts>>
vars == <<client, opened, attempts, db, replies, login, failures>>

\* enum LoginAuthState
Initial == 0
VersionSent == 1
ProcessingCredentials == 2
Authorized == 3

\* session, typed, dropped and unlucky only serve the properties: which
\* connection this is, the password that came with accountName, whether
\* DropClient was pushed, and whether a push or statement failed for it.
LoginClients ==
  [session : 1 .. MaxSessions, authState : Initial .. Authorized,
   accountName : Names \cup {None}, passwordTemp : Passwords \cup {None},
   typed : Passwords \cup {None}, accountId : 0 .. Len(accounts),
   dropped : BOOLEAN, unlucky : BOOLEAN]

\* loginc_init
NewLoginClient(s) ==
  [session |-> s, authState |-> Initial, accountName |-> None, passwordTemp |-> None,
   typed |-> None, accountId |-> 0, dropped |-> FALSE, unlucky |-> FALSE]

Live == {o \in Objects : client[o] # None}   \* login_thread_is_client_valid

\* The queries and answers the database thread holds or has pushed.
Outstanding == ToSet(dbQueue) \cup ToSet(writes) \cup ToSet(reads) \cup ToSet(replies)

Spend(n) == failures + n <= MaxFailures /\ failures' = failures + n

\* login_thread_drop_client: "keeping client alive for now" when the push fails.
Dropped(c, ok) == IF ok THEN [c EXCEPT !.dropped = TRUE] ELSE [c EXCEPT !.unlucky = TRUE]

\* Client o becomes c and is dropped.
Drop(o, c) ==
  \E ok \in BOOLEAN :
    /\ client' = [client EXCEPT ![o] = Dropped(c, ok)]
    /\ Spend(IF ok THEN 0 ELSE 1)

\* A push for client o, now c, fails, and it is dropped for that.
FailAndDrop(o, c) ==
  \E ok \in BOOLEAN :
    /\ client' = [client EXCEPT ![o] = Dropped([c EXCEPT !.unlucky = TRUE], ok)]
    /\ Spend(IF ok THEN 1 ELSE 2)

\* Client o becomes c with a packet scheduled for it, and is dropped if the
\* packet does not fit the UDP thread's queue.
Send(o, c) ==
  \/ client' = [client EXCEPT ![o] = c] /\ Spend(0)
  \/ FailAndDrop(o, c)

-----------------------------------------------------------------------------
(* Connections.                                                              *)

\* Addresses malloc may return; they are only ever compared, so any one will do.
Free == {o \in Objects \ Live : ReuseWhileQueried \/ \A q \in Outstanding : q.client # o}

NewClient ==
  /\ opened < MaxSessions /\ Free # {}
  /\ LET o == CHOOSE x \in Free : TRUE IN
     client' = [client EXCEPT ![o] = NewLoginClient(opened + 1)]
  /\ opened' = opened + 1
  /\ UNCHANGED <<attempts, db, replies, failures>>

\* login_thread_remove_client_object
Disconnect(o) ==
  /\ client' = [client EXCEPT ![o] = None]
  /\ UNCHANGED <<opened, attempts, db, replies, failures>>

-----------------------------------------------------------------------------
(* login_thread_handle_packet.                                               *)
OpVersion(o) ==
  LET c == client[o] IN
  /\ \/ /\ Spend(0)
        /\ client' = [client EXCEPT ![o].authState =
                        IF c.authState < VersionSent THEN VersionSent ELSE c.authState]
     \/ FailAndDrop(o, c)
  /\ UNCHANGED <<opened, attempts, db, replies>>

\* Mutation: credentials are taken again while an answer is awaited.
NeverBusy(c) == FALSE

\* "The client spams this packet while we are dealing with it"
Busy(c) == c.authState = ProcessingCredentials

Attempt(c, n, p) ==
  [c EXCEPT !.accountName = n, !.passwordTemp = p, !.typed = p,
            !.authState = ProcessingCredentials]

Query(zop, o, c, p) ==
  [zop |-> zop, client |-> o, session |-> c.session, name |-> c.accountName, password |-> p]

\* Push a query about client o, which becomes c; it is dropped if that fails.
Ask(o, c, q) ==
  \/ /\ client' = [client EXCEPT ![o] = c]
     /\ dbQueue' = Append(dbQueue, q)
     /\ Spend(0)
  \/ FailAndDrop(o, c) /\ UNCHANGED dbQueue

OpCredentials(o, n, p) ==
  LET c == client[o] IN
  /\ \/ /\ c.authState < VersionSent
        /\ Drop(o, c)
        /\ UNCHANGED <<attempts, dbQueue>>
     \/ /\ c.authState >= VersionSent
        /\ ~Busy(c)
        /\ attempts < MaxAttempts /\ attempts' = attempts + 1
        /\ LET a == Attempt(c, n, p) IN Ask(o, a, Query("LoginCredentials", o, a, None))
  /\ UNCHANGED <<opened, writes, reads, executing, accounts, replies>>

\* OP_LOGIN_Credentials that is too short or has an empty name or password, and
\* OP_LOGIN_Exit: the client is dropped.
OpRefused(o) ==
  /\ Drop(o, client[o])
  /\ UNCHANGED <<opened, attempts, db, replies>>

\* Mutation: credentials need not have been checked yet.
OnceCredentialed(c) == c.authState >= ProcessingCredentials

\* loginc_is_authorized
IsAuthorized(c) == c.authState = Authorized

\* OP_LOGIN_Banner, ServerList and ServerStatusRequest.
OpServers(o) ==
  /\ IF IsAuthorized(client[o]) THEN Send(o, client[o]) ELSE Drop(o, client[o])
  /\ UNCHANGED <<opened, attempts, db, replies>>

\* OP_LOGIN_SessionKey: char select is told first, then the client.
OpSessionKey(o) ==
  LET c == client[o] IN
  /\ \/ /\ IsAuthorized(c)
        /\ login' = [accountId |-> c.accountId, name |-> c.accountName, password |-> c.typed]
        /\ Send(o, c)
     \/ /\ IsAuthorized(c)
        /\ FailAndDrop(o, c)
        /\ login' = None
     \/ /\ ~IsAuthorized(c)
        /\ Drop(o, c)
        /\ login' = None
  /\ UNCHANGED <<opened, attempts, db, replies>>

Packet(o) ==
  \/ OpVersion(o)
  \/ \E n \in Names, p \in Passwords : OpCredentials(o, n, p)
  \/ OpRefused(o)
  \/ OpServers(o)

-----------------------------------------------------------------------------
(* The database thread: it drains its queue, then runs the writes it found,  *)
(* then the reads.                                                           *)
DbPop ==
  /\ ~executing /\ dbQueue # <<>>
  /\ dbQueue' = Tail(dbQueue)
  /\ LET q == Head(dbQueue) IN
     IF q.zop = "LoginNewAccount" THEN writes' = Append(writes, q) /\ UNCHANGED reads
                                  ELSE reads' = Append(reads, q) /\ UNCHANGED writes
  /\ UNCHANGED <<client, opened, attempts, executing, accounts, replies, failures>>

DbDrained ==
  /\ ~executing /\ dbQueue = <<>>
  /\ writes # <<>> \/ reads # <<>>
  /\ executing' = TRUE
  /\ UNCHANGED <<client, opened, attempts, dbQueue, writes, reads, accounts, replies, failures>>

Result(q, hadError, id) ==
  [zop |-> q.zop, client |-> q.client, session |-> q.session, hadError |-> hadError,
   acctId |-> id, password |-> IF id \in DOMAIN accounts THEN accounts[id].password ELSE None]

Unlucky(q) ==
  [o \in Objects |-> IF o = q.client /\ o \in Live THEN [client[o] EXCEPT !.unlucky = TRUE]
                                                   ELSE client[o]]

\* Mutation: the answer is not pushed.
DbReplyNever(q, r) == UNCHANGED <<replies, client>> /\ Spend(0)

\* db_reply: an answer that does not fit the login queue is only logged.
DbReply(q, r) ==
  \/ replies' = Append(replies, r) /\ UNCHANGED client /\ Spend(0)
  \/ replies' = replies /\ client' = Unlucky(q) /\ Spend(1)

\* Mutation: the row id is one too high.
NextRowId == Len(accounts) + 2

\* sqlite3_last_insert_rowid after the INSERT
RowId == Len(accounts) + 1

\* dbw_login_new_account
DbWrite ==
  /\ executing /\ writes # <<>>
  /\ writes' = Tail(writes)
  /\ LET q == Head(writes) IN
     \/ /\ accounts' = Append(accounts, [name |-> q.name, password |-> q.password])
        /\ DbReply(q, Result(q, FALSE, RowId))
     \/ /\ UNCHANGED accounts
        /\ replies' = Append(replies, Result(q, TRUE, 0))
        /\ UNCHANGED client /\ Spend(1)
  /\ UNCHANGED <<opened, attempts, dbQueue, reads, executing>>

\* dbr_login_credentials: the first row with that name, or acctId -1 (here 0).
Lookup(n) == LET ids == {i \in DOMAIN accounts : accounts[i].name = n} IN
             IF ids = {} THEN 0 ELSE Min(ids)

DbRead ==
  /\ executing /\ writes = <<>> /\ reads # <<>>
  /\ reads' = Tail(reads)
  /\ LET q == Head(reads) IN
     \/ DbReply(q, Result(q, FALSE, Lookup(q.name)))
     \/ /\ replies' = Append(replies, Result(q, TRUE, 0))
        /\ UNCHANGED client /\ Spend(1)
  /\ UNCHANGED <<opened, attempts, dbQueue, writes, executing, accounts>>

DbBatchDone ==
  /\ executing /\ writes = <<>> /\ reads = <<>>
  /\ executing' = FALSE
  /\ UNCHANGED <<client, opened, attempts, dbQueue, writes, reads, accounts, replies, failures>>

-----------------------------------------------------------------------------
(* login_thread_handle_db_login_credentials and _db_new_account.             *)

\* loginc_send_session_packet
SessionOf(c, id) == [c EXCEPT !.accountId = id, !.authState = Authorized]

Cleared(c) == [c EXCEPT !.passwordTemp = None]

\* The answer is for a LoginClient "that no longer exists".
ReplyUnclaimed(r) ==
  /\ r.client \notin Live
  /\ UNCHANGED <<client, dbQueue, failures>>

\* Mutation: the client is not dropped.
KeptAfterError(o, c) == UNCHANGED client /\ Spend(0)

\* The goto drop_client of both handlers.
DroppedAfterError(o, c) == Drop(o, c)

ReplyFailed(r) ==
  /\ r.client \in Live /\ r.hadError
  /\ DroppedAfterError(r.client, client[r.client])
  /\ UNCHANGED dbQueue

\* Unknown account name: the password is hashed for a new row and forgotten.
ReplyUnknown(r) ==
  LET o == r.client
      c == client[o]
  IN /\ o \in Live /\ ~r.hadError
     /\ r.zop = "LoginCredentials" /\ r.acctId = 0
     /\ Ask(o, Cleared(c), Query("LoginNewAccount", o, c, c.passwordTemp))

\* loginc_handle_db_credentials
ReplyKnown(r) ==
  LET o == r.client
      c == client[o]
  IN /\ o \in Live /\ ~r.hadError
     /\ r.zop = "LoginCredentials" /\ r.acctId # 0
     /\ IF c.authState = ProcessingCredentials /\ c.passwordTemp = r.password
        THEN Send(o, SessionOf(Cleared(c), r.acctId))
        ELSE DroppedAfterError(o, c)
     /\ UNCHANGED dbQueue

ReplyCreated(r) ==
  /\ r.client \in Live /\ ~r.hadError
  /\ r.zop = "LoginNewAccount"
  /\ Send(r.client, SessionOf(client[r.client], r.acctId))
  /\ UNCHANGED dbQueue

HandleReply ==
  /\ replies # <<>>
  /\ LET r == Head(replies) IN
     ReplyUnclaimed(r) \/ ReplyFailed(r) \/ ReplyUnknown(r) \/ ReplyKnown(r) \/ ReplyCreated(r)
  /\ replies' = Tail(replies)
  /\ UNCHANGED <<opened, attempts, writes, reads, executing, accounts>>

-----------------------------------------------------------------------------
Init ==
  /\ client = [o \in Objects |-> None] /\ opened = 0 /\ attempts = 0
  /\ dbQueue = <<>> /\ writes = <<>> /\ reads = <<>> /\ executing = FALSE
  /\ accounts = <<>> /\ replies = <<>> /\ login = None /\ failures = 0

DbThread == DbPop \/ DbDrained \/ DbWrite \/ DbRead \/ DbBatchDone

Quietly(A) == A /\ login' = None

Next ==
  \/ Quietly(NewClient)
  \/ \E o \in Live : OpSessionKey(o) \/ Quietly(Packet(o)) \/ Quietly(Disconnect(o))
  \/ Quietly(DbThread)
  \/ Quietly(HandleReply)

Spec == Init /\ [][Next]_vars

\* The database thread drains its queue whenever it is signalled.  The login
\* thread takes one packet per wake-up and may be one behind (RingBuf in mode
\* "single"); the client spams its credentials, so wake-ups keep coming.
FairSpec == Spec /\ WF_vars(Quietly(DbThread)) /\ WF_vars(Quietly(HandleReply))

-----------------------------------------------------------------------------
\* Every client is a LoginClient, and the account it holds is a row.
TypeOK ==
  /\ \A o \in Live : client[o] \in LoginClients
  /\ opened \in 0 .. MaxSessions /\ attempts \in 0 .. MaxAttempts
  /\ accounts \in Seq([name : Names, password : Passwords])
  /\ executing \in BOOLEAN /\ failures \in 0 .. MaxFailures

Proves(id, n, p) == id \in DOMAIN accounts /\ accounts[id] = [name |-> n, password |-> p]

\* A client is authorized only for an account whose name and password it sent,
\* although it may send other credentials while the answer is on its way and
\* another client may be creating the same account (login_client.c).
SessionsAreProven ==
  \A o \in Live : client[o].authState = Authorized =>
    Proves(client[o].accountId, client[o].accountName, client[o].typed)

\* Char select is told of a login (login_thread_handle_op_session_key) only for
\* an account whose name and password were sent.
LoginAuthsAreProven ==
  login # None => Proves(login.accountId, login.name, login.password)

QueriesOf(c) == {q \in Outstanding : q.session = c.session}

\* A client waits for at most one answer, and one that is still processing its
\* credentials has a query on its way, or was dropped, or a push failed for it:
\* otherwise it would be refused as busy for ever.
AttemptsHaveOneQuery ==
  \A o \in Live :
    LET c == client[o] IN
    /\ Cardinality(QueriesOf(c)) <= 1
    /\ QueriesOf(c) # {} => c.authState = ProcessingCredentials
    /\ c.authState = ProcessingCredentials => QueriesOf(c) # {} \/ c.dropped \/ c.unlucky

\* Every login attempt ends: the client is authorized, dropped or gone, unless a
\* push failed for it.
AttemptsEnd ==
  \A o \in Objects :
    (o \in Live /\ client[o].authState = ProcessingCredentials)
      ~> (o \notin Live \/ client[o].authState = Authorized \/ client[o].dropped \/ client[o].unlucky)

\* "received database result for LoginClient that no longer exists"
\* (login_thread.c): an answer that passes login_thread_is_client_valid belongs
\* to the client that asked.
AnswersMeetTheirClient ==
  replies # <<>> /\ Head(replies).client \in Live =>
    client[Head(replies).client].session = Head(replies).session
=============================================================================
