----------------------------- MODULE CharSelect -----------------------------
(***************************************************************************)
(* Character select: the char select thread (char_select_thread.c), its    *)
(* CharSelectClient objects (char_select_client.c) and the queries it runs *)
(* on the database thread (db_thread.c, db_read.c, db_write.c).            *)
(*                                                                         *)
(* The login thread grants a session (Login) and the client comes to char  *)
(* select with it over another connection, in either order; whichever is   *)
(* first waits, with a timeout.  The main thread answers the request to    *)
(* enter the world (World).  Packets, connections and disconnects reach    *)
(* the thread in the order the UDP thread reports them (UdpClients).       *)
(***************************************************************************)
EXTENDS Naturals, FiniteSets, FiniteSetsExt, SequencesExt

CONSTANTS
  Objects,         \* addresses malloc can give a CharSelectClient
  Accounts, Ips, Keys, Names,
  None,            \* NULL, and the account id -1
  Timeout,         \* CHAR_SELECT_THREAD_AUTH_TIMEOUT_MS, in clock units
  MaxTime,         \* clock units over the whole run
  MaxSessions,     \* connections over the whole run
  MaxGrants,       \* login authorisations over the whole run
  MaxLogins,       \* OP_CS_LoginInfo packets over the whole run
  MaxRequests,     \* packets other than those over the whole run
  MaxFailures      \* pushes, allocations and statements that fail over the whole run

ASSUME CharSelectAssumption ==
  /\ {Timeout, MaxTime, MaxSessions, MaxGrants, MaxLogins, MaxRequests, MaxFailures} \subseteq Nat
  /\ None \notin Objects \cup Accounts \cup Keys
  /\ IsFiniteSet(Objects)

VARIABLES
  object,     \* address |-> the CharSelectClient in it, or None
  clients,    \* cs->clients
  awaiting, awaitingTimeouts,   \* cs->clientsAwaitingAuth and its timeouts
  auths, authTimeouts,          \* cs->authsAwaitingClient and its timeouts
  now,        \* clock_milliseconds
  dbQueue, batch,   \* queries pushed to, and drained by, the database thread
  characters,       \* rows of the character table
  toMain,     \* zone-in requests the main thread has not answered
  csQueue,    \* answers of the database thread and of the main thread
  opened, logins, requests, failures,
  granted, admitted,   \* authorisation |-> how often it came, and let a client in
  again       \* addresses whose client sent OP_CS_LoginInfo while listed

lists == <<clients, awaiting, awaitingTimeouts, auths, authTimeouts>>
db    == <<dbQueue, batch, characters>>
tally == <<opened, logins, requests>>
vars  == <<object, lists, now, db, toMain, csQueue, tally, failures, granted, admitted, again>>

Auths == [account : Accounts, ip : Ips, key : Keys]

\* drop is whether DropClient was pushed for the client; until, when the wait
\* that its last OP_CS_LoginInfo began may end.  Both serve the properties.
CharSelectClients ==
  [ip : Ips, authed : BOOLEAN, isNameApproved : BOOLEAN, isZoning : BOOLEAN,
   accountId : Accounts \cup {None}, sessionKey : Keys \cup {None},
   drop : {"none", "pushed", "failed"}, until : 0 .. MaxTime]

ASSUME NullAssumption == None \notin CharSelectClients

\* csc_init.  sessionKey is left uninitialised: no authorisation has account -1,
\* so its value is never compared.
NewCharSelectClient(ip) ==
  [ip |-> ip, authed |-> FALSE, isNameApproved |-> FALSE, isZoning |-> FALSE,
   accountId |-> None, sessionKey |-> None, drop |-> "none", until |-> 0]

Live == {o \in Objects : object[o] # None}

IsClientValid(o) == o \in ToSet(clients)   \* cs_thread_is_client_valid

Outstanding ==
  {q.client : q \in ToSet(dbQueue) \cup ToSet(batch) \cup ToSet(csQueue) \cup toMain}

Spend(n) == failures + n <= MaxFailures /\ failures' = failures + n

\* What object o holds becomes c; a write to freed memory is not tracked.
Write(o, c) == IF o \in Live THEN [object EXCEPT ![o] = c] ELSE object

\* Can reading a field of o give v?  Freed memory can give anything.
MayRead(o, field, v) == o \in Live => object[o][field] = v

\* cs_thread_drop_client, n failures having led to it: "keeping client alive for
\* now" when the push fails.  What a freed object names may be anyone's address.
DropAfter(n, o) ==
  \E how \in {"pushed", "failed"}, victim \in IF o \in Live THEN {o} ELSE Live \cup {None} :
    /\ object' = IF victim = None THEN object
                 ELSE [object EXCEPT ![victim].drop = IF @ = "pushed" THEN @ ELSE how]
    /\ Spend(n + IF how = "failed" THEN 1 ELSE 0)

Drop(o) == DropAfter(0, o)

Count(f, x) == [f EXCEPT ![x] = @ + 1]

\* "Pop and swap": the last entry takes the place of entry i.
PopSwap(s, i) == [j \in 1 .. Len(s) - 1 |-> IF j = i THEN s[Len(s)] ELSE s[j]]

-----------------------------------------------------------------------------
(* Connections.                                                              *)

\* An address some query still names is not given out again here; LoginReuse
\* shows what happens when it is.
NewClient(ip) ==
  LET free == {o \in Objects \ Live : o \notin Outstanding} IN
  /\ opened < MaxSessions /\ free # {}
  /\ opened' = opened + 1
  /\ LET o == CHOOSE x \in free : TRUE IN
     object' = [object EXCEPT ![o] = NewCharSelectClient(ip)]
  /\ UNCHANGED <<lists, now, db, toMain, csQueue, logins, requests, failures,
                 granted, admitted, again>>

\* Mutation: only the authorized clients are looked through.
RemoveFromClients(o) ==
  /\ clients' = IF o \in ToSet(clients) THEN PopSwap(clients, SelectInSeq(clients, LAMBDA x : x = o))
                                        ELSE clients
  /\ UNCHANGED <<awaiting, awaitingTimeouts>>

\* The two loops of cs_thread_remove_client_object: the first entry found, in
\* clients if there is one there.
RemoveClient(o) ==
  LET at(s) == SelectInSeq(s, LAMBDA x : x = o) IN
  \/ /\ at(clients) # 0
     /\ clients' = PopSwap(clients, at(clients))
     /\ UNCHANGED <<awaiting, awaitingTimeouts>>
  \/ /\ at(clients) = 0 /\ at(awaiting) # 0
     /\ awaiting' = PopSwap(awaiting, at(awaiting))
     /\ awaitingTimeouts' = PopSwap(awaitingTimeouts, at(awaiting))
     /\ UNCHANGED clients
  \/ /\ at(clients) = 0 /\ at(awaiting) = 0
     /\ UNCHANGED <<clients, awaiting, awaitingTimeouts>>

Disconnect(o) ==
  /\ RemoveClient(o)
  /\ object' = [object EXCEPT ![o] = None]
  /\ UNCHANGED <<auths, authTimeouts, now, db, toMain, csQueue, tally, failures,
                 granted, admitted, again>>

-----------------------------------------------------------------------------
(* The session: cs_thread_handle_op_login_info and _login_auth.              *)

Query(zop, o, account, name) == [zop |-> zop, client |-> o, account |-> account, name |-> name]

\* cs_thread_add_authed_client: listed first, authorized last.
AddAuthed(o, a) ==
  \/ /\ clients' = Append(clients, o)
     /\ dbQueue' = Append(dbQueue, Query("CharacterInfo", o, a.account, None))
     /\ object' = Write(o, [object[o] EXCEPT !.authed = TRUE, !.accountId = a.account,
                                             !.sessionKey = a.key])
     /\ admitted' = Count(admitted, a)
     /\ UNCHANGED failures
  \/ /\ clients' \in {clients, Append(clients, o)}
     /\ DropAfter(1, o)
     /\ UNCHANGED <<dbQueue, admitted>>

\* A wait may only begin while the clock can still pass its end.
CanWait == now + Timeout < MaxTime

\* cs_thread_add_client_awaiting_auth
AddClientAwaitingAuth(o) ==
  \/ /\ awaiting' = Append(awaiting, o)
     /\ awaitingTimeouts' = Append(awaitingTimeouts, now + Timeout)
     /\ object' = [object EXCEPT ![o].until = now + Timeout]
     /\ UNCHANGED failures
  \/ /\ DropAfter(1, o)
     /\ UNCHANGED <<awaiting, awaitingTimeouts>>

\* Mutation: the authorisation stays for the next client.
AuthKept(i) == UNCHANGED <<auths, authTimeouts>>

\* Mutation: the authorisation's timeout stays.
AuthTimeoutKept(i) == auths' = PopSwap(auths, i) /\ UNCHANGED authTimeouts

\* The pop and swap of cs_thread_is_auth_awaiting_client.
AuthUsed(i) == auths' = PopSwap(auths, i) /\ authTimeouts' = PopSwap(authTimeouts, i)

OpLoginInfo(o, account, key) ==
  LET a == [account |-> account, ip |-> object[o].ip, key |-> key]
      i == SelectInSeq(auths, LAMBDA x : x = a)
  IN
  /\ logins < MaxLogins /\ logins' = logins + 1
  /\ CanWait
  /\ \/ /\ i # 0
        /\ AuthUsed(i)
        /\ AddAuthed(o, a)
        /\ UNCHANGED <<awaiting, awaitingTimeouts>>
     \/ /\ i = 0
        /\ AddClientAwaitingAuth(o)
        /\ UNCHANGED <<clients, auths, authTimeouts, dbQueue, admitted>>
  /\ again' = again \cup ({o} \cap (ToSet(clients) \cup ToSet(awaiting)))
  /\ UNCHANGED <<now, batch, characters, toMain, csQueue, opened, requests, granted>>

\* csc_check_auth
CheckAuth(c, a) == c.accountId = a.account /\ c.ip = a.ip /\ c.sessionKey = a.key

\* The client that is waiting must be the authorisation's already: a client
\* that has not been authorized before has account -1 and does not match.  An
\* entry whose object was freed compares as garbage.
LoginAuth(a) ==
  \E garbage \in BOOLEAN :
    LET i == SelectInSeq(awaiting, LAMBDA o : IF o \in Live THEN CheckAuth(object[o], a) ELSE garbage)
    IN
    /\ MapThenSumSet(LAMBDA x : granted[x], Auths) < MaxGrants
    /\ \A x \in Auths : granted[x] > 0 /\ x.key = a.key => x = a   \* a key is one session's
    /\ granted' = Count(granted, a)
    /\ \/ /\ i # 0
          /\ AddAuthed(awaiting[i], a)
          /\ awaiting' = PopSwap(awaiting, i)
          /\ awaitingTimeouts' = PopSwap(awaitingTimeouts, i)
          /\ UNCHANGED <<auths, authTimeouts>>
       \/ /\ i = 0
          /\ auths' = Append(auths, a)
          /\ authTimeouts' = Append(authTimeouts, now + Timeout)
          /\ UNCHANGED <<object, clients, awaiting, awaitingTimeouts, dbQueue, failures, admitted>>
       \/ /\ i = 0
          /\ Spend(1)
          /\ UNCHANGED <<object, lists, dbQueue, admitted>>
    /\ UNCHANGED <<now, batch, characters, toMain, csQueue, tally, again>>

-----------------------------------------------------------------------------
(* Waiting: cs_thread_check_auth_timeouts, which a timer of the main thread  *)
(* asks for every 5 s.                                                       *)

Expired(t) == t < now

\* Mutation: the timeout of the entry swapped in is not moved with it.
SweepLeavesTimeout(w) ==
  IF Expired(w.timeouts[w.i])
  THEN [w EXCEPT !.items = PopSwap(@, w.i), !.timeouts = Front(@)]
  ELSE [w EXCEPT !.i = @ + 1]

\* One turn of the loop over a list and its timeouts: w.i stays on an entry that
\* was swapped in.
SweepOne(w) ==
  IF Expired(w.timeouts[w.i])
  THEN [w EXCEPT !.items = PopSwap(@, w.i), !.timeouts = PopSwap(@, w.i)]
  ELSE [w EXCEPT !.i = @ + 1]

\* Each turn keeps an entry or removes one, so there are as many as entries.
Sweep(items, timeouts) ==
  LET after[k \in 0 .. Len(timeouts)] ==
        IF k = 0 THEN [i |-> 1, items |-> items, timeouts |-> timeouts] ELSE SweepOne(after[k - 1])
  IN after[Len(timeouts)]

\* Mutation: the clients are forgotten and not dropped.
ForgetExpired(expired) == UNCHANGED <<object, failures>>

\* cs_thread_drop_client for each of them; a freed one may name other clients.
DropExpired(expired) ==
  \E wrong \in IF expired \subseteq Live THEN {{}} ELSE SUBSET Live :
    LET victims == (expired \cap Live) \cup wrong IN
    \E lost \in SUBSET victims :
      /\ object' = [o \in Objects |->
           IF o \in victims /\ object[o].drop # "pushed"
           THEN [object[o] EXCEPT !.drop = IF o \in lost THEN "failed" ELSE "pushed"]
           ELSE object[o]]
      /\ Spend(Cardinality(lost))

CheckAuthTimeouts ==
  LET keptAuths   == Sweep(auths, authTimeouts)
      keptClients == Sweep(awaiting, awaitingTimeouts)
  IN
  /\ auths' = keptAuths.items /\ authTimeouts' = keptAuths.timeouts
  /\ awaiting' = keptClients.items /\ awaitingTimeouts' = keptClients.timeouts
  /\ DropExpired({awaiting[i] : i \in {j \in DOMAIN awaiting : Expired(awaitingTimeouts[j])}})
  /\ UNCHANGED <<clients, now, db, toMain, csQueue, tally, granted, admitted, again>>

Tick ==
  /\ now < MaxTime
  /\ now' = now + 1
  /\ UNCHANGED <<object, lists, db, toMain, csQueue, tally, failures, granted, admitted, again>>

-----------------------------------------------------------------------------
(* Requests of a client: the other handlers of cs_thread_handle_packet, which *)
(* drops the client whenever one of them fails.                              *)

\* Push a query for client o, or drop it.
Ask(o, q) ==
  \/ dbQueue' = Append(dbQueue, q) /\ UNCHANGED <<object, failures>>
  \/ DropAfter(1, o) /\ UNCHANGED dbQueue

MayCreate(c) == c.authed /\ c.isNameApproved

\* A packet that asks for zop; the account is the client's, the name the packet's.
Request(o, zop, name) ==
  /\ requests < MaxRequests /\ requests' = requests + 1
  /\ Ask(o, Query(zop, o, object[o].accountId, name))
  /\ UNCHANGED <<lists, now, batch, characters, toMain, csQueue, opened, logins,
                 granted, admitted, again>>

OpNameApproval(o, name) == object[o].authed /\ Request(o, "NameAvailable", name)

\* The data of the character are valid: see OpRefused.
OpCreateCharacter(o, name) == MayCreate(object[o]) /\ Request(o, "CharacterCreate", name)

OpDeleteCharacter(o, name) == object[o].authed /\ Request(o, "CharacterDelete", name)

\* OP_CS_Enter: "Don't let the client try to queue multiple zone ins at once"
OpEnter(o, name) ==
  LET c == object[o] IN
  /\ requests < MaxRequests /\ requests' = requests + 1
  /\ ~c.isZoning /\ c.authed
  /\ \/ /\ toMain' = toMain \cup {Query("Zone", o, c.accountId, name)}
        /\ object' = [object EXCEPT ![o].isZoning = TRUE]
        /\ UNCHANGED failures
     \/ DropAfter(1, o) /\ UNCHANGED toMain
  /\ UNCHANGED <<lists, now, db, csQueue, opened, logins, granted, admitted, again>>

\* A packet that is too short or comes from a client that is not authorized (yet),
\* a character whose race, class and stats do not go together, OP_CS_Enter while
\* zoning; and any packet, OP_CS_GuildList and the echoes too, whose answer does
\* not fit the UDP thread's queue.
OpRefused(o) ==
  /\ requests < MaxRequests /\ requests' = requests + 1
  /\ Drop(o)
  /\ UNCHANGED <<lists, now, db, toMain, csQueue, opened, logins, granted, admitted, again>>

Packet(o) ==
  \/ \E account \in Accounts, key \in Keys : OpLoginInfo(o, account, key)
  \/ \E name \in Names :
       \/ OpNameApproval(o, name) \/ OpCreateCharacter(o, name) \/ OpDeleteCharacter(o, name)
       \/ OpEnter(o, name)
  \/ OpRefused(o)

-----------------------------------------------------------------------------
(* The database thread drains its queue and runs the writes it found, then   *)
(* the reads (db_thread_execute_queries).                                    *)
IsWrite(q) == q.zop \in {"CharacterCreate", "CharacterDelete"}

DbDrain ==
  /\ batch = <<>> /\ dbQueue # <<>>
  /\ batch' = dbQueue
  /\ dbQueue' = <<>>
  /\ UNCHANGED <<object, lists, now, characters, toMain, csQueue, tally, failures,
                 granted, admitted, again>>

\* The first of the writes, then of the reads, in the order they were queued.
NextInBatch ==
  LET writes == {k \in DOMAIN batch : IsWrite(batch[k])} IN
  IF writes = {} THEN 1 ELSE Min(writes)

\* dbw_cs_character_create inserts a row (name is indexed, not unique), and
\* dbw_cs_character_delete removes every row of that account and name.
AfterWrite(q) ==
  CASE q.zop = "CharacterCreate" -> characters \cup {[account |-> q.account, name |-> q.name]}
    [] q.zop = "CharacterDelete" -> characters \ {[account |-> q.account, name |-> q.name]}
    [] OTHER -> characters

\* dbr_cs_character_name_available; the rows dbr_cs_character_info reads are only
\* shown to the client.
Answer(q, hadError) ==
  [zop |-> q.zop, client |-> q.client, account |-> q.account, hadError |-> hadError,
   isNameAvailable |-> ~hadError /\ q.zop = "NameAvailable"
                       /\ \A row \in characters : row.name # q.name]

\* A statement that fails is answered as such; an answer may fail to be pushed, or
\* say hadErrorUnprocessed, which names no client and is only logged.
DbExecute ==
  /\ batch # <<>> /\ batch' = RemoveAt(batch, NextInBatch)
  /\ LET q == batch[NextInBatch] IN
     \/ /\ characters' = AfterWrite(q)
        /\ csQueue' = Append(csQueue, Answer(q, FALSE))
        /\ UNCHANGED failures
     \/ /\ csQueue' = Append(csQueue, Answer(q, TRUE))
        /\ Spend(1) /\ UNCHANGED characters
     \/ /\ characters' \in {characters, AfterWrite(q)}
        /\ Spend(1) /\ UNCHANGED csQueue
  /\ UNCHANGED <<object, lists, now, dbQueue, toMain, tally, granted, admitted, again>>

\* The main thread answers a zone-in with ZoneSuccess or ZoneFailure, or not at
\* all when its push fails.
MainAnswers ==
  /\ \E q \in toMain :
       /\ toMain' = toMain \ {q}
       /\ \/ /\ \E hadError \in BOOLEAN : csQueue' = Append(csQueue, Answer(q, hadError))
             /\ UNCHANGED failures
          \/ Spend(1) /\ UNCHANGED csQueue
  /\ UNCHANGED <<object, lists, now, db, tally, granted, admitted, again>>

-----------------------------------------------------------------------------
(* Answers.                                                                  *)

\* cs_thread_trigger_send_char_info for the account the client has by then.
InfoQueries(o) ==
  {Query("CharacterInfo", o, account, None) :
     account \in {x \in Accounts \cup {None} : MayRead(o, "accountId", x)}}

\* cs_thread_check_db_error: "for CharSelectClient that no longer exists"
AnswerUnclaimed(r) ==
  /\ ~IsClientValid(r.client)
  /\ UNCHANGED <<object, dbQueue, failures>>

\* A failed query, or (for those that look) a client that was never authorized:
\* cs_thread_add_authed_client had failed after listing it.
AnswerDrops(r) ==
  /\ IsClientValid(r.client)
  /\ \/ r.zop \in {"CharacterInfo", "NameAvailable", "CharacterDelete"} /\ r.hadError
     \/ r.zop \in {"CharacterInfo", "NameAvailable"} /\ MayRead(r.client, "authed", FALSE)
  /\ Drop(r.client)
  /\ UNCHANGED dbQueue

\* Packets are scheduled for the client, or it is dropped.
Show(o) ==
  /\ UNCHANGED dbQueue
  /\ UNCHANGED <<object, failures>> \/ DropAfter(1, o)

\* cs_thread_handle_db_character_info: the character list.
AnswerInfo(r) ==
  /\ IsClientValid(r.client)
  /\ r.zop = "CharacterInfo" /\ ~r.hadError /\ MayRead(r.client, "authed", TRUE)
  /\ Show(r.client)

\* cs_thread_handle_zone_success and _failure: the zone's address or "zone
\* unavailable".  isZoning stays set either way.
AnswerZone(r) ==
  /\ IsClientValid(r.client)
  /\ r.zop = "Zone"
  /\ Show(r.client)

AnswerName(r) ==
  LET o == r.client IN
  /\ IsClientValid(o)
  /\ r.zop = "NameAvailable" /\ ~r.hadError /\ MayRead(o, "authed", TRUE)
  /\ \/ /\ object' = Write(o, [object[o] EXCEPT !.isNameApproved = r.isNameAvailable])
        /\ UNCHANGED failures
     \/ DropAfter(1, o)
  /\ UNCHANGED dbQueue

\* "Reset the name approval flag", then a refusal or the new list.
AnswerCreated(r) ==
  LET o == r.client IN
  /\ IsClientValid(o)
  /\ r.zop = "CharacterCreate"
  /\ \/ /\ object' = Write(o, [object[o] EXCEPT !.isNameApproved = FALSE])
        /\ dbQueue' \in IF r.hadError THEN {dbQueue} ELSE {Append(dbQueue, q) : q \in InfoQueries(o)}
        /\ UNCHANGED failures
     \/ /\ UNCHANGED dbQueue
        /\ \E how \in {"pushed", "failed"} :
             /\ object' = Write(o, [object[o] EXCEPT !.isNameApproved = FALSE,
                                     !.drop = IF @ = "pushed" THEN @ ELSE how])
             /\ Spend(IF how = "failed" THEN 2 ELSE 1)

AnswerDeleted(r) ==
  LET o == r.client IN
  /\ IsClientValid(o)
  /\ r.zop = "CharacterDelete" /\ ~r.hadError
  /\ \E q \in InfoQueries(o) : Ask(o, q)

HandleAnswer ==
  /\ csQueue # <<>> /\ csQueue' = Tail(csQueue)
  /\ LET r == Head(csQueue) IN
     \/ AnswerUnclaimed(r) \/ AnswerDrops(r) \/ AnswerInfo(r) \/ AnswerZone(r)
     \/ AnswerName(r) \/ AnswerCreated(r) \/ AnswerDeleted(r)
  /\ UNCHANGED <<lists, now, batch, characters, toMain, tally, granted, admitted, again>>

-----------------------------------------------------------------------------
Init ==
  /\ object = [o \in Objects |-> None]
  /\ clients = <<>> /\ awaiting = <<>> /\ awaitingTimeouts = <<>>
  /\ auths = <<>> /\ authTimeouts = <<>> /\ now = 0
  /\ dbQueue = <<>> /\ batch = <<>> /\ characters = {} /\ toMain = {} /\ csQueue = <<>>
  /\ opened = 0 /\ logins = 0 /\ requests = 0 /\ failures = 0
  /\ granted = [a \in Auths |-> 0] /\ admitted = [a \in Auths |-> 0] /\ again = {}

Next ==
  \/ \E ip \in Ips : NewClient(ip)
  \/ \E o \in Live : Packet(o) \/ Disconnect(o)
  \/ \E a \in Auths : LoginAuth(a)
  \/ CheckAuthTimeouts \/ Tick
  \/ DbDrain \/ DbExecute \/ MainAnswers \/ HandleAnswer

Spec == Init /\ [][Next]_vars

\* Time passes, and the main thread's timer asks for the sweep every 5 s.
FairSpec == Spec /\ WF_vars(Tick) /\ WF_vars(CheckAuthTimeouts)

-----------------------------------------------------------------------------
\* Every object is a CharSelectClient, and each list has as many timeouts as
\* entries.
TypeOK ==
  /\ \A o \in Live : object[o] \in CharSelectClients
  /\ clients \in Seq(Objects) /\ awaiting \in Seq(Objects) /\ auths \in Seq(Auths)
  /\ Len(awaitingTimeouts) = Len(awaiting) /\ Len(authTimeouts) = Len(auths)
  /\ now \in 0 .. MaxTime /\ failures \in 0 .. MaxFailures
  /\ characters \subseteq [account : Accounts \cup {None}, name : Names]

GrantedAccounts == {a.account : a \in {x \in Auths : granted[x] > 0}}

\* An authorisation of the login thread lets in at most one client, from its own
\* address (cs_thread_is_auth_awaiting_client), and whatever is done to the
\* character table or asked of the main thread is done for an account that some
\* authorisation named, however logins, queries and disconnects interleave.
ActsOnGrants ==
  /\ \A a \in Auths : admitted[a] <= granted[a]
  /\ \A o \in Live : object[o].authed => object[o].accountId \in GrantedAccounts
  /\ \A q \in {x \in ToSet(dbQueue) \cup ToSet(batch) : IsWrite(x)} \cup toMain :
       q.account \in GrantedAccounts
  /\ \A row \in characters : row.account \in GrantedAccounts

\* The lists hold no freed object (cs_thread_remove_client_object), so that the
\* thread dereferences none, unless the client sent OP_CS_LoginInfo again while
\* it was listed: then it is listed twice and only one entry is removed.
ListedAreLive == \A o \in ToSet(clients) \cup ToSet(awaiting) : o \in Live \/ o \in again

\* An authorisation comes, and the client is let in, or is dropped because
\* cs_thread_add_authed_client failed.
LetIn(o) == granted' # granted /\ (object'[o].authed \/ object'[o].drop # "none")

\* A client stops waiting only by leaving, by an authorisation that comes and lets
\* it in (cs_thread_handle_login_auth), or when its own 10 s are over: the lists and
\* their timeouts are rearranged alike whatever is removed from them, and no sweep
\* or disconnect of another client ends a wait.  A client that sent OP_CS_LoginInfo
\* again has several waits.
NoneExpiredEarly ==
  [][\A o \in ToSet(awaiting) \ ToSet(awaiting') :
       o \in again \/ o \notin Live' \/ LetIn(o) \/ now > object[o].until]_vars

\* No client waits for ever: it is authorized, or dropped (the push of DropClient
\* may fail), or gone.
WaitersEnd ==
  \A o \in Objects :
    o \in ToSet(awaiting) ~> (o \in Live => object[o].authed \/ object[o].drop # "none")
=============================================================================
