-------------------------------- MODULE World --------------------------------
(***************************************************************************)
(* The main thread: loading the characters that enter the world from char  *)
(* select (client_mgr.c), placing them on zone threads (zone_mgr.c), and   *)
(* shutting all threads down one after another (main_thread.c).            *)
(*                                                                         *)
(* The other threads are seen through the main queue: char select asks for *)
(* a character (CharSelect), the database answers, a thread that was told  *)
(* to terminate reports that it has.  What a zone thread does with the     *)
(* Client it is handed is ZoneIn.  A request, its CharSelectClient and the *)
(* Client made for it go by one name.                                      *)
(***************************************************************************)
EXTENDS Naturals, FiniteSets, FiniteSetsExt, SequencesExt

CONSTANTS
  Requests,         \* zone-ins char select asks for over the whole run
  Zones,
  None,             \* no zone yet
  MaxZoneThreads,   \* zmgr->maxZoneThreads: the processors
  MaxSignals,       \* interrupts over the whole run
  MaxFailures       \* pushes, allocations and statements that fail over the whole run

ASSUME WorldAssumption ==
  /\ MaxZoneThreads \in Nat \ {0} /\ MaxSignals \in Nat /\ MaxFailures \in Nat
  /\ None \notin Requests \cup Zones

VARIABLES
  mainQueue,
  shutdownState,    \* mt->shutdownState
  ended,            \* mt_main_loop has returned
  running, told,    \* threads that run, and that were pushed a Terminate
  ztRunning, ztTold,   \* the same for the zone threads
  loading,          \* cmgr->loadingClients
  dbQueue,
  zts, ztCount,     \* zmgr->zoneThreads (slots past the count keep what they held), its count
  byZone,           \* zmgr->ztByZoneId
  created, handed,  \* CreateZone and AddClientExpected pushed to zone threads
  allocated,        \* Clients made and not destroyed (client_destroy_no_zone)
  answers,          \* ZoneSuccess and ZoneFailure pushed to char select
  asked, started, signals, failures,
  lost, unlucky, late   \* what the properties except: see ClientsHaveOneOwner, StoppedInOrder

zmgr  == <<zts, ztCount, byZone, created, started>>
cmgr  == <<loading, handed, allocated, answers, lost, unlucky, late>>
stops == <<shutdownState, ended, running, told, ztRunning, ztTold>>
vars  == <<mainQueue, stops, cmgr, zmgr, dbQueue, asked, signals, failures>>

Services == {"login", "cs", "db", "udp", "log"}

Message(zop, client, zt, zone, hadError) ==
  [zop |-> zop, client |-> client, zt |-> zt, zone |-> zone, hadError |-> hadError]

Signal(zop) == Message(zop, None, 0, None, FALSE)

Spend(n) == failures + n <= MaxFailures /\ failures' = failures + n

\* "Swap and pop"
SwapPop(s, i) == [j \in 1 .. Len(s) - 1 |-> IF j = i THEN s[Len(s)] ELSE s[j]]

-----------------------------------------------------------------------------
(* What reaches the main queue from outside.                                 *)

\* ZOP_MAIN_ZoneFromCharSelect: the char select thread waits for an answer before
\* it lets a client ask again.
AskToZone(c) ==
  /\ "cs" \in running /\ c \notin asked
  /\ asked' = asked \cup {c}
  /\ mainQueue' = Append(mainQueue, Message("ZoneFromCharSelect", c, 0, None, FALSE))
  /\ UNCHANGED <<stops, cmgr, zmgr, dbQueue, signals, failures>>

\* mt_handle_sig_int
Interrupt ==
  /\ signals < MaxSignals /\ ~ended
  /\ signals' = signals + 1
  /\ mainQueue' = Append(mainQueue, Signal("TerminateAll"))
  /\ UNCHANGED <<stops, cmgr, zmgr, dbQueue, asked, failures>>

\* dbr_main_load_character and dbr_main_load_inventory: the row's zone, an error
\* (an unknown character too), or an answer that is lost or unprocessed.
DbAnswer ==
  /\ "db" \in running /\ dbQueue # <<>>
  /\ LET q == Head(dbQueue) IN
     /\ q.zop # "Terminate"
     /\ dbQueue' = Tail(dbQueue)
     /\ \/ /\ \E zone \in IF q.zop = "LoadCharacter" THEN Zones ELSE {None} :
                mainQueue' = Append(mainQueue, Message(q.zop, q.client, 0, zone, FALSE))
           /\ UNCHANGED failures
        \/ /\ mainQueue' = Append(mainQueue, Message(q.zop, q.client, 0, None, TRUE))
           /\ UNCHANGED failures
        \/ Spend(1) /\ UNCHANGED mainQueue
  /\ UNCHANGED <<stops, cmgr, zmgr, asked, signals>>

\* A thread that finds Terminate in its queue reports and returns; the push is
\* not checked.
Report(m) ==
  \/ mainQueue' = Append(mainQueue, m) /\ UNCHANGED failures
  \/ Spend(1) /\ UNCHANGED mainQueue

ServiceStops(t) ==
  /\ t \in running \cap told
  /\ t = "db" => Head(dbQueue).zop = "Terminate"
  /\ running' = running \ {t}
  /\ Report(Signal(t))
  /\ UNCHANGED <<shutdownState, ended, told, ztRunning, ztTold, cmgr, zmgr, dbQueue, asked, signals>>

ZoneThreadStops(z) ==
  /\ z \in ztRunning \cap ztTold
  /\ ztRunning' = ztRunning \ {z}
  /\ Report(Message("ZoneThread", None, z, None, FALSE))
  /\ UNCHANGED <<shutdownState, ended, running, told, ztTold, cmgr, zmgr, dbQueue, asked, signals>>

-----------------------------------------------------------------------------
(* cmgr_handle_zone_from_char_select.                                        *)

Loading(c) == [client |-> c, completed |-> 0, zone |-> None]
Query(zop, c) == [zop |-> zop, client |-> c]

IsLoading(c) == \E i \in DOMAIN loading : loading[i].client = c
LoadingIndex(c) == SelectInSeq(loading, LAMBDA l : l.client = c)

\* Mutation: nobody is told.
RefuseSilently(sent, c, n) == answers' = sent /\ Spend(n)

\* ZoneFailure for c's char select client, after the answers sent and n failures.
Refuse(sent, c, n) ==
  \/ answers' = sent \cup {[client |-> c, ok |-> FALSE]} /\ Spend(n)
  \/ answers' = sent /\ Spend(n + 1)

\* The new entry goes to index cmgr->clientCount, which nothing ever increments,
\* and the count becomes that plus one: a client still loading is overwritten.
StartLoading(c) ==
  /\ loading' = <<Loading(c)>>
  /\ lost' = lost \cup {l.client : l \in ToSet(loading)}
  /\ dbQueue' = dbQueue \o <<Query("LoadCharacter", c), Query("LoadInventory", c)>>
  /\ allocated' = allocated \cup {c}
  /\ UNCHANGED <<answers, failures>>

\* Out of memory, or the first or second query cannot be pushed.  Past the
\* allocation the count goes back to cmgr->clientCount.
FailToLoad(c) ==
  /\ \/ UNCHANGED <<loading, lost, dbQueue>>
     \/ /\ loading' = <<>>
        /\ lost' = lost \cup {l.client : l \in ToSet(loading)}
        /\ dbQueue' \in {dbQueue, Append(dbQueue, Query("LoadCharacter", c))}
  /\ UNCHANGED allocated
  /\ Refuse(answers, c, 1)

ZoneFromCharSelect(c) ==
  /\ StartLoading(c) \/ FailToLoad(c)
  /\ mainQueue' = Tail(mainQueue)
  /\ UNCHANGED <<stops, zmgr, handed, unlucky, late>>

-----------------------------------------------------------------------------
(* zone_mgr.c: where a client that goes to a zone is placed.                 *)

Score(z) == z.zoneCount * 25 + z.clientCount

\* zmgr_add_zt, as the last of the threads
WithNewThread ==
  [zts |-> [i \in 1 .. Max({Len(zts), ztCount + 1}) |->
     IF i = ztCount + 1 THEN [zt |-> started + 1, zoneCount |-> 0, clientCount |-> 0] ELSE zts[i]],
   count |-> ztCount + 1, at |-> ztCount + 1, spent |-> 0]

\* zmgr_select_best_zt_for_new_zone: "Prefer to make a new ZoneThread if we haven't
\* hit our cap yet", else (or if that fails) the first of those with the lowest
\* score; at is 0 when there is none.
Selections ==
  LET best == {i \in 1 .. ztCount : \A j \in 1 .. ztCount : Score(zts[i]) <= Score(zts[j])}
      existing == [zts |-> zts, count |-> ztCount, at |-> IF best = {} THEN 0 ELSE Min(best),
                   spent |-> IF ztCount < MaxZoneThreads THEN 1 ELSE 0]
  IN {existing} \cup (IF ztCount < MaxZoneThreads THEN {WithNewThread} ELSE {})

\* Mutation: any zone that runs will do.
AnyZone(zone) == IF byZone = <<>> THEN 0 ELSE 1

\* "Check if we have this zone running already"
KnownZone(zone) == SelectInSeq(byZone, LAMBDA b : b.zone = zone)

\* ZOP_ZONE_CreateZone, which a thread does not see behind a Terminate.
CreateZone(zt, zone) == IF zt \in ztTold THEN {} ELSE {[zt |-> zt, zone |-> zone]}

\* zmgr_get_or_start_zone: the thread that runs the zone already, or a selected
\* one, which is told to create the zone (ok) or cannot be (the mapping is then
\* written past the count, and the thread may have been started for nothing).
Placements(zone) ==
  LET known == KnownZone(zone) IN
  IF known # 0
  THEN {[zts |-> zts, count |-> ztCount, at |-> byZone[known].ztIndex, spent |-> 0,
         byZone |-> byZone, created |-> created]}
  ELSE {[zts |-> [p.zts EXCEPT ![p.at].zoneCount = @ + 1], count |-> p.count, at |-> p.at,
         spent |-> p.spent, byZone |-> Append(byZone, [zone |-> zone, ztIndex |-> p.at]),
         created |-> created \cup CreateZone(p.zts[p.at].zt, zone)] :
          p \in {x \in Selections : x.at # 0}}
   \cup {[zts |-> p.zts, count |-> p.count, at |-> 0,
          spent |-> IF p.at = 0 THEN p.spent ELSE p.spent + 1,
          byZone |-> byZone, created |-> created] : p \in Selections}

\* The zone manager takes on placement p, and zone threads it started run.
Place(p) ==
  /\ zts' = p.zts /\ ztCount' = p.count /\ byZone' = p.byZone /\ created' = p.created
  /\ started' = IF p.count > ztCount THEN started + 1 ELSE started
  /\ ztRunning' = IF p.count > ztCount THEN ztRunning \cup {started + 1} ELSE ztRunning
  /\ late' = IF p.count > ztCount /\ shutdownState >= 3 THEN late \cup {started + 1} ELSE late

-----------------------------------------------------------------------------
(* cmgr_handle_load_character and _load_inventory.                           *)

\* Mutation: the entry stays in the list.
DropInPlace(sent, c, n) ==
  /\ allocated' = allocated \ {c}
  /\ UNCHANGED loading
  /\ Refuse(sent, c, n)

\* cmgr_drop_loading_client
DropLoadingClient(sent, c, n) ==
  /\ allocated' = allocated \ {c}
  /\ loading' = SwapPop(loading, LoadingIndex(c))
  /\ Refuse(sent, c, n)

\* cmgr_check_client_load_complete with both queries done: the zone manager is
\* asked first, then char select is told, then the entry is removed.  The zone
\* thread has the Client from the first on ("IT IS NO LONGER SAFE TO DEREFERENCE
\* THE CLIENT PAST THIS POINT"), and a failure of the second or third destroys it.
LoadComplete(c, zone) ==
  \E p \in Placements(zone) :
    LET to == [client |-> c, zt |-> p.zts[p.at].zt, zone |-> zone, late |-> shutdownState >= 3]
        success == answers \cup {[client |-> c, ok |-> TRUE]}
    IN
    /\ Place(IF p.at = 0 THEN p ELSE [p EXCEPT !.zts[p.at].clientCount = @ + 1])
    /\ \/ /\ p.at = 0
          /\ DropLoadingClient(answers, c, p.spent)
          /\ UNCHANGED <<handed, unlucky>>
       \/ /\ p.at # 0
          /\ DropLoadingClient(answers, c, p.spent + 1)
          /\ UNCHANGED <<handed, unlucky>>
       \/ /\ p.at # 0
          /\ handed' = handed \cup {to}
          /\ answers' = success
          /\ loading' = SwapPop(loading, LoadingIndex(c))
          /\ Spend(p.spent)
          /\ UNCHANGED <<allocated, unlucky>>
       \/ /\ p.at # 0
          /\ handed' = handed \cup {to}
          /\ unlucky' = unlucky \cup {c}
          /\ \E sent \in {answers, success} : DropLoadingClient(sent, c, p.spent + 1)

LoadAnswered(m) ==
  LET c == m.client
      l == loading[LoadingIndex(c)]
      now == [l EXCEPT !.completed = @ + 1, !.zone = IF m.zone = None THEN @ ELSE m.zone]
      noZoneYet == <<zmgr, ztRunning, late, handed, unlucky>>
  IN
  /\ \/ /\ ~IsLoading(c)
        /\ UNCHANGED <<loading, allocated, answers, failures, noZoneYet>>
     \/ /\ IsLoading(c) /\ m.hadError
        /\ DropLoadingClient(answers, c, 0)
        /\ UNCHANGED noZoneYet
     \/ /\ IsLoading(c) /\ ~m.hadError /\ m.zop = "LoadInventory"   \* inv_from_db fails
        /\ DropLoadingClient(answers, c, 1)
        /\ UNCHANGED noZoneYet
     \/ /\ IsLoading(c) /\ ~m.hadError /\ now.completed < 2
        /\ loading' = [loading EXCEPT ![LoadingIndex(c)] = now]
        /\ UNCHANGED <<allocated, answers, failures, noZoneYet>>
     \/ /\ IsLoading(c) /\ ~m.hadError /\ now.completed = 2
        /\ LoadComplete(c, now.zone)
  /\ mainQueue' = Tail(mainQueue)
  /\ UNCHANGED <<shutdownState, ended, running, told, ztTold, dbQueue, lost>>

-----------------------------------------------------------------------------
(* Shutting down.                                                            *)

\* Terminate for the threads in ts, each push unchecked, after n failures.
Tell(ts, n) ==
  \E heard \in SUBSET ts :
    /\ told' = told \cup heard
    /\ dbQueue' = IF "db" \in heard THEN Append(dbQueue, Query("Terminate", None)) ELSE dbQueue
    /\ Spend(n + Cardinality(ts \ heard))

\* mt_on_all_zone_threads_shut_down; CsDown has gone from state 2 to 3 when it calls it.
AllZoneThreadsDown(n) ==
  IF shutdownState \in {2, 3}
  THEN shutdownState' = 4 /\ Tell({"db", "udp"}, n)
  ELSE UNCHANGED <<shutdownState, told, dbQueue>> /\ Spend(n)

\* Mutation: with no zone thread to wait for, their report is waited for all the same.
CsDownWaits ==
  /\ shutdownState' = 3
  /\ ztTold' = ztTold \cup {zts[i].zt : i \in 1 .. ztCount}
  /\ UNCHANGED <<told, dbQueue, failures>>

\* mt_on_cs_thread_shut_down, with zmgr_send_shutdown_signals
CsDown ==
  \/ /\ ztCount = 0
     /\ AllZoneThreadsDown(0)
     /\ UNCHANGED ztTold
  \/ /\ ztCount > 0
     /\ shutdownState' = 3
     /\ \E heard \in SUBSET (1 .. ztCount) :
          /\ ztTold' = ztTold \cup {zts[i].zt : i \in heard}
          /\ Spend(ztCount - Cardinality(heard))
     /\ UNCHANGED <<told, dbQueue>>

\* Mutation: the log thread is stopped with one of them still running.
AfterFirst(state) == IF state + 1 = 5 THEN {"log"} ELSE {}

\* mt_on_db_udp_thread_shut_down
AfterDbUdp(state) == IF state + 1 = 6 THEN {"log"} ELSE {}

\* The report of a service, or the signal, counts only in the state that waits for it.
ServiceDown(t) ==
  /\ \/ /\ t = "TerminateAll" /\ shutdownState = 0
        /\ shutdownState' = 1 /\ Tell({"login"}, 0)
        /\ UNCHANGED <<ended, ztTold>>
     \/ /\ t = "TerminateAll" /\ shutdownState # 0
        /\ UNCHANGED <<shutdownState, ended, told, ztTold, dbQueue, failures>>
     \/ /\ t = "login" /\ shutdownState = 1
        /\ shutdownState' = 2 /\ Tell({"cs"}, 0)
        /\ UNCHANGED <<ended, ztTold>>
     \/ /\ t = "cs" /\ shutdownState = 2
        /\ CsDown
        /\ UNCHANGED ended
     \/ /\ t \in {"db", "udp"} /\ shutdownState >= 4
        /\ shutdownState' = shutdownState + 1
        /\ Tell(AfterDbUdp(shutdownState), 0)
        /\ UNCHANGED <<ended, ztTold>>
     \/ /\ t = "log"
        /\ ended' = TRUE
        /\ UNCHANGED <<shutdownState, told, ztTold, dbQueue, failures>>
  /\ mainQueue' = Tail(mainQueue)
  /\ UNCHANGED <<running, ztRunning, cmgr, zmgr>>

\* zmgr_on_zone_thread_shutdown, with zt_destroy: each zone of the thread is
\* reported to the main queue, unchecked, and the last thread takes its place.
\* What the other slots' zones know as their thread's index is left as it is.
ZoneThreadDown(z) ==
  LET i == CHOOSE j \in 1 .. ztCount : zts[j].zt = z
      zones == {c.zone : c \in {x \in created : x.zt = z}}
  IN
  /\ zts' = [zts EXCEPT ![i] = zts[ztCount]]
  /\ ztCount' = ztCount - 1
  /\ \E heard \in SUBSET zones :
       LET n == Cardinality(zones \ heard) IN
       /\ mainQueue' = Tail(mainQueue) \o
            SetToSeq({Message("RemoveZone", None, 0, zone, FALSE) : zone \in heard})
       /\ \/ ztCount = 1 /\ AllZoneThreadsDown(n)
          \/ ztCount > 1 /\ Spend(n) /\ UNCHANGED <<shutdownState, told, dbQueue>>
  /\ UNCHANGED <<ended, running, ztRunning, ztTold, byZone, created, started, cmgr>>

\* zmgr_on_remove_zone: the count is that of the slot the zone was placed in,
\* whichever thread is there now, and wraps below zero.
RemoveZone(zone) ==
  LET b == KnownZone(zone) IN
  /\ zts' = [zts EXCEPT ![byZone[b].ztIndex].zoneCount = (@ + 2 ^ 16 - 1) % 2 ^ 16]
  /\ byZone' = SwapPop(byZone, b)
  /\ mainQueue' = Tail(mainQueue)
  /\ UNCHANGED <<stops, cmgr, ztCount, created, started, dbQueue, failures>>

-----------------------------------------------------------------------------

\* mt_process_commands, one message
MainStep ==
  /\ ~ended /\ mainQueue # <<>>
  /\ LET m == Head(mainQueue) IN
     \/ m.zop = "ZoneFromCharSelect" /\ ZoneFromCharSelect(m.client)
     \/ m.zop \in {"LoadCharacter", "LoadInventory"} /\ LoadAnswered(m)
     \/ m.zop = "ZoneThread" /\ ZoneThreadDown(m.zt)
     \/ m.zop = "RemoveZone" /\ RemoveZone(m.zone)
     \/ ServiceDown(m.zop)
  /\ UNCHANGED <<asked, signals>>

Init ==
  /\ mainQueue = <<>> /\ dbQueue = <<>> /\ loading = <<>>
  /\ shutdownState = 0 /\ ended = FALSE
  /\ running = Services /\ told = {} /\ ztRunning = {} /\ ztTold = {}
  /\ zts = <<>> /\ ztCount = 0 /\ byZone = <<>>
  /\ created = {} /\ handed = {} /\ allocated = {} /\ answers = {}
  /\ asked = {} /\ started = 0 /\ signals = 0 /\ failures = 0
  /\ lost = {} /\ unlucky = {} /\ late = {}

Next ==
  \/ \E c \in Requests : AskToZone(c)
  \/ Interrupt
  \/ DbAnswer
  \/ \E t \in Services : ServiceStops(t)
  \/ \E z \in ztRunning : ZoneThreadStops(z)
  \/ MainStep

Spec == Init /\ [][Next]_vars

\* The threads that pop one packet per permit (ringbuf_wait_for_packet): nothing is
\* assumed of when they find their Terminate, see RingBufSingle.
Sleepers == {"login", "cs", "log"}

\* The main, UDP and zone threads poll their queues every 25 ms, and the database
\* thread drains its own whenever it is woken.
FairSpec ==
  /\ Spec
  /\ WF_vars(MainStep) /\ WF_vars(DbAnswer)
  /\ \A t \in Services \ Sleepers : WF_vars(ServiceStops(t))
  /\ \A z \in 1 .. Cardinality(Requests) : WF_vars(ZoneThreadStops(z))

-----------------------------------------------------------------------------

\* A Client made for a zone-in (client_create_unloaded) is held by the loading list
\* or by one zone thread, and by one of them until it is destroyed: none is destroyed
\* while it is listed or handed over.  Excepted are the entries a second zone-in
\* overwrites (lost) and the Clients destroyed after they were handed over because
\* char select could not be told (unlucky): see the hazards.
ClientsHaveOneOwner ==
  LET listed == {l.client : l \in ToSet(loading)}
      zoned == {h.client : h \in handed}
  IN
  /\ listed \cup (zoned \ unlucky) \subseteq allocated
  /\ allocated \subseteq listed \cup zoned \cup lost
  /\ listed \cap (zoned \cup lost) = {} /\ zoned \cap lost = {}
  /\ \A h1, h2 \in handed : h1.client = h2.client => h1 = h2

\* Until the zone threads are told to stop, a Client is handed to the thread that
\* was told to create the Client's zone (zmgr_get_or_start_zone), never to another.
HandedToItsZone ==
  \A h \in handed : h.late \/ [zt |-> h.zt, zone |-> h.zone] \in created

\* Threads stop in the order of their dependencies, whatever is interrupted when:
\* the login thread before the char select thread, both and all zone threads before
\* the database and UDP threads, and the log thread last of all.  Excepted is a
\* zone thread started for a load that completes while the zone threads stop (late).
StoppedInOrder ==
  /\ "login" \in running => "cs" \in running
  /\ running \cap {"login", "cs"} # {} \/ ~(ztRunning \subseteq late) => {"db", "udp"} \subseteq running
  /\ running # {} \/ ~(ztRunning \subseteq late) => "log" \in running

\* Every zone-in is answered with ZoneSuccess or ZoneFailure, shutdown or not,
\* unless a push or an allocation failed or another zone-in overwrote it.
RequestsEnd ==
  \A c \in Requests :
    c \in asked ~> \/ \E a \in answers : a.client = c
                   \/ c \in lost \/ failures > 0

\* A thread was pushed its Terminate and never pops it.
SleepsForEver(t) == [](t \in running \cap told)

\* Once interrupted, the main loop ends, unless a push failed, a zone thread was
\* started too late to be told, or a thread that pops one packet per permit sleeps
\* beside its Terminate: nothing else holds up the chain of reports.
ShutdownEnds ==
  shutdownState > 0 ~> \/ ended \/ late # {} \/ failures > 0
                       \/ \E t \in Sleepers : SleepsForEver(t)
=============================================================================
