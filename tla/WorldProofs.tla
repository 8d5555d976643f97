----------------------------- MODULE WorldProofs -----------------------------
(***************************************************************************)
(* For any number of zone-ins, zones and zone threads, whatever fails and  *)
(* whenever the server is interrupted: a Client has one owner, it is       *)
(* handed to the thread that runs its zone, and the threads stop in the    *)
(* order of their dependencies.                                            *)
(***************************************************************************)
EXTENDS World, FiniteSetTheorems, SequenceTheorems, TLAPS

-----------------------------------------------------------------------------
(* The inductive invariant.                                                *)

Zops == Services \cup {"TerminateAll", "ZoneFromCharSelect", "LoadCharacter", "LoadInventory",
                       "ZoneThread", "RemoveZone"}

MaybeZone == Zones \cup {None}

MessageSet == [zop : Zops, client : Requests \cup {None}, zt : Nat, zone : MaybeZone,
               hadError : BOOLEAN]
QuerySet == [zop : {"LoadCharacter", "LoadInventory", "Terminate"}, client : Requests \cup {None}]
ThreadSet == [zt : Nat, zoneCount : Nat, clientCount : Nat]
PlaceSet == [zone : MaybeZone, ztIndex : Nat \ {0}]
CreatedSet == [zt : Nat, zone : MaybeZone]
LoadingSet == [client : Requests, completed : Nat, zone : MaybeZone]

\* The elements of a queue or list.
Elements(s) == {s[k] : k \in 1 .. Len(s)}

TypeInv ==
  /\ mainQueue \in Seq(MessageSet) /\ dbQueue \in Seq(QuerySet)
  /\ shutdownState \in Nat /\ running \subseteq Services /\ told \subseteq Services
  /\ zts \in Seq(ThreadSet) /\ ztCount \in 0 .. Len(zts) /\ started \in Nat
  /\ byZone \in Seq(PlaceSet) /\ created \subseteq CreatedSet /\ IsFiniteSet(created)
  /\ loading = <<>> \/ \E l \in LoadingSet : loading = <<l>>

\* Both announce the same thing: a thread that stopped, or a zone-in.
SameNews(m, n) ==
  /\ m.zop = n.zop
  /\ \/ m.zop \in Services
     \/ m.zop = "ZoneThread" /\ m.zt = n.zt
     \/ m.zop = "ZoneFromCharSelect" /\ m.client = n.client

\* No news twice.
NewsOnce(q) == \A j, k \in 1 .. Len(q) : SameNews(q[j], q[k]) => j = k

\* Who is told, and who has stopped, in each state of the shutdown.
ShutdownInv ==
  /\ Services \ told \subseteq running
  /\ \A m \in Elements(mainQueue) :
       /\ m.zop \in Services => m.zop \notin running
       /\ m.zop \in {"ZoneThread", "RemoveZone"} => shutdownState >= 3
  /\ "login" \in told => shutdownState >= 1
  /\ "cs" \in told => shutdownState >= 2
  /\ "db" \in told \/ "udp" \in told => shutdownState >= 4
  /\ "log" \in told => shutdownState >= 6
  /\ shutdownState >= 2 => "login" \notin running
  /\ shutdownState >= 3 => "cs" \notin running
  /\ shutdownState >= 4 => ztRunning \subseteq late
  /\ shutdownState = 5 => \E t \in {"db", "udp"} :
       t \notin running /\ \A m \in Elements(mainQueue) : m.zop # t
  /\ shutdownState >= 6 =>
       /\ "db" \notin running /\ "udp" \notin running
       /\ \A m \in Elements(mainQueue) : m.zop \notin {"db", "udp"}

\* The zone threads that run are listed, once each, until they report.
Listed(z) == \E i \in 1 .. ztCount : zts[i].zt = z

ThreadInv ==
  /\ \A i \in 1 .. ztCount : zts[i].zt <= started
  /\ \A i, j \in 1 .. ztCount : zts[i].zt = zts[j].zt => i = j
  /\ \A z \in ztRunning : Listed(z)
  /\ \A m \in Elements(mainQueue) :
       m.zop = "ZoneThread" => Listed(m.zt) /\ m.zt \notin ztRunning
  /\ ztTold # {} => shutdownState >= 3

\* The zone manager knows where each zone is, until the threads stop.
PlaceInv ==
  \A k \in 1 .. Len(byZone) :
    /\ byZone[k].ztIndex \in 1 .. Len(zts)
    /\ shutdownState < 3 =>
         /\ byZone[k].ztIndex <= ztCount
         /\ [zt |-> zts[byZone[k].ztIndex].zt, zone |-> byZone[k].zone] \in created

\* The clients that have been seen beyond the main queue.
Seen == allocated \cup {l.client : l \in ToSet(loading)} \cup {h.client : h \in handed} \cup lost

\* A zone-in is new when it is taken from the queue.
RequestInv ==
  /\ Seen \subseteq asked
  /\ \A m \in Elements(mainQueue) :
       m.zop = "ZoneFromCharSelect" => m.client \in (Requests \cap asked) \ Seen

IInv ==
  /\ TypeInv /\ NewsOnce(mainQueue) /\ ShutdownInv /\ ThreadInv /\ PlaceInv /\ RequestInv
  /\ ClientsHaveOneOwner /\ HandedToItsZone

-----------------------------------------------------------------------------
(* Numbers and queues.                                                     *)

\* A set of natural numbers has a least element, and Min is it.
LEMMA MinIs ==
  ASSUME NEW T, T \subseteq Nat, T # {}
  PROVE  Min(T) \in T /\ \A y \in T : Min(T) <= y
<1>1. PICK R : R = OpToRel(<, Nat)  OBVIOUS
<1>2. IsWellFoundedOn(R, Nat)  BY <1>1, NatLessThanWellFounded
<1>3. PICK x \in T : \A y \in T : ~(<<y, x>> \in R)  BY <1>2, WFMin
<1>4. \A a, b \in Nat : a < b => <<a, b>> \in R  BY <1>1 DEF OpToRel
<1>5. \A y \in T : ~(y < x)
  <2>1. x \in Nat /\ \A y \in T : y \in Nat  OBVIOUS
  <2>2. QED  BY <1>3, <1>4, <2>1, Zenon
<1>6. \E z \in T : \A y \in T : z <= y  BY <1>5
<1>7. QED  BY <1>6 DEF Min

\* A message is appended.
LEMMA Appended ==
  ASSUME NEW S, NEW q \in Seq(S), NEW m \in S
  PROVE  Append(q, m) \in Seq(S) /\ Elements(Append(q, m)) = Elements(q) \cup {m}
<1>1. PICK r : r = Append(q, m)  OBVIOUS
<1>2. PICK n \in Nat : n = Len(q)  BY LenProperties
<1>3. r \in Seq(S) /\ Len(r) = n + 1 /\ (\A i \in 1 .. n : r[i] = q[i]) /\ r[n + 1] = m
  BY <1>1, <1>2, AppendProperties
<1>4. \A i \in 1 .. n + 1 : i \in 1 .. n \/ i = n + 1  OBVIOUS
<1>5. \A i \in 1 .. n : i \in 1 .. n + 1  OBVIOUS
<1>6. n + 1 \in 1 .. n + 1  OBVIOUS
<1>7. Elements(r) = Elements(q) \cup {m}  BY <1>2, <1>3, <1>4, <1>5, <1>6 DEF Elements
<1>8. QED  BY <1>1, <1>3, <1>7

\* A message is taken.
LEMMA Taken ==
  ASSUME NEW S, NEW q \in Seq(S), q # <<>>
  PROVE  /\ Tail(q) \in Seq(S) /\ Head(q) \in S
         /\ Elements(q) = Elements(Tail(q)) \cup {Head(q)}
<1>1. PICK r, h : r = Tail(q) /\ h = Head(q)  OBVIOUS
<1>2. PICK n \in Nat \ {0} : n = Len(q)  BY EmptySeq
<1>3. r \in Seq(S) /\ h \in S /\ Len(r) = n - 1 /\ \A i \in 1 .. n - 1 : r[i] = q[i + 1]
  BY <1>1, <1>2, HeadTailProperties
<1>4. h = q[1]  BY <1>1, <1>2
<1>5. \A i \in 1 .. n : i = 1 \/ (i - 1 \in 1 .. n - 1 /\ i - 1 + 1 = i)  OBVIOUS
<1>6. \A i \in 1 .. n - 1 : i + 1 \in 1 .. n  OBVIOUS
<1>7. 1 \in 1 .. n  OBVIOUS
<1>8. \A x \in Elements(q) : x \in Elements(r) \/ x = h
  <2> SUFFICES ASSUME NEW i \in 1 .. n PROVE q[i] \in Elements(r) \/ q[i] = h
    BY <1>2 DEF Elements
  <2>1. CASE i = 1  BY <1>4, <2>1
  <2>2. CASE i # 1
    <3>1. PICK j \in 1 .. n - 1 : j + 1 = i  BY <1>5, <2>2
    <3>2. r[j] = q[i]  BY <1>3, <3>1
    <3>3. QED  BY <1>3, <3>2 DEF Elements
  <2>3. QED  BY <2>1, <2>2
<1>9. \A x \in Elements(r) : x \in Elements(q)  BY <1>2, <1>3, <1>6 DEF Elements
<1>10. h \in Elements(q)  BY <1>2, <1>4, <1>7 DEF Elements
<1>11. Elements(q) = Elements(r) \cup {h}  BY <1>8, <1>9, <1>10
<1>12. QED  BY <1>1, <1>3, <1>11

\* News that nobody has heard is appended, or something that is no news.
LEMMA NewsAppended ==
  ASSUME NEW S, NEW q \in Seq(S), NEW m \in S, NewsOnce(q), \A n \in Elements(q) : ~SameNews(n, m)
  PROVE  NewsOnce(Append(q, m))
<1>1. PICK r : r = Append(q, m)  OBVIOUS
<1>2. PICK l \in Nat : l = Len(q)  BY LenProperties
<1>3. Len(r) = l + 1 /\ (\A i \in 1 .. l : r[i] = q[i]) /\ r[l + 1] = m
  BY <1>1, <1>2, AppendProperties
<1>4. \A i \in 1 .. l + 1 : i \in 1 .. l \/ i = l + 1  OBVIOUS
<1>5. \A i \in 1 .. l : ~SameNews(q[i], m) /\ ~SameNews(m, q[i])
  BY <1>2 DEF Elements, SameNews
<1>6. \A i, j \in 1 .. l : SameNews(q[i], q[j]) => i = j  BY <1>2 DEF NewsOnce
<1>7. ASSUME NEW i \in 1 .. l + 1, NEW j \in 1 .. l + 1, SameNews(r[i], r[j]) PROVE i = j
  <2>1. CASE i \in 1 .. l /\ j \in 1 .. l  BY <1>3, <1>6, <1>7, <2>1
  <2>2. CASE i = l + 1 /\ j = l + 1  BY <2>2
  <2>3. CASE i \in 1 .. l /\ j = l + 1  BY <1>3, <1>5, <1>7, <2>3
  <2>4. CASE i = l + 1 /\ j \in 1 .. l  BY <1>3, <1>5, <1>7, <2>4
  <2>5. QED  BY <1>4, <2>1, <2>2, <2>3, <2>4
<1>8. QED  BY <1>1, <1>3, <1>7 DEF NewsOnce

\* News that is taken is not repeated behind.
LEMMA NewsTaken ==
  ASSUME NEW S, NEW q \in Seq(S), q # <<>>, NewsOnce(q)
  PROVE  NewsOnce(Tail(q)) /\ \A m \in Elements(Tail(q)) : ~SameNews(Head(q), m)
<1>1. PICK r, h : r = Tail(q) /\ h = Head(q)  OBVIOUS
<1>2. PICK n \in Nat \ {0} : n = Len(q)  BY EmptySeq
<1>3. Len(r) = n - 1 /\ \A i \in 1 .. n - 1 : r[i] = q[i + 1]
  BY <1>1, <1>2, HeadTailProperties
<1>4. h = q[1]  BY <1>1, <1>2
<1>5. \A i \in 1 .. n - 1 : i + 1 \in 1 .. n /\ i + 1 # 1 /\ 1 \in 1 .. n  OBVIOUS
<1>6. \A i, j \in 1 .. n : SameNews(q[i], q[j]) => i = j  BY <1>2 DEF NewsOnce
<1>7. ASSUME NEW i \in 1 .. n - 1, NEW j \in 1 .. n - 1, SameNews(r[i], r[j]) PROVE i = j
  <2>1. SameNews(q[i + 1], q[j + 1])  BY <1>3, <1>7
  <2>2. i + 1 = j + 1  BY <1>5, <1>6, <2>1
  <2>3. QED  BY <2>2
<1>8. ASSUME NEW i \in 1 .. n - 1 PROVE ~SameNews(h, r[i])
  <2>1. r[i] = q[i + 1]  BY <1>3
  <2>2. ~SameNews(q[1], q[i + 1])  BY <1>5, <1>6
  <2>3. QED  BY <1>4, <2>1, <2>2
<1>9. NewsOnce(r)  BY <1>3, <1>7 DEF NewsOnce
<1>10. \A m \in Elements(r) : ~SameNews(h, m)  BY <1>3, <1>8 DEF Elements
<1>11. QED  BY <1>1, <1>9, <1>10

\* Two queues one after the other.
LEMMA Concatenated ==
  ASSUME NEW S, NEW q \in Seq(S), NEW r \in Seq(S)
  PROVE  q \o r \in Seq(S) /\ Elements(q \o r) \subseteq Elements(q) \cup Elements(r)
<1>1. PICK s : s = q \o r  OBVIOUS
<1>2. PICK m \in Nat, n \in Nat : m = Len(q) /\ n = Len(r)  BY LenProperties
<1>3. /\ s \in Seq(S) /\ Len(s) = m + n
      /\ \A i \in 1 .. m + n : s[i] = IF i <= m THEN q[i] ELSE r[i - m]
  BY <1>1, <1>2, ConcatProperties
<1>4. ASSUME NEW i \in 1 .. m + n PROVE s[i] \in Elements(q) \cup Elements(r)
  <2>1. CASE i <= m
    <3>1. i \in 1 .. m /\ s[i] = q[i]  BY <1>3, <2>1
    <3>2. QED  BY <1>2, <3>1 DEF Elements
  <2>2. CASE ~(i <= m)
    <3>1. PICK j : j = i - m  OBVIOUS
    <3>2. j \in 1 .. n /\ s[i] = r[j]  BY <1>3, <2>2, <3>1
    <3>3. QED  BY <1>2, <3>2 DEF Elements
  <2>3. QED  BY <2>1, <2>2
<1>5. QED  BY <1>1, <1>3, <1>4 DEF Elements

\* A finite set as a sequence.
LEMMA InSomeOrder ==
  ASSUME NEW T, IsFiniteSet(T), NEW S, T \subseteq S
  PROVE  SetToSeq(T) \in Seq(S) /\ Elements(SetToSeq(T)) \subseteq T
<1>1. PICK n \in Nat : n = Cardinality(T) /\ ExistsBijection(1 .. n, T)  BY FS_CardinalityType
<1>2. \E f \in [1 .. n -> T] : IsInjective(f)
  BY <1>1 DEF ExistsBijection, Bijection, Injection
<1>3. PICK f : f = SetToSeq(T)  OBVIOUS
<1>4. f \in [1 .. n -> T]  BY <1>1, <1>2, <1>3 DEF SetToSeq
<1>5. f \in Seq(S) /\ Len(f) = n  BY <1>4
<1>6. QED  BY <1>3, <1>4, <1>5 DEF Elements

\* No news comes behind the news.
LEMMA NoNewsAppended ==
  ASSUME NEW S, NEW q \in Seq(S), NEW r \in Seq(S), NewsOnce(q),
         \A m \in Elements(r) : m.zop = "RemoveZone"
  PROVE  NewsOnce(q \o r)
<1>1. PICK s : s = q \o r  OBVIOUS
<1>2. PICK m \in Nat, n \in Nat : m = Len(q) /\ n = Len(r)  BY LenProperties
<1>3. /\ s \in Seq(S) /\ Len(s) = m + n
      /\ \A i \in 1 .. m + n : s[i] = IF i <= m THEN q[i] ELSE r[i - m]
  BY <1>1, <1>2, ConcatProperties
<1>4. ASSUME NEW i \in 1 .. m + n, ~(i <= m) PROVE s[i].zop = "RemoveZone"
  <2>1. PICK j : j = i - m  OBVIOUS
  <2>2. j \in 1 .. n /\ s[i] = r[j]  BY <1>3, <1>4, <2>1
  <2>3. QED  BY <1>2, <2>2 DEF Elements
<1>5. \A i, j \in 1 .. m : SameNews(q[i], q[j]) => i = j  BY <1>2 DEF NewsOnce
<1>6. ASSUME NEW i \in 1 .. m + n, NEW j \in 1 .. m + n, SameNews(s[i], s[j]) PROVE i = j
  <2>1. s[i].zop # "RemoveZone" /\ s[j].zop # "RemoveZone"  BY <1>6 DEF SameNews, Services
  <2>2. i <= m /\ j <= m  BY <1>4, <2>1
  <2>3. i \in 1 .. m /\ j \in 1 .. m /\ s[i] = q[i] /\ s[j] = q[j]  BY <1>3, <2>2
  <2>4. QED  BY <1>5, <1>6, <2>3
<1>7. QED  BY <1>1, <1>3, <1>6 DEF NewsOnce

\* What reaches the main queue.
LEMMA AppendStep ==
  ASSUME IInv, NEW m \in MessageSet, mainQueue' = Append(mainQueue, m) \/ mainQueue' = mainQueue,
         \A n \in Elements(mainQueue) : ~SameNews(n, m)
  PROVE  /\ mainQueue' \in Seq(MessageSet) /\ NewsOnce(mainQueue')
         /\ Elements(mainQueue') \subseteq Elements(mainQueue) \cup {m}
<1>1. mainQueue \in Seq(MessageSet) /\ NewsOnce(mainQueue)  BY DEF IInv, TypeInv
<1>2. CASE mainQueue' = mainQueue  BY <1>1, <1>2
<1>3. CASE mainQueue' = Append(mainQueue, m)  BY <1>1, <1>3, Appended, NewsAppended
<1>4. QED  BY <1>2, <1>3

\* mt_process_commands takes a message.
LEMMA TakeStep ==
  ASSUME IInv, mainQueue # <<>>, NEW h, h = Head(mainQueue), NEW q, q = Tail(mainQueue)
  PROVE  /\ q \in Seq(MessageSet) /\ NewsOnce(q)
         /\ Elements(q) \subseteq Elements(mainQueue)
         /\ h \in Elements(mainQueue) /\ h \in MessageSet
         /\ \A m \in Elements(q) : ~SameNews(h, m)
<1>1. mainQueue \in Seq(MessageSet) /\ NewsOnce(mainQueue)  BY DEF IInv, TypeInv
<1>2. QED  BY <1>1, Taken, NewsTaken

-----------------------------------------------------------------------------
(* What the other threads do.                                              *)

\* Steps of the other threads and of time, seen from the main thread: a message m
\* is pushed or not, and a service or a zone thread may have stopped.
LEMMA OutsideInv ==
  ASSUME IInv, NEW m \in MessageSet, mainQueue' = Append(mainQueue, m) \/ mainQueue' = mainQueue,
         \A n \in Elements(mainQueue) : ~SameNews(n, m),
         m.zop \in {"ZoneThread", "RemoveZone"} => shutdownState >= 3,
         m.zop \in Services => m.zop \notin running',
         m.zop = "ZoneThread" => Listed(m.zt) /\ m.zt \notin ztRunning',
         m.zop = "ZoneFromCharSelect" => m.client \in (Requests \cap asked') \ Seen,
         m.zop \in {"db", "udp"} => m.zop \in running,
         dbQueue' \in Seq(QuerySet), asked \subseteq asked',
         running' \subseteq running, running \ told \subseteq running', ztRunning' \subseteq ztRunning,
         UNCHANGED <<shutdownState, ended, told, ztTold, cmgr, zmgr>>
  PROVE  IInv'
<1>1. /\ mainQueue' \in Seq(MessageSet) /\ NewsOnce(mainQueue')
      /\ Elements(mainQueue') \subseteq Elements(mainQueue) \cup {m}
  BY AppendStep
<1>2. UNCHANGED <<shutdownState, told, ztTold, zts, ztCount, byZone, created, started, loading,
                  handed, allocated, lost, unlucky, late>>
  BY DEF cmgr, zmgr
<1>3. TypeInv'
  <2>1. running' \subseteq Services  BY DEF IInv, TypeInv
  <2>2. QED  BY <1>1, <1>2, <2>1 DEF IInv, TypeInv
<1>4. ShutdownInv'
  <2>1. PICK Q, R : Q = Elements(mainQueue) /\ R = Elements(mainQueue')  OBVIOUS
  <2>2. R \subseteq Q \cup {m}  BY <1>1, <2>1
  <2>3. Services \ told' \subseteq running'  BY <1>2 DEF IInv, ShutdownInv
  <2>4. \A n \in R : /\ n.zop \in Services => n.zop \notin running'
                     /\ n.zop \in {"ZoneThread", "RemoveZone"} => shutdownState' >= 3
    BY <1>2, <2>1, <2>2 DEF IInv, ShutdownInv
  <2>5. shutdownState' = 5 => \E t \in {"db", "udp"} : t \notin running' /\ \A n \in R : n.zop # t
    <3>1. HAVE shutdownState' = 5
    <3>2. PICK t \in {"db", "udp"} : t \notin running /\ \A n \in Q : n.zop # t
      BY <1>2, <2>1, <3>1 DEF IInv, ShutdownInv
    <3>3. t \notin running' /\ \A n \in R : n.zop # t  BY <2>2, <3>2
    <3>4. QED  BY <3>3
  <2>6. shutdownState' >= 6 => /\ "db" \notin running' /\ "udp" \notin running'
                               /\ \A n \in R : n.zop \notin {"db", "udp"}
    <3>1. HAVE shutdownState' >= 6
    <3>2. "db" \notin running /\ "udp" \notin running /\ \A n \in Q : n.zop \notin {"db", "udp"}
      BY <1>2, <2>1, <3>1 DEF IInv, ShutdownInv
    <3>3. QED  BY <2>2, <3>2
  <2>7. QED  BY <1>2, <2>1, <2>3, <2>4, <2>5, <2>6 DEF IInv, ShutdownInv
<1>5. ThreadInv'
  <2>1. PICK Q, R : Q = Elements(mainQueue) /\ R = Elements(mainQueue')  OBVIOUS
  <2>2. R \subseteq Q \cup {m}  BY <1>1, <2>1
  <2>3. \A z : Listed(z) => Listed(z)'  BY <1>2 DEF Listed
  <2>4. \A n \in R : n.zop = "ZoneThread" => Listed(n.zt)' /\ n.zt \notin ztRunning'
    BY <2>1, <2>2, <2>3 DEF IInv, ThreadInv
  <2>5. QED  BY <1>2, <2>1, <2>3, <2>4 DEF IInv, ThreadInv
<1>6. PlaceInv'  BY <1>2 DEF IInv, PlaceInv
<1>7. RequestInv'
  <2>1. Seen' = Seen  BY <1>2 DEF Seen
  <2>2. QED  BY <1>1, <2>1 DEF IInv, RequestInv
<1>8. ClientsHaveOneOwner' /\ HandedToItsZone'
  BY <1>2 DEF IInv, ClientsHaveOneOwner, HandedToItsZone
<1>9. QED  BY <1>1, <1>3, <1>4, <1>5, <1>6, <1>7, <1>8 DEF IInv

\* ZOP_MAIN_ZoneFromCharSelect is pushed.
LEMMA AskToZoneInv ==
  ASSUME IInv, NEW c \in Requests, AskToZone(c)
  PROVE  IInv'
<1>1. PICK m : m = Message("ZoneFromCharSelect", c, 0, None, FALSE)  OBVIOUS
<1>2. /\ c \notin asked /\ asked' = asked \cup {c} /\ mainQueue' = Append(mainQueue, m)
      /\ UNCHANGED <<stops, cmgr, zmgr, dbQueue>>
  BY <1>1 DEF AskToZone
<1>3. m \in MessageSet /\ m.zop = "ZoneFromCharSelect" /\ m.client = c
  BY <1>1 DEF Message, MessageSet, Zops, MaybeZone
<1>4. c \notin Seen  BY <1>2 DEF IInv, RequestInv
<1>5. \A n \in Elements(mainQueue) : ~SameNews(n, m)
  BY <1>2, <1>3 DEF IInv, RequestInv, SameNews, Services
<1>6. dbQueue' \in Seq(QuerySet)  BY <1>2 DEF IInv, TypeInv
<1>7. UNCHANGED <<running, ztRunning, shutdownState, ended, told, ztTold, cmgr, zmgr>>
  BY <1>2 DEF stops
<1>8. m.client \in (Requests \cap asked') \ Seen  BY <1>2, <1>3, <1>4
<1>9. m.zop \notin Services  BY <1>3 DEF Services
<1>10. m.zop \notin {"RemoveZone", "ZoneThread", "db", "udp"}  BY <1>3
<1>11. asked \subseteq asked' /\ running' = running /\ ztRunning' = ztRunning  BY <1>2, <1>7
<1>12. QED  BY <1>2, <1>3, <1>5, <1>6, <1>7, <1>8, <1>9, <1>10, <1>11, OutsideInv

\* mt_handle_sig_int.
LEMMA InterruptInv ==
  ASSUME IInv, Interrupt
  PROVE  IInv'
<1>1. PICK m : m = Signal("TerminateAll")  OBVIOUS
<1>2. mainQueue' = Append(mainQueue, m) /\ UNCHANGED <<stops, cmgr, zmgr, dbQueue, asked>>
  BY <1>1 DEF Interrupt
<1>3. m \in MessageSet /\ m.zop = "TerminateAll"
  BY <1>1 DEF Signal, Message, MessageSet, Zops, MaybeZone
<1>4. \A n \in Elements(mainQueue) : ~SameNews(n, m)  BY <1>3 DEF SameNews, Services
<1>5. dbQueue' \in Seq(QuerySet)  BY <1>2 DEF IInv, TypeInv
<1>6. UNCHANGED <<running, ztRunning, shutdownState, ended, told, ztTold, cmgr, zmgr>>
  BY <1>2 DEF stops
<1>7. m.zop \notin Services  BY <1>3 DEF Services
<1>8. m.zop \notin {"RemoveZone", "ZoneThread", "ZoneFromCharSelect", "db", "udp"}  BY <1>3
<1>9. asked \subseteq asked' /\ running' = running /\ ztRunning' = ztRunning  BY <1>2, <1>6
<1>10. QED  BY <1>2, <1>3, <1>4, <1>5, <1>6, <1>7, <1>8, <1>9, OutsideInv

\* dbr_main_load_character and dbr_main_load_inventory.
LEMMA DbAnswerInv ==
  ASSUME IInv, DbAnswer
  PROVE  IInv'
<1>1. PICK q : q = Head(dbQueue)  OBVIOUS
<1>2. /\ dbQueue # <<>> /\ q.zop # "Terminate" /\ dbQueue' = Tail(dbQueue)
      /\ UNCHANGED <<stops, cmgr, zmgr, asked>>
  BY <1>1 DEF DbAnswer
<1>3. q \in QuerySet /\ dbQueue' \in Seq(QuerySet)
  <2>1. dbQueue \in Seq(QuerySet)  BY DEF IInv, TypeInv
  <2>2. QED  BY <1>1, <1>2, <2>1, HeadTailProperties
<1>4. q.zop \in {"LoadCharacter", "LoadInventory"} /\ q.client \in Requests \cup {None}
  BY <1>2, <1>3 DEF QuerySet
<1>5. PICK zone \in MaybeZone, hadError \in BOOLEAN :
        \/ mainQueue' = Append(mainQueue, Message(q.zop, q.client, 0, zone, hadError))
        \/ mainQueue' = mainQueue
  <2>1. \A zone \in IF q.zop = "LoadCharacter" THEN Zones ELSE {None} : zone \in MaybeZone
    BY DEF MaybeZone
  <2>2. None \in MaybeZone /\ TRUE \in BOOLEAN /\ FALSE \in BOOLEAN  BY DEF MaybeZone
  <2>3. CASE \E zone \in IF q.zop = "LoadCharacter" THEN Zones ELSE {None} :
               mainQueue' = Append(mainQueue, Message(q.zop, q.client, 0, zone, FALSE))
    BY <2>1, <2>2, <2>3
  <2>4. CASE mainQueue' = Append(mainQueue, Message(q.zop, q.client, 0, None, TRUE))
    BY <2>2, <2>4
  <2>5. CASE mainQueue' = mainQueue  BY <2>2, <2>5
  <2>6. QED  BY <1>1, <2>3, <2>4, <2>5 DEF DbAnswer
<1>6. PICK m : m = Message(q.zop, q.client, 0, zone, hadError)  OBVIOUS
<1>7. mainQueue' = Append(mainQueue, m) \/ mainQueue' = mainQueue  BY <1>5, <1>6
<1>8. m \in MessageSet /\ m.zop \in {"LoadCharacter", "LoadInventory"}
  <2>1. q.zop \in Zops  BY <1>4 DEF Zops
  <2>2. QED  BY <1>4, <1>5, <1>6, <2>1 DEF Message, MessageSet
<1>9. \A n \in Elements(mainQueue) : ~SameNews(n, m)  BY <1>8 DEF SameNews, Services
<1>10. UNCHANGED <<running, ztRunning, shutdownState, ended, told, ztTold, cmgr, zmgr>>
  BY <1>2 DEF stops
<1>11. m.zop \notin Services  BY <1>8 DEF Services
<1>12. m.zop \notin {"RemoveZone", "ZoneThread", "ZoneFromCharSelect", "db", "udp"}  BY <1>8
<1>13. asked \subseteq asked' /\ running' = running /\ ztRunning' = ztRunning  BY <1>2, <1>10
<1>14. QED  BY <1>3, <1>7, <1>8, <1>9, <1>10, <1>11, <1>12, <1>13, OutsideInv

\* A service thread reports and returns.
LEMMA ServiceStopsInv ==
  ASSUME IInv, NEW t \in Services, ServiceStops(t)
  PROVE  IInv'
<1>1. PICK m : m = Signal(t)  OBVIOUS
<1>2. /\ t \in running /\ t \in told /\ running' = running \ {t}
      /\ mainQueue' = Append(mainQueue, m) \/ mainQueue' = mainQueue
      /\ UNCHANGED <<shutdownState, ended, told, ztRunning, ztTold, cmgr, zmgr, dbQueue, asked>>
  BY <1>1 DEF ServiceStops, Report
<1>3. m \in MessageSet /\ m.zop = t
  <2>1. t \in Zops  BY DEF Zops
  <2>2. QED  BY <1>1, <2>1 DEF Signal, Message, MessageSet, MaybeZone
<1>4. \A n \in Elements(mainQueue) : ~SameNews(n, m)
  BY <1>2, <1>3 DEF IInv, ShutdownInv, SameNews
<1>5. dbQueue' \in Seq(QuerySet)  BY <1>2 DEF IInv, TypeInv
<1>6. m.zop \notin {"RemoveZone", "ZoneThread", "ZoneFromCharSelect"}  BY <1>3 DEF Services
<1>7. m.zop \notin running' /\ m.zop \in running  BY <1>2, <1>3
<1>8. asked \subseteq asked' /\ running' \subseteq running /\ running \ told \subseteq running'
      /\ ztRunning' = ztRunning
  BY <1>2
<1>9. UNCHANGED <<shutdownState, ended, told, ztTold, cmgr, zmgr>>  BY <1>2
<1>10. QED  BY <1>2, <1>3, <1>4, <1>5, <1>6, <1>7, <1>8, <1>9, OutsideInv

\* A zone thread reports and returns.
LEMMA ZoneThreadStopsInv ==
  ASSUME IInv, NEW z \in ztRunning, ZoneThreadStops(z)
  PROVE  IInv'
<1>1. PICK m : m = Message("ZoneThread", None, z, None, FALSE)  OBVIOUS
<1>2. /\ ztRunning' = ztRunning \ {z}
      /\ mainQueue' = Append(mainQueue, m) \/ mainQueue' = mainQueue
      /\ UNCHANGED <<shutdownState, ended, running, told, ztTold, cmgr, zmgr, dbQueue, asked>>
  BY <1>1 DEF ZoneThreadStops, Report
<1>3. Listed(z)  BY DEF IInv, ThreadInv
<1>4. z \in Nat
  <2>1. PICK i \in 1 .. ztCount : zts[i].zt = z  BY <1>3 DEF Listed
  <2>2. zts \in Seq(ThreadSet) /\ i \in 1 .. Len(zts)  BY LenProperties DEF IInv, TypeInv
  <2>3. zts[i] \in ThreadSet  BY <2>2, ElementOfSeq
  <2>4. QED  BY <2>1, <2>3 DEF ThreadSet
<1>5. m \in MessageSet /\ m.zop = "ZoneThread" /\ m.zt = z
  BY <1>1, <1>4 DEF Message, MessageSet, Zops, MaybeZone
<1>6. \A n \in Elements(mainQueue) : ~SameNews(n, m)
  BY <1>5 DEF IInv, ThreadInv, SameNews, Services
<1>7. dbQueue' \in Seq(QuerySet)  BY <1>2 DEF IInv, TypeInv
<1>8. m.zop \notin Services  BY <1>5 DEF Services
<1>9. m.zop \notin {"ZoneFromCharSelect", "db", "udp"} /\ shutdownState >= 3
  BY <1>5 DEF ZoneThreadStops, IInv, ThreadInv
<1>10. Listed(m.zt) /\ m.zt \notin ztRunning'  BY <1>2, <1>3, <1>5
<1>11. asked \subseteq asked' /\ running' = running /\ ztRunning' \subseteq ztRunning  BY <1>2
<1>12. UNCHANGED <<shutdownState, ended, told, ztTold, cmgr, zmgr>>  BY <1>2
<1>13. QED  BY <1>2, <1>5, <1>6, <1>7, <1>8, <1>9, <1>10, <1>11, <1>12, OutsideInv

-----------------------------------------------------------------------------
(* Shutting down.                                                          *)

\* Terminate is pushed to some of ts.
LEMMA Told ==
  ASSUME IInv, NEW ts, ts \subseteq Services, NEW n, Tell(ts, n)
  PROVE  told \subseteq told' /\ told' \subseteq told \cup ts /\ told' \subseteq Services
         /\ dbQueue' \in Seq(QuerySet)
<1>1. PICK heard \in SUBSET ts :
        /\ told' = told \cup heard
        /\ dbQueue' = IF "db" \in heard THEN Append(dbQueue, Query("Terminate", None)) ELSE dbQueue
  BY DEF Tell
<1>2. told \subseteq Services /\ dbQueue \in Seq(QuerySet)  BY DEF IInv, TypeInv
<1>3. PICK q : q = Query("Terminate", None)  OBVIOUS
<1>4. q \in QuerySet  BY <1>3 DEF Query, QuerySet
<1>5. dbQueue' \in Seq(QuerySet)  BY <1>1, <1>2, <1>3, <1>4, AppendProperties
<1>6. QED  BY <1>1, <1>2, <1>5

\* A step of the shutdown to state s, in which the threads in ts may be told: no
\* thread is told, and no state entered, too early.
LEMMA ShutdownStep ==
  ASSUME IInv, NEW s \in Nat, shutdownState' = s, s >= shutdownState,
         NEW ts \in SUBSET Services, told \subseteq told', told' \subseteq told \cup ts,
         \A m \in Elements(mainQueue') :
           m \in Elements(mainQueue) \/ (m.zop = "RemoveZone" /\ s >= 3),
         UNCHANGED <<running, ztRunning, late>>,
         "login" \in ts => s >= 1, "cs" \in ts => s >= 2,
         "db" \in ts \/ "udp" \in ts => s >= 4, "log" \in ts => s >= 6,
         s >= 2 => "login" \notin running, s >= 3 => "cs" \notin running,
         s >= 4 => ztRunning \subseteq late,
         s = 5 => \E t \in {"db", "udp"} :
                    t \notin running /\ \A m \in Elements(mainQueue') : m.zop # t,
         s >= 6 => /\ "db" \notin running /\ "udp" \notin running
                   /\ \A m \in Elements(mainQueue') : m.zop \notin {"db", "udp"}
  PROVE  ShutdownInv'
<1>1. shutdownState \in Nat  BY DEF IInv, TypeInv
<1>2. Services \ told' \subseteq running'  BY DEF IInv, ShutdownInv
<1>3. \A m \in Elements(mainQueue') : /\ m.zop \in Services => m.zop \notin running'
                                      /\ m.zop \in {"ZoneThread", "RemoveZone"} => s >= 3
  BY <1>1 DEF IInv, ShutdownInv, Services
<1>4. "login" \in told' => s >= 1  BY <1>1 DEF IInv, ShutdownInv
<1>5. "cs" \in told' => s >= 2  BY <1>1 DEF IInv, ShutdownInv
<1>6. "db" \in told' \/ "udp" \in told' => s >= 4  BY <1>1 DEF IInv, ShutdownInv
<1>7. "log" \in told' => s >= 6  BY <1>1 DEF IInv, ShutdownInv
<1>8. QED  BY <1>2, <1>3, <1>4, <1>5, <1>6, <1>7 DEF ShutdownInv

\* What the shutdown leaves alone.
LEMMA ShutdownFrame ==
  ASSUME IInv, mainQueue # <<>>, mainQueue' = Tail(mainQueue),
         UNCHANGED <<running, ztRunning, asked, cmgr, zmgr>>,
         shutdownState' \in Nat, shutdownState' >= shutdownState, told' \subseteq Services,
         dbQueue' \in Seq(QuerySet), ztTold' # {} => shutdownState' >= 3, ShutdownInv'
  PROVE  IInv'
<1>1. /\ mainQueue' \in Seq(MessageSet) /\ NewsOnce(mainQueue')
      /\ Elements(mainQueue') \subseteq Elements(mainQueue)
  BY TakeStep
<1>2. UNCHANGED <<zts, ztCount, byZone, created, started, loading, handed, allocated, lost,
                  unlucky, late>>
  BY DEF cmgr, zmgr
<1>3. shutdownState \in Nat  BY DEF IInv, TypeInv
<1>4. TypeInv'  BY <1>1, <1>2 DEF IInv, TypeInv
<1>5. ThreadInv'
  <2>1. \A z : Listed(z) => Listed(z)'  BY <1>2 DEF Listed
  <2>2. \A n \in Elements(mainQueue') : n.zop = "ZoneThread" => Listed(n.zt)' /\ n.zt \notin ztRunning'
    BY <1>1, <2>1 DEF IInv, ThreadInv
  <2>3. QED  BY <1>2, <2>1, <2>2 DEF IInv, ThreadInv
<1>6. PlaceInv'
  <2>1. shutdownState' < 3 => shutdownState < 3  BY <1>3
  <2>2. QED  BY <1>2, <2>1 DEF IInv, PlaceInv
<1>7. RequestInv'
  <2>1. Seen' = Seen  BY <1>2 DEF Seen
  <2>2. QED  BY <1>1, <2>1 DEF IInv, RequestInv
<1>8. ClientsHaveOneOwner' /\ HandedToItsZone'
  BY <1>2 DEF IInv, ClientsHaveOneOwner, HandedToItsZone
<1>9. QED  BY <1>1, <1>4, <1>5, <1>6, <1>7, <1>8 DEF IInv

\* The reports of the services, and the signal.
LEMMA ServiceDownInv ==
  ASSUME IInv, mainQueue # <<>>, NEW h, h = Head(mainQueue), NEW t, t = h.zop, ServiceDown(t),
         UNCHANGED asked
  PROVE  IInv'
<1>1. mainQueue' = Tail(mainQueue) /\ UNCHANGED <<running, ztRunning, cmgr, zmgr>>
  BY DEF ServiceDown
<1>2. PICK R : R = Elements(mainQueue')  OBVIOUS
<1>3. R \subseteq Elements(mainQueue) /\ h \in Elements(mainQueue)
      /\ \A m \in R : ~SameNews(h, m)
  BY <1>1, <1>2, TakeStep
<1>4. shutdownState \in Nat /\ told \subseteq Services /\ dbQueue \in Seq(QuerySet)
  BY DEF IInv, TypeInv
<1>5. t \in Services => t \notin running  BY <1>3 DEF IInv, ShutdownInv
<1>6. UNCHANGED late  BY <1>1 DEF cmgr
<1>7. {} \subseteq Services /\ {"login"} \subseteq Services /\ {"cs"} \subseteq Services
      /\ {"db", "udp"} \subseteq Services /\ {"log"} \subseteq Services
  BY DEF Services
<1>8. CASE t = "TerminateAll" /\ shutdownState = 0 /\ shutdownState' = 1 /\ Tell({"login"}, 0)
           /\ UNCHANGED <<ended, ztTold>>
  <2>1. told \subseteq told' /\ told' \subseteq told \cup {"login"} /\ told' \subseteq Services
        /\ dbQueue' \in Seq(QuerySet)
    BY <1>7, <1>8, Told
  <2>2. ztTold = {}  BY <1>8 DEF IInv, ThreadInv
  <2>3. ShutdownInv'
    <3>1. PICK s \in Nat, ts \in SUBSET Services : s = 1 /\ ts = {"login"}  BY <1>7
    <3>2. shutdownState' = s /\ s >= shutdownState /\ told \subseteq told' /\ told' \subseteq told \cup ts
      BY <3>1, <1>8, <2>1
    <3>3. Elements(mainQueue') \subseteq Elements(mainQueue)  BY <1>2, <1>3
    <3>4. UNCHANGED <<running, ztRunning, late>>  BY <1>1, <1>6
    <3>5. /\ "login" \in ts => s >= 1
          /\ "cs" \in ts => s >= 2
          /\ "db" \in ts \/ "udp" \in ts => s >= 4
          /\ "log" \in ts => s >= 6
      BY <3>1
    <3>6. s # 5 /\ ~(s >= 6)  BY <3>1
    <3>7. /\ s >= 2 => "login" \notin running
          /\ s >= 3 => "cs" \notin running
          /\ s >= 4 => ztRunning \subseteq late
      BY <3>1, <1>8, <2>1
    <3>8. QED  BY <3>2, <3>3, <3>4, <3>5, <3>6, <3>7, ShutdownStep
  <2>4. QED  BY <1>1, <1>8, <2>1, <2>2, <2>3, ShutdownFrame
<1>9. CASE UNCHANGED <<shutdownState, told, ztTold, dbQueue>>
  <2>1. ShutdownInv'
    <3>1. R \subseteq Elements(mainQueue) /\ R = Elements(mainQueue')  BY <1>2, <1>3
    <3>2. QED  BY <1>1, <1>6, <1>9, <3>1 DEF IInv, ShutdownInv
  <2>2. QED  BY <1>1, <1>4, <1>9, <2>1, ShutdownFrame DEF IInv, ThreadInv
<1>10. CASE t = "login" /\ shutdownState = 1 /\ shutdownState' = 2 /\ Tell({"cs"}, 0)
            /\ UNCHANGED <<ended, ztTold>>
  <2>1. told \subseteq told' /\ told' \subseteq told \cup {"cs"} /\ told' \subseteq Services
        /\ dbQueue' \in Seq(QuerySet)
    BY <1>7, <1>10, Told
  <2>2. ztTold = {}  BY <1>10 DEF IInv, ThreadInv
  <2>3. "login" \notin running  BY <1>5, <1>7, <1>10
  <2>4. ShutdownInv'
    <3>1. PICK s \in Nat, ts \in SUBSET Services : s = 2 /\ ts = {"cs"}  BY <1>7
    <3>2. shutdownState' = s /\ s >= shutdownState /\ told \subseteq told' /\ told' \subseteq told \cup ts
      BY <3>1, <1>10, <2>1, <2>3
    <3>3. Elements(mainQueue') \subseteq Elements(mainQueue)  BY <1>2, <1>3
    <3>4. UNCHANGED <<running, ztRunning, late>>  BY <1>1, <1>6
    <3>5. /\ "login" \in ts => s >= 1
          /\ "cs" \in ts => s >= 2
          /\ "db" \in ts \/ "udp" \in ts => s >= 4
          /\ "log" \in ts => s >= 6
      BY <3>1
    <3>6. s # 5 /\ ~(s >= 6)  BY <3>1
    <3>7. /\ s >= 2 => "login" \notin running
          /\ s >= 3 => "cs" \notin running
          /\ s >= 4 => ztRunning \subseteq late
      BY <3>1, <1>10, <2>1, <2>3
    <3>8. QED  BY <3>2, <3>3, <3>4, <3>5, <3>6, <3>7, ShutdownStep
  <2>5. QED  BY <1>1, <1>10, <2>1, <2>2, <2>4, ShutdownFrame
<1>11. CASE t = "cs" /\ shutdownState = 2 /\ CsDown /\ UNCHANGED ended
  <2>1. "cs" \notin running  BY <1>5, <1>7, <1>11
  <2>2. "login" \notin running  BY <1>11 DEF IInv, ShutdownInv
  <2>3. ztTold = {}  BY <1>11 DEF IInv, ThreadInv
  <2>4. CASE ztCount = 0 /\ AllZoneThreadsDown(0) /\ UNCHANGED ztTold
    <3>1. shutdownState' = 4 /\ Tell({"db", "udp"}, 0)  BY <1>11, <2>4 DEF AllZoneThreadsDown
    <3>2. told \subseteq told' /\ told' \subseteq told \cup {"db", "udp"} /\ told' \subseteq Services
          /\ dbQueue' \in Seq(QuerySet)
      BY <1>7, <3>1, Told
    <3>3. ztRunning = {}  BY <2>4 DEF IInv, ThreadInv, Listed
    <3>4. ztRunning \subseteq late  BY <3>3
    <3>5. ShutdownInv'
      <4>1. PICK s \in Nat, ts \in SUBSET Services : s = 4 /\ ts = {"db", "udp"}  BY <1>7
      <4>2. shutdownState' = s /\ s >= shutdownState /\ told \subseteq told' /\ told' \subseteq told \cup ts
        BY <4>1, <1>11, <2>1, <2>2, <3>1, <3>2, <3>4
      <4>3. Elements(mainQueue') \subseteq Elements(mainQueue)  BY <1>2, <1>3
      <4>4. UNCHANGED <<running, ztRunning, late>>  BY <1>1, <1>6
      <4>5. /\ "login" \in ts => s >= 1
            /\ "cs" \in ts => s >= 2
            /\ "db" \in ts \/ "udp" \in ts => s >= 4
            /\ "log" \in ts => s >= 6
        BY <4>1
      <4>6. s # 5 /\ ~(s >= 6)  BY <4>1
      <4>7. /\ s >= 2 => "login" \notin running
            /\ s >= 3 => "cs" \notin running
            /\ s >= 4 => ztRunning \subseteq late
        BY <4>1, <1>11, <2>1, <2>2, <3>1, <3>2, <3>4
      <4>8. QED  BY <4>2, <4>3, <4>4, <4>5, <4>6, <4>7, ShutdownStep
    <3>6. QED  BY <1>1, <1>11, <2>3, <2>4, <3>1, <3>2, <3>5, ShutdownFrame
  <2>5. CASE shutdownState' = 3 /\ UNCHANGED <<told, dbQueue>>
    <3>1. told \subseteq told' /\ told' \subseteq told \cup {}  BY <2>5
    <3>2. ShutdownInv'
      BY <1>1, <1>2, <1>3, <1>6, <1>7, <1>11, <2>1, <2>2, <2>5, <3>1, ShutdownStep
    <3>3. QED  BY <1>1, <1>4, <1>11, <2>5, <3>2, ShutdownFrame
  <2>6. QED  BY <1>11, <2>4, <2>5 DEF CsDown
<1>12. CASE t \in {"db", "udp"} /\ shutdownState >= 4 /\ shutdownState' = shutdownState + 1
            /\ Tell(AfterDbUdp(shutdownState), 0) /\ UNCHANGED <<ended, ztTold>>
  <2>1. PICK s : s = shutdownState + 1  OBVIOUS
  <2>2. s \in Nat /\ s >= 5 /\ shutdownState' = s /\ s >= shutdownState  BY <1>4, <1>12, <2>1
  <2>3. PICK ts \in SUBSET Services : Tell(ts, 0) /\ ("log" \in ts => s = 6) /\ ts \subseteq {"log"}
    BY <1>4, <1>7, <1>12, <2>1 DEF AfterDbUdp
  <2>4. told \subseteq told' /\ told' \subseteq told \cup ts /\ told' \subseteq Services
        /\ dbQueue' \in Seq(QuerySet)
    BY <2>3, Told
  <2>5. t \notin running /\ \A m \in R : m.zop # t
    BY <1>3, <1>5, <1>7, <1>12 DEF SameNews
  <2>6. s = 5 => \E x \in {"db", "udp"} : x \notin running /\ \A m \in R : m.zop # x
    BY <1>12, <2>5
  <2>7. s >= 6 => /\ "db" \notin running /\ "udp" \notin running
                  /\ \A m \in R : m.zop \notin {"db", "udp"}
    <3>1. CASE shutdownState = 5
      <4>1. PICK x \in {"db", "udp"} : x \notin running /\ \A m \in Elements(mainQueue) : m.zop # x
        BY <3>1 DEF IInv, ShutdownInv
      <4>2. x # t  BY <1>3, <4>1
      <4>3. x \notin running /\ (\A m \in R : m.zop # x)  BY <1>3, <4>1
      <4>4. QED  BY <1>12, <2>5, <4>1, <4>2, <4>3
    <3>2. CASE shutdownState >= 6
      <4>1. h.zop \notin {"db", "udp"}  BY <1>3, <3>2 DEF IInv, ShutdownInv
      <4>2. QED  BY <1>12, <4>1
    <3>3. QED  BY <1>4, <2>1, <3>1, <3>2
  <2>8. "login" \notin running /\ "cs" \notin running /\ ztRunning \subseteq late
    BY <1>4, <1>12 DEF IInv, ShutdownInv
  <2>9. ShutdownInv'
    BY <1>1, <1>2, <1>3, <1>6, <2>2, <2>3, <2>4, <2>6, <2>7, <2>8, ShutdownStep
  <2>10. ztTold' # {} => shutdownState' >= 3  BY <1>4, <2>2
  <2>11. QED  BY <1>1, <2>2, <2>4, <2>9, <2>10, ShutdownFrame
<1>13. QED  BY <1>8, <1>9, <1>10, <1>11, <1>12 DEF ServiceDown

\* zmgr_on_zone_thread_shutdown takes the thread out of the list, and only that one.
LEMMA ThreadUnlisted ==
  ASSUME IInv, NEW z, Listed(z),
         NEW i, i = CHOOSE j \in 1 .. ztCount : zts[j].zt = z,
         zts' = [zts EXCEPT ![i] = zts[ztCount]], ztCount' = ztCount - 1
  PROVE  /\ zts' \in Seq(ThreadSet) /\ ztCount' \in 0 .. Len(zts') /\ Len(zts') = Len(zts)
         /\ \A j \in 1 .. ztCount' : \E k \in 1 .. ztCount : zts'[j] = zts[k]
         /\ \A j, k \in 1 .. ztCount' : zts'[j].zt = zts'[k].zt => j = k
         /\ \A y : Listed(y) /\ y # z => Listed(y)'
         /\ ztCount = 1 => \A y : Listed(y) => y = z
<1>1. PICK n : n = ztCount  OBVIOUS
<1>2. zts \in Seq(ThreadSet) /\ n \in 0 .. Len(zts) /\ Len(zts) \in Nat /\ n \in Nat
  BY <1>1, LenProperties DEF IInv, TypeInv
<1>3. \A j, k \in 1 .. n : zts[j].zt = zts[k].zt => j = k  BY <1>1 DEF IInv, ThreadInv
<1>4. i \in 1 .. n /\ zts[i].zt = z  BY <1>1 DEF Listed
<1>5. i \in 1 .. Len(zts) /\ n \in 1 .. Len(zts) /\ n \in 1 .. n  BY <1>2, <1>4
<1>6. zts[n] \in ThreadSet  BY <1>2, <1>5, ElementOfSeq
<1>7. /\ zts' \in Seq(ThreadSet) /\ Len(zts') = Len(zts)
      /\ \A j \in 1 .. Len(zts) : zts'[j] = IF j = i THEN zts[n] ELSE zts[j]
  BY <1>1, <1>2, <1>5, <1>6, ExceptSeq
<1>8. \A j \in 1 .. n - 1 : j \in 1 .. n /\ j \in 1 .. Len(zts) /\ j # n  BY <1>2
<1>9. \A j \in 1 .. n - 1 : zts'[j] = IF j = i THEN zts[n] ELSE zts[j]  BY <1>7, <1>8
<1>10. ztCount' = n - 1 /\ n - 1 \in 0 .. Len(zts)  BY <1>1, <1>2, <1>5
<1>11. \A j \in 1 .. n - 1 : \E k \in 1 .. n : zts'[j] = zts[k]  BY <1>5, <1>8, <1>9
<1>12. ASSUME NEW j \in 1 .. n - 1, NEW k \in 1 .. n - 1, zts'[j].zt = zts'[k].zt PROVE j = k
  <2>1. CASE j = i /\ k = i  BY <2>1
  <2>2. CASE j = i /\ k # i
    <3>1. zts[n].zt = zts[k].zt  BY <1>9, <1>12, <2>2
    <3>2. QED  BY <1>3, <1>5, <1>8, <3>1
  <2>3. CASE j # i /\ k = i
    <3>1. zts[j].zt = zts[n].zt  BY <1>9, <1>12, <2>3
    <3>2. QED  BY <1>3, <1>5, <1>8, <3>1
  <2>4. CASE j # i /\ k # i
    <3>1. zts[j].zt = zts[k].zt  BY <1>9, <1>12, <2>4
    <3>2. QED  BY <1>3, <1>8, <3>1
  <2>5. QED  BY <2>1, <2>2, <2>3, <2>4
<1>13. ASSUME NEW y, Listed(y), y # z PROVE Listed(y)'
  <2>1. PICK j \in 1 .. n : zts[j].zt = y  BY <1>1, <1>13 DEF Listed
  <2>2. j # i  BY <1>4, <1>13, <2>1
  <2>3. CASE j = n
    <3>1. i \in 1 .. n - 1  BY <1>2, <1>4, <2>2, <2>3
    <3>2. zts'[i].zt = y  BY <1>9, <2>1, <2>3, <3>1
    <3>3. QED  BY <1>10, <3>1, <3>2 DEF Listed
  <2>4. CASE j # n
    <3>1. j \in 1 .. n - 1  BY <1>2, <2>1, <2>4
    <3>2. zts'[j].zt = y  BY <1>9, <2>1, <2>2, <3>1
    <3>3. QED  BY <1>10, <3>1, <3>2 DEF Listed
  <2>5. QED  BY <2>3, <2>4
<1>14. n = 1 => \A y : Listed(y) => y = z
  BY <1>1, <1>4 DEF Listed
<1>15. QED  BY <1>1, <1>7, <1>10, <1>11, <1>12, <1>13, <1>14

Removals(zones) == {Message("RemoveZone", None, 0, zone, FALSE) : zone \in zones}

\* zt_destroy reports the zones of the thread.
LEMMA ZonesReported ==
  ASSUME IInv, mainQueue # <<>>, NEW heard, heard \subseteq {c.zone : c \in created},
         NEW h, h = Head(mainQueue),
         mainQueue' = Tail(mainQueue) \o SetToSeq(Removals(heard))
  PROVE  /\ mainQueue' \in Seq(MessageSet) /\ NewsOnce(mainQueue')
         /\ \A m \in Elements(mainQueue') :
              (m \in Elements(mainQueue) /\ ~SameNews(h, m)) \/ m.zop = "RemoveZone"
<1>1. created \subseteq CreatedSet /\ IsFiniteSet(created)  BY DEF IInv, TypeInv
<1>2. PICK q : q = Tail(mainQueue)  OBVIOUS
<1>3. /\ q \in Seq(MessageSet) /\ NewsOnce(q) /\ Elements(q) \subseteq Elements(mainQueue)
      /\ \A m \in Elements(q) : ~SameNews(h, m)
  BY <1>2, TakeStep
<1>4. PICK T : T = Removals(heard) /\ T = {Message("RemoveZone", None, 0, zone, FALSE) : zone \in heard}
  BY DEF Removals
<1>5. heard \subseteq MaybeZone /\ IsFiniteSet(heard)
  <2>1. PICK f : f = [c \in created |-> c.zone]  OBVIOUS
  <2>2. PICK ran : ran = {c.zone : c \in created}  OBVIOUS
  <2>3. f \in Surjection(created, ran)  BY <2>1, <2>2 DEF Surjection
  <2>4. IsFiniteSet(ran)  BY <1>1, <2>3, FS_Surjection
  <2>5. heard \subseteq ran  BY <2>2
  <2>6. ran \subseteq MaybeZone  BY <1>1, <2>2 DEF CreatedSet
  <2>7. QED  BY <2>4, <2>5, <2>6, FS_Subset
<1>6. IsFiniteSet(T)
  <2>1. PICK f : f = [zone \in heard |-> Message("RemoveZone", None, 0, zone, FALSE)]  OBVIOUS
  <2>2. f \in Surjection(heard, T)  BY <1>4, <2>1 DEF Surjection
  <2>3. QED  BY <1>5, <2>2, FS_Surjection
<1>7. ASSUME NEW m \in T PROVE m \in MessageSet /\ m.zop = "RemoveZone"
  <2>1. PICK zone \in heard : m = Message("RemoveZone", None, 0, zone, FALSE)  BY <1>4
  <2>2. zone \in MaybeZone  BY <1>5
  <2>3. QED  BY <2>1, <2>2 DEF Message, MessageSet, Zops
<1>8. PICK r : r = SetToSeq(T)  OBVIOUS
<1>9. r \in Seq(MessageSet) /\ Elements(r) \subseteq T
  <2>1. T \subseteq MessageSet  BY <1>7
  <2>2. QED  BY <1>6, <1>8, <2>1, InSomeOrder
<1>10. mainQueue' = q \o r  BY <1>2, <1>4, <1>8
<1>11. q \o r \in Seq(MessageSet) /\ Elements(q \o r) \subseteq Elements(q) \cup Elements(r)
  BY <1>3, <1>9, Concatenated
<1>12. NewsOnce(q \o r)  BY <1>3, <1>7, <1>9, NoNewsAppended
<1>13. \A m \in Elements(q \o r) :
         (m \in Elements(mainQueue) /\ ~SameNews(h, m)) \/ m.zop = "RemoveZone"
  BY <1>3, <1>7, <1>9, <1>11
<1>14. QED  BY <1>10, <1>11, <1>12, <1>13

\* The report of a zone thread.
LEMMA ZoneThreadDownInv ==
  ASSUME IInv, mainQueue # <<>>, NEW h, h = Head(mainQueue), h.zop = "ZoneThread",
         NEW z, z = h.zt, ZoneThreadDown(z), UNCHANGED asked
  PROVE  IInv'
<1>1. PICK i, zones : /\ i = CHOOSE j \in 1 .. ztCount : zts[j].zt = z
                      /\ zones = {c.zone : c \in {x \in created : x.zt = z}}
  OBVIOUS
<1>2. PICK heard, n :
        /\ heard \subseteq zones
        /\ mainQueue' = Tail(mainQueue) \o SetToSeq(Removals(heard))
        /\ \/ ztCount = 1 /\ AllZoneThreadsDown(n)
           \/ UNCHANGED <<shutdownState, told, dbQueue>>
  BY <1>1 DEF ZoneThreadDown, Removals
<1>3. /\ zts' = [zts EXCEPT ![i] = zts[ztCount]] /\ ztCount' = ztCount - 1
      /\ UNCHANGED <<ended, running, ztRunning, ztTold, byZone, created, started, cmgr>>
  BY <1>1 DEF ZoneThreadDown
<1>4. UNCHANGED <<loading, handed, allocated, lost, unlucky, late>>  BY <1>3 DEF cmgr
<1>5. h \in Elements(mainQueue)  BY TakeStep
<1>6. Listed(z) /\ z \notin ztRunning  BY <1>5 DEF IInv, ThreadInv
<1>7. shutdownState \in Nat /\ shutdownState >= 3  BY <1>5 DEF IInv, TypeInv, ShutdownInv
<1>8. /\ mainQueue' \in Seq(MessageSet) /\ NewsOnce(mainQueue')
      /\ \A m \in Elements(mainQueue') :
           (m \in Elements(mainQueue) /\ ~SameNews(h, m)) \/ m.zop = "RemoveZone"
  <2>1. heard \subseteq {c.zone : c \in created}  BY <1>1, <1>2
  <2>2. mainQueue' = Tail(mainQueue) \o SetToSeq(Removals(heard))  BY <1>2
  <2>3. QED  BY <2>1, <2>2, ZonesReported
<1>9. /\ zts' \in Seq(ThreadSet) /\ ztCount' \in 0 .. Len(zts') /\ Len(zts') = Len(zts)
      /\ \A j \in 1 .. ztCount' : \E k \in 1 .. ztCount : zts'[j] = zts[k]
      /\ \A j, k \in 1 .. ztCount' : zts'[j].zt = zts'[k].zt => j = k
      /\ \A y : Listed(y) /\ y # z => Listed(y)'
      /\ ztCount = 1 => \A y : Listed(y) => y = z
  <2>1. i = CHOOSE j \in 1 .. ztCount : zts[j].zt = z  BY <1>1
  <2>2. zts' = [zts EXCEPT ![i] = zts[ztCount]] /\ ztCount' = ztCount - 1 /\ Listed(z)
    BY <1>3, <1>6
  <2>3. QED  BY <2>1, <2>2, ThreadUnlisted, ZenonT(60)
<1>10. PICK R : R = Elements(mainQueue')  OBVIOUS
<1>11. \A m \in R : m \in Elements(mainQueue) \/ m.zop = "RemoveZone"  BY <1>8, <1>10
<1>12. /\ ShutdownInv' /\ shutdownState' \in Nat /\ shutdownState' >= 3
       /\ told' \subseteq Services /\ dbQueue' \in Seq(QuerySet)
  <2>1. CASE shutdownState = 3 /\ ztCount = 1 /\ AllZoneThreadsDown(n)
    <3>1. shutdownState' = 4 /\ Tell({"db", "udp"}, n)  BY <2>1 DEF AllZoneThreadsDown
    <3>2. PICK s \in Nat, ts \in SUBSET Services : s = 4 /\ ts = {"db", "udp"}  BY DEF Services
    <3>3. told \subseteq told' /\ told' \subseteq told \cup ts /\ told' \subseteq Services
          /\ dbQueue' \in Seq(QuerySet)
      BY <3>1, <3>2, Told
    <3>4. ztRunning = {}
      <4>1. \A y \in ztRunning : Listed(y)  BY DEF IInv, ThreadInv
      <4>2. QED  BY <1>6, <1>9, <2>1, <4>1
    <3>5. shutdownState' = s /\ s >= shutdownState  BY <2>1, <3>1, <3>2
    <3>6. \A m \in Elements(mainQueue') :
            m \in Elements(mainQueue) \/ (m.zop = "RemoveZone" /\ s >= 3)
      BY <1>8, <3>2
    <3>7. UNCHANGED <<running, ztRunning, late>>  BY <1>3, <1>4
    <3>8. /\ "login" \in ts => s >= 1
          /\ "cs" \in ts => s >= 2
          /\ "db" \in ts \/ "udp" \in ts => s >= 4
          /\ "log" \in ts => s >= 6
      BY <3>2
    <3>9. s # 5 /\ ~(s >= 6)  BY <3>2
    <3>10. "login" \notin running /\ "cs" \notin running  BY <2>1 DEF IInv, ShutdownInv
    <3>11. ztRunning \subseteq late  BY <3>4
    <3>12. ShutdownInv'  BY <3>3, <3>5, <3>6, <3>7, <3>8, <3>9, <3>10, <3>11, ShutdownStep
    <3>13. QED  BY <3>1, <3>3, <3>12
  <2>2. CASE UNCHANGED <<shutdownState, told, dbQueue>>
    <3>1. told' \subseteq Services /\ dbQueue' \in Seq(QuerySet)
      BY <2>2 DEF IInv, TypeInv
    <3>2. Services \ told \subseteq running /\
          \A m \in R : /\ m.zop \in Services => m.zop \notin running
                       /\ m.zop \in {"ZoneThread", "RemoveZone"} => shutdownState >= 3
      BY <1>7, <1>11 DEF IInv, ShutdownInv, Services
    <3>3. shutdownState = 5 => \E t \in {"db", "udp"} : t \notin running /\ \A m \in R : m.zop # t
      <4>1. HAVE shutdownState = 5
      <4>2. PICK t \in {"db", "udp"} : t \notin running /\ \A m \in Elements(mainQueue) : m.zop # t
        BY <4>1 DEF IInv, ShutdownInv
      <4>3. QED  BY <1>11, <4>2
    <3>4. shutdownState >= 6 => /\ "db" \notin running /\ "udp" \notin running
                                /\ \A m \in R : m.zop \notin {"db", "udp"}
      BY <1>11 DEF IInv, ShutdownInv
    <3>5. UNCHANGED <<running, ztRunning, late>>  BY <1>3, <1>4
    <3>6. ShutdownInv'  BY <1>10, <2>2, <3>2, <3>3, <3>4, <3>5 DEF IInv, ShutdownInv
    <3>7. QED  BY <1>7, <2>2, <3>1, <3>6
  <2>3. QED
    <3>1. CASE ztCount = 1 /\ AllZoneThreadsDown(n)
      <4>1. shutdownState # 2  BY <1>7
      <4>2. CASE shutdownState = 3  BY <2>1, <3>1, <4>2
      <4>3. CASE shutdownState # 3  BY <2>2, <3>1, <4>1, <4>3 DEF AllZoneThreadsDown
      <4>4. QED  BY <4>2, <4>3
    <3>2. QED  BY <1>2, <2>2, <3>1
<1>13. TypeInv'  BY <1>3, <1>4, <1>8, <1>9, <1>12 DEF IInv, TypeInv
<1>14. ThreadInv'
  <2>1. \A j \in 1 .. ztCount' : zts'[j].zt <= started'  BY <1>3, <1>9 DEF IInv, ThreadInv
  <2>2. \A y \in ztRunning' : Listed(y)'
    <3>1. \A y \in ztRunning : Listed(y) /\ y # z  BY <1>6 DEF IInv, ThreadInv
    <3>2. QED  BY <1>3, <1>9, <3>1
  <2>3. ASSUME NEW m \in Elements(mainQueue'), m.zop = "ZoneThread"
        PROVE  Listed(m.zt)' /\ m.zt \notin ztRunning'
    <3>1. m \in Elements(mainQueue) /\ ~SameNews(h, m)  BY <1>8, <2>3
    <3>2. m.zt # z  BY <2>3, <3>1 DEF SameNews
    <3>3. Listed(m.zt) /\ m.zt \notin ztRunning  BY <2>3, <3>1 DEF IInv, ThreadInv
    <3>4. PICK y : y = m.zt  OBVIOUS
    <3>5. Listed(y)'  BY <1>9, <3>2, <3>3, <3>4
    <3>6. QED  BY <1>3, <3>3, <3>4, <3>5
  <2>4. ztTold' # {} => shutdownState' >= 3  BY <1>12
  <2>5. QED  BY <1>9, <2>1, <2>2, <2>3, <2>4 DEF ThreadInv
<1>15. PlaceInv'
  <2>1. ~(shutdownState' < 3)  BY <1>12
  <2>2. QED  BY <1>3, <1>9, <2>1 DEF IInv, PlaceInv
<1>16. RequestInv'
  <2>1. Seen' = Seen  BY <1>4 DEF Seen
  <2>2. QED  BY <1>10, <1>11, <2>1 DEF IInv, RequestInv
<1>17. ClientsHaveOneOwner' /\ HandedToItsZone'
  BY <1>3, <1>4 DEF IInv, ClientsHaveOneOwner, HandedToItsZone
<1>18. QED  BY <1>8, <1>12, <1>13, <1>14, <1>15, <1>16, <1>17 DEF IInv

\* "Swap and pop" keeps the type of a list, and brings in nothing new.
LEMMA SwapPopped ==
  ASSUME NEW S, NEW s \in Seq(S), NEW i
  PROVE  /\ SwapPop(s, i) \in Seq(S)
         /\ \A j \in 1 .. Len(SwapPop(s, i)) : \E k \in 1 .. Len(s) : SwapPop(s, i)[j] = s[k]
<1>1. PICK n \in Nat : n = Len(s)  BY LenProperties
<1>2. \A j \in 1 .. n : s[j] \in S  BY <1>1, ElementOfSeq
<1>3. PICK r : r = SwapPop(s, i)  OBVIOUS
<1>4. r = [j \in 1 .. n - 1 |-> IF j = i THEN s[n] ELSE s[j]]  BY <1>1, <1>3 DEF SwapPop
<1>5. CASE n = 0
  <2>1. 1 .. n - 1 = {}  BY <1>5
  <2>2. r = <<>>  BY <1>4, <2>1
  <2>3. QED  BY <1>3, <2>2
<1>6. CASE n # 0
  <2>1. n - 1 \in Nat /\ n \in 1 .. n /\ \A j \in 1 .. n - 1 : j \in 1 .. n  BY <1>6
  <2>2. r \in [1 .. n - 1 -> S]  BY <1>2, <1>4, <2>1
  <2>3. r \in Seq(S) /\ Len(r) = n - 1  BY <2>1, <2>2
  <2>4. \A j \in 1 .. n - 1 : \E k \in 1 .. n : r[j] = s[k]  BY <1>4, <2>1
  <2>5. QED  BY <1>1, <1>3, <2>3, <2>4
<1>7. QED  BY <1>5, <1>6

\* zmgr_on_remove_zone.
LEMMA RemoveZoneInv ==
  ASSUME IInv, mainQueue # <<>>, NEW h, h = Head(mainQueue), h.zop = "RemoveZone",
         NEW zone, RemoveZone(zone), UNCHANGED asked
  PROVE  IInv'
<1>1. PICK b, i : b = KnownZone(zone) /\ i = byZone[b].ztIndex  OBVIOUS
<1>2. /\ zts' = [zts EXCEPT ![i].zoneCount = (@ + 2 ^ 16 - 1) % 2 ^ 16]
      /\ byZone' = SwapPop(byZone, b) /\ mainQueue' = Tail(mainQueue)
      /\ UNCHANGED <<shutdownState, running, told, ztRunning, ztTold, ztCount, created, started,
                     dbQueue, loading, handed, allocated, lost, unlucky, late>>
  BY <1>1 DEF RemoveZone, stops, cmgr
<1>3. /\ mainQueue' \in Seq(MessageSet) /\ NewsOnce(mainQueue')
      /\ Elements(mainQueue') \subseteq Elements(mainQueue) /\ h \in Elements(mainQueue)
  BY <1>2, TakeStep
<1>4. shutdownState >= 3 /\ shutdownState \in Nat  BY <1>3 DEF IInv, TypeInv, ShutdownInv
<1>5. zts \in Seq(ThreadSet) /\ byZone \in Seq(PlaceSet) /\ Len(zts) \in Nat /\ ztCount \in 0 .. Len(zts)
  BY LenProperties DEF IInv, TypeInv
<1>6. /\ zts' \in Seq(ThreadSet) /\ Len(zts') = Len(zts)
      /\ \A j \in 1 .. Len(zts) : zts'[j].zt = zts[j].zt
  <2>1. CASE i \in 1 .. Len(zts)
    <3>1. PICK e : e = [zts[i] EXCEPT !.zoneCount = (@ + 2 ^ 16 - 1) % 2 ^ 16]  OBVIOUS
    <3>2. zts[i] \in ThreadSet  BY <1>5, <2>1, ElementOfSeq
    <3>3. e \in ThreadSet /\ e.zt = zts[i].zt
      <4>1. \A a \in Nat : (a + 2 ^ 16 - 1) % 2 ^ 16 \in Nat  OBVIOUS
      <4>2. QED  BY <3>1, <3>2, <4>1 DEF ThreadSet
    <3>4. zts' = [zts EXCEPT ![i] = e]  BY <1>2, <3>1
    <3>5. QED  BY <1>5, <2>1, <3>3, <3>4, ExceptSeq
  <2>2. CASE i \notin 1 .. Len(zts)
    <3>1. zts \in [1 .. Len(zts) -> ThreadSet]  BY <1>5, LenProperties
    <3>2. zts' = zts  BY <1>2, <2>2, <3>1
    <3>3. QED  BY <1>5, <3>2
  <2>3. QED  BY <2>1, <2>2
<1>7. byZone' \in Seq(PlaceSet)
      /\ \A j \in 1 .. Len(byZone') : \E k \in 1 .. Len(byZone) : byZone'[j] = byZone[k]
  BY <1>2, <1>5, SwapPopped
<1>8. TypeInv'  BY <1>2, <1>3, <1>6, <1>7 DEF IInv, TypeInv
<1>9. ShutdownInv'
  <2>1. PICK Q, R : Q = Elements(mainQueue) /\ R = Elements(mainQueue')  OBVIOUS
  <2>2. R \subseteq Q  BY <1>3, <2>1
  <2>3. QED  BY <1>2, <2>1, <2>2 DEF IInv, ShutdownInv
<1>10. ThreadInv'
  <2>1. \A j \in 1 .. ztCount : zts'[j].zt = zts[j].zt  BY <1>5, <1>6
  <2>2. \A y : Listed(y) => Listed(y)'  BY <1>2, <2>1 DEF Listed
  <2>3. \A m \in Elements(mainQueue') : m.zop = "ZoneThread" => Listed(m.zt)' /\ m.zt \notin ztRunning'
    BY <1>2, <1>3, <2>2 DEF IInv, ThreadInv
  <2>4. QED  BY <1>2, <2>1, <2>2, <2>3 DEF IInv, ThreadInv
<1>11. PlaceInv'
  <2>1. ~(shutdownState' < 3)  BY <1>2, <1>4
  <2>2. \A k \in 1 .. Len(byZone) : byZone[k].ztIndex \in 1 .. Len(zts)  BY DEF IInv, PlaceInv
  <2>3. \A k \in 1 .. Len(byZone') : byZone'[k].ztIndex \in 1 .. Len(zts')  BY <1>6, <1>7, <2>2
  <2>4. QED  BY <2>1, <2>3 DEF PlaceInv
<1>12. RequestInv'
  <2>1. Seen' = Seen  BY <1>2 DEF Seen
  <2>2. QED  BY <1>3, <2>1 DEF IInv, RequestInv
<1>13. ClientsHaveOneOwner' /\ HandedToItsZone'
  BY <1>2 DEF IInv, ClientsHaveOneOwner, HandedToItsZone
<1>14. QED  BY <1>3, <1>8, <1>9, <1>10, <1>11, <1>12, <1>13 DEF IInv

-----------------------------------------------------------------------------
(* Loading a character.                                                    *)

Listing == {l.client : l \in ToSet(loading)}
Zoned   == {h.client : h \in handed}

\* ClientsHaveOneOwner and Seen in these terms.
LEMMA OwnersAre ==
  /\ Seen = allocated \cup Listing \cup Zoned \cup lost
  /\ ClientsHaveOneOwner <=>
       /\ Listing \cup (Zoned \ unlucky) \subseteq allocated
       /\ allocated \subseteq Listing \cup Zoned \cup lost
       /\ Listing \cap (Zoned \cup lost) = {} /\ Zoned \cap lost = {}
       /\ \A h1, h2 \in handed : h1.client = h2.client => h1 = h2
BY DEF Seen, ClientsHaveOneOwner, Listing, Zoned

\* The same after a step.
LEMMA OwnersAreNext ==
  /\ Seen' = allocated' \cup Listing' \cup Zoned' \cup lost'
  /\ ClientsHaveOneOwner' <=>
       /\ Listing' \cup (Zoned' \ unlucky') \subseteq allocated'
       /\ allocated' \subseteq Listing' \cup Zoned' \cup lost'
       /\ Listing' \cap (Zoned' \cup lost') = {} /\ Zoned' \cap lost' = {}
       /\ \A h1, h2 \in handed' : h1.client = h2.client => h1 = h2
BY DEF Seen, ClientsHaveOneOwner, Listing, Zoned

\* cmgr->loadingClients never has more than one entry.
LEMMA ListingOfOne ==
  /\ ToSet(<<>>) = {}
  /\ \A l : ToSet(<<l>>) = {l}
BY DEF ToSet

\* The client that loads.
LEMMA LoadingIs ==
  ASSUME TypeInv, NEW c, IsLoading(c)
  PROVE  \E l \in LoadingSet : loading = <<l>> /\ l.client = c /\ Listing = {c}
<1>1. PICK i \in DOMAIN loading : loading[i].client = c  BY DEF IsLoading
<1>2. loading # <<>>  BY <1>1
<1>3. PICK l \in LoadingSet : loading = <<l>>  BY <1>2 DEF TypeInv
<1>4. i = 1 /\ loading[1] = l  BY <1>1, <1>3
<1>5. ToSet(loading) = {l}  BY <1>3, ListingOfOne
<1>6. QED  BY <1>1, <1>3, <1>4, <1>5 DEF Listing

\* The entry that is removed is the only one.
LEMMA LoadingPopped ==
  ASSUME NEW l, NEW i, loading = <<l>>, loading' = SwapPop(loading, i)
  PROVE  loading' = <<>> /\ Listing' = {}
<1>1. Len(loading) = 1 /\ 1 .. 1 - 1 = {}  OBVIOUS
<1>2. loading' = <<>>  BY <1>1 DEF SwapPop
<1>3. ToSet(loading') = {}  BY <1>2, ListingOfOne
<1>4. QED  BY <1>2, <1>3 DEF Listing

\* The entry that is found is the only one.
LEMMA LoadingFound ==
  ASSUME NEW l, loading = <<l>>
  PROVE  LoadingIndex(l.client) = 1
<1>1. {i \in 1 .. Len(loading) : loading[i].client = l.client} = {1}  OBVIOUS
<1>2. Min({1}) = 1  BY MinIs
<1>3. QED  BY <1>1, <1>2 DEF LoadingIndex, SelectInSeq

\* Steps that leave the shutdown and the zone manager alone.
LEMMA ClientFrame ==
  ASSUME IInv, mainQueue # <<>>, mainQueue' = Tail(mainQueue),
         UNCHANGED <<stops, zmgr, late>>, dbQueue' \in Seq(QuerySet),
         loading' = <<>> \/ \E l \in LoadingSet : loading' = <<l>>,
         RequestInv', ClientsHaveOneOwner', HandedToItsZone'
  PROVE  IInv'
<1>1. /\ mainQueue' \in Seq(MessageSet) /\ NewsOnce(mainQueue')
      /\ Elements(mainQueue') \subseteq Elements(mainQueue)
  BY TakeStep
<1>2. UNCHANGED <<shutdownState, running, told, ztRunning, ztTold, zts, ztCount, byZone, created,
                  started, late>>
  BY DEF stops, zmgr
<1>3. TypeInv'  BY <1>1, <1>2 DEF IInv, TypeInv
<1>4. ShutdownInv'
  <2>1. PICK Q, R : Q = Elements(mainQueue) /\ R = Elements(mainQueue')  OBVIOUS
  <2>2. R \subseteq Q  BY <1>1, <2>1
  <2>3. QED  BY <1>2, <2>1, <2>2 DEF IInv, ShutdownInv
<1>5. ThreadInv'
  <2>1. \A z : Listed(z) => Listed(z)'  BY <1>2 DEF Listed
  <2>2. \A n \in Elements(mainQueue') : n.zop = "ZoneThread" => Listed(n.zt)' /\ n.zt \notin ztRunning'
    BY <1>1, <1>2, <2>1 DEF IInv, ThreadInv
  <2>3. QED  BY <1>2, <2>1, <2>2 DEF IInv, ThreadInv
<1>6. PlaceInv'  BY <1>2 DEF IInv, PlaceInv
<1>7. QED  BY <1>1, <1>3, <1>4, <1>5, <1>6 DEF IInv

\* cmgr_handle_zone_from_char_select: the client is new, and what it overwrites is lost.
LEMMA ZoneFromCharSelectInv ==
  ASSUME IInv, mainQueue # <<>>, NEW h, h = Head(mainQueue), h.zop = "ZoneFromCharSelect",
         NEW c, c = h.client, ZoneFromCharSelect(c), UNCHANGED asked
  PROVE  IInv'
<1>1. mainQueue' = Tail(mainQueue) /\ UNCHANGED <<stops, zmgr, handed, unlucky, late>>
  BY DEF ZoneFromCharSelect
<1>2. /\ Elements(mainQueue') \subseteq Elements(mainQueue) /\ h \in Elements(mainQueue)
      /\ \A m \in Elements(mainQueue') : ~SameNews(h, m)
  BY <1>1, TakeStep
<1>3. c \in Requests /\ c \in asked /\ c \notin Seen  BY <1>2 DEF IInv, RequestInv
<1>4. dbQueue \in Seq(QuerySet)
      /\ Query("LoadCharacter", c) \in QuerySet /\ Query("LoadInventory", c) \in QuerySet
  BY <1>3 DEF IInv, TypeInv, Query, QuerySet
<1>5. Loading(c) \in LoadingSet /\ Loading(c).client = c
  BY <1>3 DEF Loading, LoadingSet, MaybeZone
<1>6. /\ dbQueue' \in Seq(QuerySet)
      /\ \/ loading' = <<Loading(c)>> /\ lost' = lost \cup Listing /\ allocated' = allocated \cup {c}
         \/ loading' = <<>> /\ lost' = lost \cup Listing /\ allocated' = allocated
         \/ UNCHANGED <<loading, lost, allocated>>
  <2>1. CASE StartLoading(c)
    <3>1. <<Query("LoadCharacter", c), Query("LoadInventory", c)>> \in Seq(QuerySet)  BY <1>4
    <3>2. dbQueue' \in Seq(QuerySet)  BY <1>4, <2>1, <3>1, ConcatProperties DEF StartLoading
    <3>3. QED  BY <2>1, <3>2 DEF StartLoading, Listing
  <2>2. CASE FailToLoad(c)
    <3>1. dbQueue' \in {dbQueue, Append(dbQueue, Query("LoadCharacter", c))}
      BY <2>2 DEF FailToLoad
    <3>2. dbQueue' \in Seq(QuerySet)  BY <1>4, <3>1, AppendProperties
    <3>3. QED  BY <2>2, <3>2 DEF FailToLoad, Listing
  <2>3. QED  BY <2>1, <2>2 DEF ZoneFromCharSelect
<1>7. loading' = <<>> \/ \E l \in LoadingSet : loading' = <<l>>
  BY <1>5, <1>6 DEF IInv, TypeInv
<1>8. /\ \/ Listing' = {c} /\ lost' = lost \cup Listing /\ allocated' = allocated \cup {c}
         \/ Listing' = {} /\ lost' = lost \cup Listing /\ allocated' = allocated
         \/ Listing' = Listing /\ UNCHANGED <<lost, allocated>>
      /\ Zoned' = Zoned
  <2>1. loading' = <<Loading(c)>> => Listing' = {c}  BY <1>5, ListingOfOne DEF Listing
  <2>2. loading' = <<>> => Listing' = {}  BY ListingOfOne DEF Listing
  <2>3. loading' = loading => Listing' = Listing  BY DEF Listing
  <2>4. Zoned' = Zoned  BY <1>1 DEF Zoned
  <2>5. QED  BY <1>6, <2>1, <2>2, <2>3, <2>4
<1>9. ClientsHaveOneOwner'
  <2>1. ClientsHaveOneOwner  BY DEF IInv
  <2>2. UNCHANGED <<handed, unlucky>>  BY <1>1
  <2>3. QED  BY <1>3, <1>8, <2>1, <2>2, OwnersAre, OwnersAreNext
<1>10. Seen' \subseteq Seen \cup {c}  BY <1>8, OwnersAre, OwnersAreNext
<1>11. RequestInv'
  <2>1. Seen' \subseteq asked'  BY <1>3, <1>10 DEF IInv, RequestInv
  <2>2. ASSUME NEW m \in Elements(mainQueue'), m.zop = "ZoneFromCharSelect"
        PROVE  m.client \in (Requests \cap asked') \ Seen'
    <3>1. m \in Elements(mainQueue) /\ m.client # c  BY <1>2, <2>2 DEF SameNews
    <3>2. m.client \in (Requests \cap asked) \ Seen  BY <2>2, <3>1 DEF IInv, RequestInv
    <3>3. QED  BY <1>10, <3>1, <3>2
  <2>3. QED  BY <2>1, <2>2 DEF RequestInv
<1>12. HandedToItsZone'  BY <1>1 DEF zmgr, IInv, HandedToItsZone
<1>13. QED  BY <1>1, <1>6, <1>7, <1>9, <1>11, <1>12, ClientFrame

\* What loading does to the owners: the client that loads is kept, destroyed, handed
\* over, or both handed over and destroyed.
LEMMA OwnersStep ==
  ASSUME IInv, NEW c, NEW to, Elements(mainQueue') \subseteq Elements(mainQueue),
         UNCHANGED <<lost, asked>>, Listing = {c},
         \/ UNCHANGED <<Listing, handed, allocated, unlucky>>
         \/ Listing' = {} /\ allocated' = allocated \ {c} /\ UNCHANGED <<handed, unlucky>>
         \/ Listing' = {} /\ handed' = handed \cup {to} /\ to.client = c
            /\ UNCHANGED <<allocated, unlucky>>
         \/ Listing' = {} /\ handed' = handed \cup {to} /\ to.client = c
            /\ allocated' = allocated \ {c} /\ unlucky' = unlucky \cup {c}
  PROVE  ClientsHaveOneOwner' /\ RequestInv'
<1>1. ClientsHaveOneOwner  BY DEF IInv
<1>2. CASE UNCHANGED <<Listing, handed, allocated, unlucky>>
  <2>1. Zoned' = Zoned  BY <1>2 DEF Zoned
  <2>2. Seen' = Seen  BY <1>2, <2>1, OwnersAre, OwnersAreNext
  <2>3. ClientsHaveOneOwner'  BY <1>1, <1>2, <2>1, OwnersAre, OwnersAreNext
  <2>4. QED  BY <2>2, <2>3 DEF IInv, RequestInv
<1>3. CASE Listing' = {} /\ allocated' = allocated \ {c} /\ UNCHANGED <<handed, unlucky>>
  <2>1. Zoned' = Zoned  BY <1>3 DEF Zoned
  <2>2. Seen' \subseteq Seen  BY <1>3, <2>1, OwnersAre, OwnersAreNext
  <2>3. ClientsHaveOneOwner'  BY <1>1, <1>3, <2>1, OwnersAre, OwnersAreNext
  <2>4. QED  BY <2>2, <2>3 DEF IInv, RequestInv
<1>4. CASE /\ Listing' = {} /\ handed' = handed \cup {to} /\ to.client = c
           /\ \/ UNCHANGED <<allocated, unlucky>>
              \/ allocated' = allocated \ {c} /\ unlucky' = unlucky \cup {c}
  <2>1. Zoned' = Zoned \cup {c}  BY <1>4 DEF Zoned
  <2>2. c \notin Zoned /\ \A h \in handed : h.client # c  BY <1>1, OwnersAre DEF Zoned
  <2>3. \A h1, h2 \in handed' : h1.client = h2.client => h1 = h2
    BY <1>1, <1>4, <2>2, OwnersAre
  <2>4. Seen' \subseteq Seen  BY <1>4, <2>1, OwnersAre, OwnersAreNext
  <2>5. ClientsHaveOneOwner'  BY <1>1, <1>4, <2>1, <2>2, <2>3, OwnersAre, OwnersAreNext
  <2>6. QED  BY <2>4, <2>5 DEF IInv, RequestInv
<1>5. QED  BY <1>2, <1>3, <1>4

-----------------------------------------------------------------------------
(* Placing a client on a zone thread.                                      *)

\* A list of threads that extends the zone manager's by at most a new one.
ThreadsOK(s, n) ==
  /\ s \in Seq(ThreadSet) /\ Len(s) >= Len(zts)
  /\ n \in {ztCount, ztCount + 1} /\ n <= Len(s)
  /\ \A i \in 1 .. ztCount : s[i].zt = zts[i].zt
  /\ n > ztCount => s[ztCount + 1].zt = started + 1

\* What the zone manager knows of its zones is right, if the threads run.
PlacesOK(s, n, b, cr) ==
  /\ b \in Seq(PlaceSet) /\ cr \subseteq CreatedSet /\ IsFiniteSet(cr) /\ created \subseteq cr
  /\ \A k \in 1 .. Len(b) :
       /\ b[k].ztIndex \in 1 .. Len(s)
       /\ shutdownState < 3 =>
            b[k].ztIndex <= n /\ [zt |-> s[b[k].ztIndex].zt, zone |-> b[k].zone] \in cr

\* A client for the zone can be put at index at.
AtOK(s, at, zone, cr) ==
  /\ at \in 0 .. Len(s)
  /\ shutdownState < 3 /\ at # 0 => [zt |-> s[at].zt, zone |-> zone] \in cr

PlacementSet == [zts : Seq(ThreadSet), count : Nat, at : Nat, spent : Nat, byZone : Seq(PlaceSet),
                 created : SUBSET CreatedSet]

PlacementOK(p, zone) ==
  /\ p \in PlacementSet
  /\ ThreadsOK(p.zts, p.count) /\ PlacesOK(p.zts, p.count, p.byZone, p.created)
  /\ AtOK(p.zts, p.at, zone, p.created)

\* The greater of two numbers.
LEMMA MaxIs ==
  ASSUME NEW a \in Nat, NEW b \in Nat
  PROVE  Max({a, b}) \in Nat /\ Max({a, b}) >= a /\ Max({a, b}) >= b /\ Max({a, b}) \in {a, b}
<1>1. \E x \in {a, b} : \A y \in {a, b} : x >= y
  <2>1. CASE a >= b  BY <2>1
  <2>2. CASE ~(a >= b)  BY <2>2
  <2>3. QED  BY <2>1, <2>2
<1>2. PICK m : m = Max({a, b})  OBVIOUS
<1>3. m \in {a, b} /\ \A y \in {a, b} : m >= y  BY <1>1, <1>2 DEF Max
<1>4. QED  BY <1>2, <1>3

\* The lists as the zone manager has them.
LEMMA ThreadsAre ==
  ASSUME IInv
  PROVE  /\ zts \in Seq(ThreadSet) /\ Len(zts) \in Nat /\ ztCount \in 0 .. Len(zts) /\ ztCount \in Nat
         /\ \A i \in 1 .. Len(zts) : zts[i] \in ThreadSet
         /\ started \in Nat /\ shutdownState \in Nat
         /\ ThreadsOK(zts, ztCount) /\ PlacesOK(zts, ztCount, byZone, created)
<1>1. zts \in Seq(ThreadSet) /\ Len(zts) \in Nat /\ ztCount \in 0 .. Len(zts) /\ started \in Nat
      /\ shutdownState \in Nat
  BY LenProperties DEF IInv, TypeInv
<1>2. \A i \in 1 .. Len(zts) : zts[i] \in ThreadSet  BY <1>1, ElementOfSeq
<1>3. ztCount \in Nat  BY <1>1
<1>4. ThreadsOK(zts, ztCount)  BY <1>1, <1>3 DEF ThreadsOK
<1>5. PlacesOK(zts, ztCount, byZone, created)  BY DEF IInv, TypeInv, PlaceInv, PlacesOK
<1>6. QED  BY <1>1, <1>2, <1>3, <1>4, <1>5

\* zmgr_add_zt.
LEMMA NewThreadOK ==
  ASSUME IInv, NEW p, p = WithNewThread
  PROVE  ThreadsOK(p.zts, p.count) /\ p.at \in 1 .. p.count /\ p.count \in Nat /\ p.spent \in Nat
<1>1. PICK n \in Nat, l \in Nat, s \in Nat : n = ztCount /\ l = Len(zts) /\ s = started
  BY ThreadsAre
<1>2. n <= l  BY <1>1, ThreadsAre
<1>3. PICK m \in Nat : m = Max({l, n + 1}) /\ m >= l /\ m >= n + 1 /\ m \in {l, n + 1}  BY MaxIs
<1>4. PICK e : e = [zt |-> s + 1, zoneCount |-> 0, clientCount |-> 0]  OBVIOUS
<1>5. e \in ThreadSet /\ e.zt = s + 1  BY <1>4 DEF ThreadSet
<1>6. PICK f : f = [i \in 1 .. m |-> IF i = n + 1 THEN e ELSE zts[i]]  OBVIOUS
<1>7. \A i \in 1 .. m : i # n + 1 => i \in 1 .. l  BY <1>2, <1>3
<1>8. f \in [1 .. m -> ThreadSet]  BY <1>1, <1>5, <1>6, <1>7, ThreadsAre
<1>9. f \in Seq(ThreadSet) /\ Len(f) = m  BY <1>8
<1>10. \A i \in 1 .. n : i \in 1 .. m /\ i # n + 1  BY <1>3
<1>11. \A i \in 1 .. n : f[i].zt = zts[i].zt  BY <1>6, <1>10
<1>12. n + 1 \in 1 .. m  BY <1>3
<1>13. f[n + 1].zt = s + 1  BY <1>5, <1>6, <1>12
<1>14. p.zts = f /\ p.count = n + 1 /\ p.at = n + 1 /\ p.spent = 0
  BY <1>1, <1>3, <1>4, <1>6 DEF WithNewThread
<1>15. ThreadsOK(f, n + 1)  BY <1>1, <1>3, <1>9, <1>11, <1>13 DEF ThreadsOK
<1>16. n + 1 \in 1 .. n + 1 /\ n + 1 \in Nat /\ 0 \in Nat  OBVIOUS
<1>17. QED  BY <1>14, <1>15, <1>16

\* zmgr_select_best_zt_for_new_zone.
LEMMA SelectionsOK ==
  ASSUME IInv, NEW p \in Selections
  PROVE  ThreadsOK(p.zts, p.count) /\ p.at \in 0 .. p.count /\ p.count \in Nat /\ p.spent \in Nat
<1>1. CASE p = WithNewThread
  <2>1. ThreadsOK(p.zts, p.count) /\ p.at \in 1 .. p.count /\ p.count \in Nat /\ p.spent \in Nat
    BY <1>1, NewThreadOK
  <2>2. QED  BY <2>1
<1>2. CASE p # WithNewThread
  <2>1. PICK best : best = {i \in 1 .. ztCount : \A j \in 1 .. ztCount : Score(zts[i]) <= Score(zts[j])}
    OBVIOUS
  <2>2. p = [zts |-> zts, count |-> ztCount, at |-> IF best = {} THEN 0 ELSE Min(best),
             spent |-> IF ztCount < MaxZoneThreads THEN 1 ELSE 0]
    BY <1>2, <2>1 DEF Selections
  <2>3. ztCount \in Nat  BY ThreadsAre
  <2>4. best \subseteq Nat /\ best \subseteq 1 .. ztCount  BY <2>1, <2>3
  <2>5. best # {} => Min(best) \in best  BY <2>4, MinIs
  <2>6. (IF best = {} THEN 0 ELSE Min(best)) \in 0 .. ztCount
    <3>1. CASE best = {}  BY <2>3, <3>1
    <3>2. CASE best # {}
      <4>1. PICK x : x = Min(best)  OBVIOUS
      <4>2. x \in 1 .. ztCount  BY <2>4, <2>5, <3>2, <4>1
      <4>3. QED  BY <2>3, <3>2, <4>1, <4>2
    <3>3. QED  BY <3>1, <3>2
  <2>7. p.zts = zts /\ p.count = ztCount /\ p.at \in 0 .. ztCount  BY <2>2, <2>6
  <2>8. p.spent \in Nat  BY <2>2
  <2>9. QED  BY <2>3, <2>7, <2>8, ThreadsAre
<1>3. QED  BY <1>1, <1>2

\* A thread's counts do not matter.
LEMMA CountChanged ==
  ASSUME IInv, NEW s \in Seq(ThreadSet), NEW n, NEW at \in 1 .. Len(s), NEW e \in ThreadSet,
         e.zt = s[at].zt, NEW r, r = [s EXCEPT ![at] = e], NEW b, NEW cr, NEW zone, NEW at2
  PROVE  /\ ThreadsOK(s, n) => ThreadsOK(r, n)
         /\ PlacesOK(s, n, b, cr) => PlacesOK(r, n, b, cr)
         /\ AtOK(s, at2, zone, cr) => AtOK(r, at2, zone, cr)
         /\ r \in Seq(ThreadSet) /\ Len(r) = Len(s) /\ \A i \in 1 .. Len(s) : r[i].zt = s[i].zt
<1>1. r \in Seq(ThreadSet) /\ Len(r) = Len(s) /\ \A i \in 1 .. Len(s) : r[i] = IF i = at THEN e ELSE s[i]
  BY ExceptSeq
<1>2. \A i \in 1 .. Len(s) : r[i].zt = s[i].zt  BY <1>1
<1>3. Len(s) \in Nat  BY LenProperties
<1>4. ASSUME ThreadsOK(s, n) PROVE ThreadsOK(r, n)
  <2>1. n <= Len(s) /\ n \in {ztCount, ztCount + 1} /\ Len(s) >= Len(zts) /\ ztCount \in 0 .. Len(zts)
        /\ Len(zts) \in Nat
    BY <1>4, ThreadsAre DEF ThreadsOK
  <2>2. \A i \in 1 .. ztCount : i \in 1 .. Len(s)  BY <1>3, <2>1
  <2>3. n > ztCount => ztCount + 1 \in 1 .. Len(s)  BY <1>3, <2>1
  <2>4. QED  BY <1>1, <1>2, <1>4, <2>1, <2>2, <2>3 DEF ThreadsOK
<1>5. PlacesOK(s, n, b, cr) => PlacesOK(r, n, b, cr)  BY <1>1, <1>2 DEF PlacesOK
<1>6. AtOK(s, at2, zone, cr) => AtOK(r, at2, zone, cr)
  <2>1. HAVE AtOK(s, at2, zone, cr)
  <2>2. at2 # 0 => at2 \in 1 .. Len(s)  BY <1>3, <2>1 DEF AtOK
  <2>3. QED  BY <1>1, <1>2, <2>1, <2>2 DEF AtOK
<1>7. QED  BY <1>1, <1>2, <1>4, <1>5, <1>6

\* "Check if we have this zone running already"
LEMMA KnownZoneIs ==
  ASSUME NEW zone, KnownZone(zone) # 0
  PROVE  KnownZone(zone) \in 1 .. Len(byZone) /\ byZone[KnownZone(zone)].zone = zone
<1>1. PICK I : I = {i \in 1 .. Len(byZone) : byZone[i].zone = zone}  OBVIOUS
<1>2. KnownZone(zone) = IF I # {} THEN Min(I) ELSE 0  BY <1>1 DEF KnownZone, SelectInSeq
<1>3. I # {} /\ KnownZone(zone) = Min(I)  BY <1>2
<1>4. I \subseteq Nat  BY <1>1
<1>5. Min(I) \in I  BY <1>3, <1>4, MinIs
<1>6. QED  BY <1>1, <1>3, <1>5

\* A zone is created on a thread.
LEMMA ZonePlaced ==
  ASSUME IInv, NEW zone \in MaybeZone, NEW s, NEW n, ThreadsOK(s, n), NEW at, at \in 1 .. n,
         NEW b, b = Append(byZone, [zone |-> zone, ztIndex |-> at]),
         NEW cr, cr = created \cup CreateZone(s[at].zt, zone)
  PROVE  PlacesOK(s, n, b, cr) /\ AtOK(s, at, zone, cr)
<1>1. s \in Seq(ThreadSet) /\ n <= Len(s) /\ Len(s) \in Nat /\ n \in Nat /\ Len(zts) <= Len(s)
      /\ ztCount <= n /\ ztCount \in Nat /\ Len(zts) \in Nat
  BY ThreadsAre, LenProperties DEF ThreadsOK
<1>2. at \in 1 .. Len(s) /\ at \in Nat \ {0}  BY <1>1
<1>3. s[at] \in ThreadSet  BY <1>1, <1>2, ElementOfSeq
<1>4. PICK e : e = [zone |-> zone, ztIndex |-> at]  OBVIOUS
<1>5. e \in PlaceSet /\ e.zone = zone /\ e.ztIndex = at  BY <1>2, <1>4 DEF PlaceSet
<1>6. PICK l \in Nat : l = Len(byZone)  BY LenProperties DEF IInv, TypeInv
<1>7. /\ b \in Seq(PlaceSet) /\ Len(b) = l + 1
      /\ (\A k \in 1 .. l : b[k] = byZone[k]) /\ b[l + 1] = e
  BY <1>4, <1>5, <1>6, AppendProperties DEF IInv, TypeInv
<1>8. PICK c : c = [zt |-> s[at].zt, zone |-> zone]  OBVIOUS
<1>9. c \in CreatedSet  BY <1>3, <1>8 DEF CreatedSet, ThreadSet
<1>10. cr \in {created, created \cup {c}}  BY <1>8 DEF CreateZone
<1>11. created \subseteq CreatedSet /\ IsFiniteSet(created)  BY DEF IInv, TypeInv
<1>12. IsFiniteSet(created \cup {c})  BY <1>11, FS_AddElement
<1>13. cr \subseteq CreatedSet /\ IsFiniteSet(cr) /\ created \subseteq cr  BY <1>9, <1>10, <1>11, <1>12
<1>14. shutdownState < 3 => c \in cr
  <2>1. HAVE shutdownState < 3
  <2>2. shutdownState \in Nat  BY ThreadsAre
  <2>3. ztTold = {}  BY <2>1, <2>2 DEF IInv, ThreadInv
  <2>4. QED  BY <1>8, <2>3 DEF CreateZone
<1>15. ASSUME NEW k \in 1 .. l + 1
       PROVE  /\ b[k].ztIndex \in 1 .. Len(s)
              /\ shutdownState < 3 =>
                   b[k].ztIndex <= n /\ [zt |-> s[b[k].ztIndex].zt, zone |-> b[k].zone] \in cr
  <2>1. CASE k = l + 1
    <3>1. b[k].ztIndex = at /\ b[k].zone = zone  BY <1>5, <1>7, <2>1
    <3>2. at <= n  BY <1>1
    <3>3. QED  BY <1>2, <1>8, <1>14, <3>1, <3>2
  <2>2. CASE k # l + 1
    <3>1. k \in 1 .. l /\ b[k] = byZone[k]  BY <1>7, <2>2
    <3>2. PICK i : i = byZone[k].ztIndex  OBVIOUS
    <3>3. i \in 1 .. Len(zts) /\ (shutdownState < 3 => i <= ztCount
            /\ [zt |-> zts[i].zt, zone |-> byZone[k].zone] \in created)
      BY <1>6, <3>1, <3>2 DEF IInv, PlaceInv
    <3>4. i \in 1 .. Len(s)  BY <1>1, <3>3
    <3>5. shutdownState < 3 => i <= n /\ [zt |-> s[i].zt, zone |-> byZone[k].zone] \in cr
      <4>1. HAVE shutdownState < 3
      <4>2. i \in 1 .. ztCount /\ i <= n  BY <1>1, <3>3, <4>1
      <4>3. s[i].zt = zts[i].zt  BY <4>2 DEF ThreadsOK
      <4>4. QED  BY <1>13, <3>3, <4>1, <4>2, <4>3
    <3>6. QED  BY <3>1, <3>2, <3>4, <3>5
  <2>3. QED  BY <2>1, <2>2
<1>16. PlacesOK(s, n, b, cr)  BY <1>7, <1>13, <1>15 DEF PlacesOK
<1>17. AtOK(s, at, zone, cr)  BY <1>1, <1>2, <1>8, <1>14 DEF AtOK
<1>18. QED  BY <1>16, <1>17

\* A thread was started at most; the zones are where they were.
LEMMA ZonesStay ==
  ASSUME IInv, NEW s, NEW n, ThreadsOK(s, n)
  PROVE  PlacesOK(s, n, byZone, created)
<1>1. s \in Seq(ThreadSet) /\ n <= Len(s) /\ Len(s) \in Nat /\ n \in Nat /\ Len(zts) <= Len(s)
      /\ ztCount <= n /\ ztCount \in Nat /\ Len(zts) \in Nat
  BY ThreadsAre, LenProperties DEF ThreadsOK
<1>2. ASSUME NEW k \in 1 .. Len(byZone)
       PROVE  /\ byZone[k].ztIndex \in 1 .. Len(s)
              /\ shutdownState < 3 => /\ byZone[k].ztIndex <= n
                                      /\ [zt |-> s[byZone[k].ztIndex].zt, zone |-> byZone[k].zone] \in created
  <2>1. PICK i : i = byZone[k].ztIndex  OBVIOUS
  <2>2. i \in 1 .. Len(zts) /\ (shutdownState < 3 => i <= ztCount
          /\ [zt |-> zts[i].zt, zone |-> byZone[k].zone] \in created)
    BY <2>1 DEF IInv, PlaceInv
  <2>3. i \in 1 .. Len(s)  BY <1>1, <2>2
  <2>4. shutdownState < 3 => i <= n /\ [zt |-> s[i].zt, zone |-> byZone[k].zone] \in created
    <3>1. HAVE shutdownState < 3
    <3>2. i \in 1 .. ztCount /\ i <= n  BY <1>1, <2>2, <3>1
    <3>3. s[i].zt = zts[i].zt  BY <3>2 DEF ThreadsOK
    <3>4. QED  BY <2>2, <3>1, <3>2, <3>3
  <2>5. QED  BY <2>1, <2>3, <2>4
<1>3. QED  BY <1>2 DEF IInv, TypeInv, PlacesOK

\* zmgr_get_or_start_zone.
LEMMA PlacementsOK ==
  ASSUME IInv, NEW zone \in MaybeZone, NEW p \in Placements(zone)
  PROVE  PlacementOK(p, zone)
<1>1. byZone \in Seq(PlaceSet) /\ created \subseteq CreatedSet  BY DEF IInv, TypeInv
<1>2. CASE KnownZone(zone) # 0
  <2>1. PICK known : known = KnownZone(zone)  OBVIOUS
  <2>2. p = [zts |-> zts, count |-> ztCount, at |-> byZone[known].ztIndex, spent |-> 0,
             byZone |-> byZone, created |-> created]
    BY <1>2, <2>1 DEF Placements
  <2>3. known \in 1 .. Len(byZone) /\ byZone[known].zone = zone  BY <1>2, <2>1, KnownZoneIs
  <2>4. PICK at : at = byZone[known].ztIndex  OBVIOUS
  <2>5. at \in 1 .. Len(zts) /\ at \in Nat
    <3>1. PlaceInv  BY DEF IInv
    <3>2. at \in 1 .. Len(zts)  BY <2>3, <2>4, <3>1 DEF PlaceInv
    <3>3. Len(zts) \in Nat  BY ThreadsAre
    <3>4. QED  BY <3>2, <3>3
  <2>6. AtOK(zts, at, zone, created)
    <3>1. at \in 0 .. Len(zts)  BY <2>5
    <3>2. shutdownState < 3 => [zt |-> zts[at].zt, zone |-> zone] \in created
      BY <2>3, <2>4 DEF IInv, PlaceInv
    <3>3. QED  BY <3>1, <3>2 DEF AtOK
  <2>7. p.zts = zts /\ p.count = ztCount /\ p.at = at /\ p.byZone = byZone /\ p.created = created
    BY <2>2, <2>4
  <2>8. p \in PlacementSet
    <3>1. zts \in Seq(ThreadSet) /\ ztCount \in Nat  BY ThreadsAre
    <3>2. QED  BY <1>1, <2>2, <2>4, <2>5, <3>1 DEF PlacementSet
  <2>9. QED  BY <2>6, <2>7, <2>8, ThreadsAre DEF PlacementOK
<1>3. CASE KnownZone(zone) = 0
  <2>1. CASE p \in {[zts |-> [x.zts EXCEPT ![x.at].zoneCount = @ + 1], count |-> x.count, at |-> x.at,
                     spent |-> x.spent, byZone |-> Append(byZone, [zone |-> zone, ztIndex |-> x.at]),
                     created |-> created \cup CreateZone(x.zts[x.at].zt, zone)] :
                      x \in {y \in Selections : y.at # 0}}
    <3>1. PICK x \in Selections :
            /\ x.at # 0
            /\ p = [zts |-> [x.zts EXCEPT ![x.at].zoneCount = @ + 1], count |-> x.count, at |-> x.at,
                    spent |-> x.spent, byZone |-> Append(byZone, [zone |-> zone, ztIndex |-> x.at]),
                    created |-> created \cup CreateZone(x.zts[x.at].zt, zone)]
      BY <2>1
    <3>2. PICK s, n, at : s = x.zts /\ n = x.count /\ at = x.at  OBVIOUS
    <3>3. ThreadsOK(s, n) /\ at \in 1 .. n /\ n \in Nat /\ x.spent \in Nat
      <4>1. ThreadsOK(s, n) /\ at \in 0 .. n /\ n \in Nat /\ x.spent \in Nat  BY <3>2, SelectionsOK
      <4>2. QED  BY <3>1, <3>2, <4>1
    <3>4. s \in Seq(ThreadSet) /\ at \in 1 .. Len(s) /\ at \in Nat
      BY <3>3, LenProperties DEF ThreadsOK
    <3>5. PICK e, r, b, cr : /\ e = [s[at] EXCEPT !.zoneCount = @ + 1] /\ r = [s EXCEPT ![at] = e]
                             /\ b = Append(byZone, [zone |-> zone, ztIndex |-> at])
                             /\ cr = created \cup CreateZone(s[at].zt, zone)
      OBVIOUS
    <3>6. p = [zts |-> r, count |-> n, at |-> at, spent |-> x.spent, byZone |-> b, created |-> cr]
      BY <3>1, <3>2, <3>5
    <3>7. e \in ThreadSet /\ e.zt = s[at].zt
      <4>1. s[at] \in ThreadSet  BY <3>4, ElementOfSeq
      <4>2. QED  BY <3>5, <4>1 DEF ThreadSet
    <3>8. PlacesOK(s, n, b, cr) /\ AtOK(s, at, zone, cr)  BY <3>3, <3>5, ZonePlaced
    <3>9. ThreadsOK(r, n) /\ PlacesOK(r, n, b, cr) /\ AtOK(r, at, zone, cr) /\ r \in Seq(ThreadSet)
      <4>1. r = [s EXCEPT ![at] = e]  BY <3>5
      <4>2. /\ ThreadsOK(s, n) => ThreadsOK(r, n)
            /\ PlacesOK(s, n, b, cr) => PlacesOK(r, n, b, cr)
            /\ AtOK(s, at, zone, cr) => AtOK(r, at, zone, cr)
            /\ r \in Seq(ThreadSet)
        BY <3>4, <3>7, <4>1, CountChanged, Zenon
      <4>3. QED  BY <3>3, <3>8, <4>2, Zenon
    <3>10. p \in PlacementSet
      <4>1. b \in Seq(PlaceSet) /\ cr \in SUBSET CreatedSet  BY <3>8 DEF PlacesOK
      <4>2. QED  BY <3>3, <3>4, <3>6, <3>9, <4>1 DEF PlacementSet
    <3>11. p.zts = r /\ p.count = n /\ p.at = at /\ p.byZone = b /\ p.created = cr  BY <3>6
    <3>12. QED  BY <3>9, <3>10, <3>11 DEF PlacementOK
  <2>2. CASE p \in {[zts |-> x.zts, count |-> x.count, at |-> 0,
                     spent |-> IF x.at = 0 THEN x.spent ELSE x.spent + 1,
                     byZone |-> byZone, created |-> created] : x \in Selections}
    <3>1. PICK x \in Selections :
            p = [zts |-> x.zts, count |-> x.count, at |-> 0,
                 spent |-> IF x.at = 0 THEN x.spent ELSE x.spent + 1,
                 byZone |-> byZone, created |-> created]
      BY <2>2
    <3>2. ThreadsOK(x.zts, x.count) /\ x.count \in Nat /\ x.spent \in Nat  BY SelectionsOK
    <3>3. PlacesOK(x.zts, x.count, byZone, created)  BY <3>2, ZonesStay
    <3>4. x.zts \in Seq(ThreadSet) /\ Len(x.zts) \in Nat  BY <3>2, LenProperties DEF ThreadsOK
    <3>5. AtOK(x.zts, 0, zone, created)  BY <3>4 DEF AtOK
    <3>6. p \in PlacementSet
      <4>1. (IF x.at = 0 THEN x.spent ELSE x.spent + 1) \in Nat  BY <3>2
      <4>2. QED  BY <1>1, <3>1, <3>2, <3>4, <4>1 DEF PlacementSet
    <3>7. p.zts = x.zts /\ p.count = x.count /\ p.at = 0 /\ p.byZone = byZone /\ p.created = created
      BY <3>1
    <3>8. QED  BY <3>2, <3>3, <3>5, <3>6, <3>7 DEF PlacementOK
  <2>3. QED  BY <1>3, <2>1, <2>2 DEF Placements
<1>4. QED  BY <1>2, <1>3

\* What a placement is made of.
LEMMA PlacementMade ==
  ASSUME NEW s \in Seq(ThreadSet), NEW n \in Nat, NEW at \in Nat, NEW spent \in Nat,
         NEW b \in Seq(PlaceSet), NEW cr \in SUBSET CreatedSet
  PROVE  [zts |-> s, count |-> n, at |-> at, spent |-> spent, byZone |-> b, created |-> cr]
           \in PlacementSet
BY DEF PlacementSet

\* The client is counted on the thread it is placed on.
LEMMA Bumped ==
  ASSUME IInv, NEW zone, NEW p, PlacementOK(p, zone), p.at # 0,
         NEW r, r = [p EXCEPT !.zts[p.at].clientCount = @ + 1]
  PROVE  PlacementOK(r, zone) /\ r.created = p.created
<1>1. PICK s, n, at, b, cr : s = p.zts /\ n = p.count /\ at = p.at /\ b = p.byZone /\ cr = p.created
  OBVIOUS
<1>2. p \in PlacementSet /\ ThreadsOK(s, n) /\ PlacesOK(s, n, b, cr) /\ AtOK(s, at, zone, cr)
  BY <1>1 DEF PlacementOK
<1>3. s \in Seq(ThreadSet) /\ n \in Nat /\ at \in Nat /\ b \in Seq(PlaceSet) /\ cr \subseteq CreatedSet
      /\ p.spent \in Nat
  BY <1>1, <1>2 DEF PlacementSet
<1>4. at \in 1 .. Len(s)
  <2>1. Len(s) \in Nat /\ at # 0  BY <1>1, <1>3, LenProperties
  <2>2. QED  BY <1>2, <2>1 DEF AtOK
<1>5. PICK e : e = [s[at] EXCEPT !.clientCount = @ + 1]  OBVIOUS
<1>6. e \in ThreadSet /\ e.zt = s[at].zt
  <2>1. s[at] \in ThreadSet  BY <1>3, <1>4, ElementOfSeq
  <2>2. QED  BY <1>5, <2>1 DEF ThreadSet
<1>7. PICK u : u = [s EXCEPT ![at] = e]  OBVIOUS
<1>8. ThreadsOK(u, n) /\ PlacesOK(u, n, b, cr) /\ AtOK(u, at, zone, cr) /\ u \in Seq(ThreadSet)
  <2>1. /\ ThreadsOK(s, n) => ThreadsOK(u, n)
        /\ PlacesOK(s, n, b, cr) => PlacesOK(u, n, b, cr)
        /\ AtOK(s, at, zone, cr) => AtOK(u, at, zone, cr)
        /\ u \in Seq(ThreadSet)
    BY <1>3, <1>4, <1>6, <1>7, CountChanged, Zenon
  <2>2. QED  BY <1>2, <2>1, Zenon
<1>9. p = [zts |-> s, count |-> n, at |-> at, spent |-> p.spent, byZone |-> b, created |-> cr]
  BY <1>1, <1>2 DEF PlacementSet
<1>10. r = [p EXCEPT !.zts = u]  BY <1>1, <1>5, <1>7
<1>11. r = [zts |-> u, count |-> n, at |-> at, spent |-> p.spent, byZone |-> b, created |-> cr]
  BY <1>9, <1>10
<1>12. r.zts = u /\ r.count = n /\ r.at = at /\ r.byZone = b /\ r.created = cr  BY <1>11
<1>13. r \in PlacementSet
  <2>1. cr \in SUBSET CreatedSet  BY <1>3
  <2>2. PICK made : made = [zts |-> u, count |-> n, at |-> at, spent |-> p.spent, byZone |-> b,
                            created |-> cr]
    OBVIOUS
  <2>3. made \in PlacementSet
    <3>1. u \in Seq(ThreadSet)  BY <1>8
    <3>2. PICK sp \in Nat : sp = p.spent  BY <1>3
    <3>3. [zts |-> u, count |-> n, at |-> at, spent |-> sp, byZone |-> b, created |-> cr]
            \in PlacementSet
      BY <1>3, <2>1, <3>1, PlacementMade, SMT
    <3>4. QED  BY <2>2, <3>2, <3>3
  <2>4. r = made  BY <1>11, <2>2
  <2>5. QED  BY <2>3, <2>4
<1>14. QED  BY <1>1, <1>8, <1>12, <1>13 DEF PlacementOK

\* The zone manager takes on a placement: a thread that was started is listed, and
\* counts as late when the others are stopping.
LEMMA PlaceStep ==
  ASSUME IInv, mainQueue # <<>>, mainQueue' = Tail(mainQueue),
         NEW zone, NEW r, PlacementOK(r, zone), Place(r),
         UNCHANGED <<shutdownState, running, told, ztTold, dbQueue>>,
         loading' = <<>> \/ \E l \in LoadingSet : loading' = <<l>>
  PROVE  /\ TypeInv' /\ NewsOnce(mainQueue') /\ ShutdownInv' /\ ThreadInv' /\ PlaceInv'
         /\ Elements(mainQueue') \subseteq Elements(mainQueue)
<1>1. /\ mainQueue' \in Seq(MessageSet) /\ NewsOnce(mainQueue')
      /\ Elements(mainQueue') \subseteq Elements(mainQueue)
  BY TakeStep
<1>2. PICK s, n, b, cr, st :
        s = r.zts /\ n = r.count /\ b = r.byZone /\ cr = r.created /\ st = started + 1
  OBVIOUS
<1>3. zts' = s /\ ztCount' = n /\ byZone' = b /\ created' = cr  BY <1>2 DEF Place
<1>4. ThreadsOK(s, n) /\ PlacesOK(s, n, b, cr)  BY <1>2 DEF PlacementOK
<1>5. /\ s \in Seq(ThreadSet) /\ Len(s) \in Nat /\ n \in Nat /\ n <= Len(s) /\ n \in {ztCount, ztCount + 1}
      /\ ztCount \in Nat /\ started \in Nat /\ shutdownState \in Nat
      /\ \A i \in 1 .. ztCount : s[i].zt = zts[i].zt
      /\ n > ztCount => s[ztCount + 1].zt = st
  BY <1>2, <1>4, ThreadsAre, LenProperties DEF ThreadsOK
<1>6. TypeInv'
  <2>1. started' \in Nat  BY <1>2, <1>5 DEF Place
  <2>2. n \in 0 .. Len(s)  BY <1>5
  <2>3. b \in Seq(PlaceSet) /\ cr \subseteq CreatedSet /\ IsFiniteSet(cr)  BY <1>4 DEF PlacesOK
  <2>4. QED  BY <1>1, <1>3, <1>5, <2>1, <2>2, <2>3 DEF IInv, TypeInv
<1>7. PlaceInv'  BY <1>3, <1>4 DEF PlacesOK, PlaceInv
<1>8. \/ n = ztCount /\ UNCHANGED <<started, ztRunning, late>>
      \/ /\ n = ztCount + 1 /\ started' = st /\ ztRunning' = ztRunning \cup {st}
         /\ late' = IF shutdownState >= 3 THEN late \cup {st} ELSE late
  <2>1. CASE n = ztCount
    <3>1. ~(n > ztCount)  BY <1>5, <2>1
    <3>2. QED  BY <1>2, <2>1, <3>1 DEF Place
  <2>2. CASE n = ztCount + 1
    <3>1. n > ztCount  BY <1>5, <2>2
    <3>2. QED  BY <1>2, <2>2, <3>1 DEF Place
  <2>3. QED  BY <1>5, <2>1, <2>2
<1>9. ShutdownInv'
  <2>1. PICK Q, R : Q = Elements(mainQueue) /\ R = Elements(mainQueue')  OBVIOUS
  <2>2. R \subseteq Q  BY <1>1, <2>1
  <2>3. shutdownState >= 4 => ztRunning' \subseteq late'
    <3>1. HAVE shutdownState >= 4
    <3>2. ztRunning \subseteq late /\ shutdownState >= 3  BY <1>5, <3>1 DEF IInv, ShutdownInv
    <3>3. QED  BY <1>8, <3>2
  <2>4. QED  BY <2>1, <2>2, <2>3 DEF IInv, ShutdownInv
<1>10. \A i \in 1 .. ztCount : zts[i].zt \in Nat /\ zts[i].zt <= started /\ zts[i].zt # st
  <2>1. \A i \in 1 .. ztCount : i \in 1 .. Len(zts)  BY ThreadsAre
  <2>2. \A i \in 1 .. ztCount : zts[i].zt \in Nat  BY <2>1, ThreadsAre DEF ThreadSet
  <2>3. \A i \in 1 .. ztCount : zts[i].zt <= started  BY DEF IInv, ThreadInv
  <2>4. QED  BY <1>2, <1>5, <2>2, <2>3
<1>11. \A i \in 1 .. n : i \in 1 .. ztCount \/ (n = ztCount + 1 /\ i = ztCount + 1 /\ s[i].zt = st)
  BY <1>5
<1>12. \A i \in 1 .. ztCount : i \in 1 .. n  BY <1>5
<1>13. \A y : Listed(y) => Listed(y)' /\ y # st
  <2> SUFFICES ASSUME NEW y, Listed(y) PROVE Listed(y)' /\ y # st  OBVIOUS
  <2>1. PICK i \in 1 .. ztCount : zts[i].zt = y  BY DEF Listed
  <2>2. i \in 1 .. n /\ s[i].zt = y  BY <1>5, <1>12, <2>1
  <2>3. QED  BY <1>3, <1>10, <2>1, <2>2 DEF Listed
<1>14. n = ztCount + 1 => Listed(st)'
  <2>1. HAVE n = ztCount + 1
  <2>2. n \in 1 .. n /\ s[n].zt = st  BY <1>5, <2>1
  <2>3. QED  BY <1>3, <2>2 DEF Listed
<1>15. ThreadInv'
  <2>1. \A i \in 1 .. n : s[i].zt <= started'
    <3> SUFFICES ASSUME NEW i \in 1 .. n PROVE s[i].zt <= started'  OBVIOUS
    <3>1. CASE i \in 1 .. ztCount
      <4>1. s[i].zt = zts[i].zt /\ zts[i].zt \in Nat /\ zts[i].zt <= started
        BY <1>5, <1>10, <3>1
      <4>2. started' \in {started, started + 1}  BY <1>2, <1>8
      <4>3. QED  BY <1>5, <4>1, <4>2
    <3>2. CASE n = ztCount + 1 /\ s[i].zt = st
      <4>1. started' = st /\ st \in Nat  BY <1>2, <1>5, <1>8, <3>2
      <4>2. QED  BY <3>2, <4>1
    <3>3. QED  BY <1>11, <3>1, <3>2
  <2>2. \A i, j \in 1 .. n : s[i].zt = s[j].zt => i = j
    <3> SUFFICES ASSUME NEW i \in 1 .. n, NEW j \in 1 .. n, s[i].zt = s[j].zt PROVE i = j  OBVIOUS
    <3>1. \A k \in 1 .. ztCount : s[k].zt # st  BY <1>5, <1>10
    <3>2. CASE i \in 1 .. ztCount /\ j \in 1 .. ztCount
      <4>1. zts[i].zt = zts[j].zt  BY <1>5, <3>2
      <4>2. QED  BY <3>2, <4>1 DEF IInv, ThreadInv
    <3>3. CASE i \notin 1 .. ztCount \/ j \notin 1 .. ztCount
      BY <1>11, <3>1, <3>3
    <3>4. QED  BY <3>2, <3>3
  <2>3. \A y \in ztRunning' : Listed(y)'
    <3>1. \A y \in ztRunning : Listed(y)'  BY <1>13 DEF IInv, ThreadInv
    <3>2. QED  BY <1>8, <1>14, <3>1
  <2>4. ASSUME NEW m \in Elements(mainQueue'), m.zop = "ZoneThread"
        PROVE  Listed(m.zt)' /\ m.zt \notin ztRunning'
    <3>1. PICK y : y = m.zt  OBVIOUS
    <3>2. Listed(y) /\ y \notin ztRunning  BY <1>1, <2>4, <3>1 DEF IInv, ThreadInv
    <3>3. Listed(y)' /\ y # st  BY <1>13, <3>2
    <3>4. y \notin ztRunning'  BY <1>8, <3>2, <3>3
    <3>5. QED  BY <3>1, <3>3, <3>4
  <2>5. ztTold' # {} => shutdownState' >= 3  BY DEF IInv, ThreadInv
  <2>6. QED  BY <1>3, <2>1, <2>2, <2>3, <2>4, <2>5 DEF ThreadInv
<1>16. QED  BY <1>1, <1>6, <1>7, <1>9, <1>15

\* cmgr_check_client_load_complete.
LEMMA LoadCompleteInv ==
  ASSUME IInv, mainQueue # <<>>, mainQueue' = Tail(mainQueue), NEW c, IsLoading(c),
         NEW zone \in MaybeZone, LoadComplete(c, zone),
         UNCHANGED <<shutdownState, running, told, ztTold, dbQueue, lost, asked>>
  PROVE  IInv'
<1>1. PICK l \in LoadingSet : loading = <<l>> /\ Listing = {c}  BY LoadingIs DEF IInv
<1>2. PICK p \in Placements(zone) :
        LET to == [client |-> c, zt |-> p.zts[p.at].zt, zone |-> zone, late |-> shutdownState >= 3]
            success == answers \cup {[client |-> c, ok |-> TRUE]}
        IN
        /\ Place(IF p.at = 0 THEN p ELSE [p EXCEPT !.zts[p.at].clientCount = @ + 1])
        /\ \/ /\ p.at = 0
              /\ DropLoadingClient(answers, c, p.spent)
              /\ UNCHANGED <<handed, unlucky>>
           \/ /\ p.at # 0
              /\ DropLoadingClient(answers, c, p.spent + 1)
              /\ UNCHANGED <<handed, unlucky>>
           \/ /\ p.at # 0
              /\ handed' = handed \cup {to}
              /\ answers' = success
              /\ loading' = SwapPop(loading, LoadingIndex(c))
              /\ Spend(p.spent)
              /\ UNCHANGED <<allocated, unlucky>>
           \/ /\ p.at # 0
              /\ handed' = handed \cup {to}
              /\ unlucky' = unlucky \cup {c}
              /\ \E sent \in {answers, success} : DropLoadingClient(sent, c, p.spent + 1)
  BY DEF LoadComplete
<1>3. PICK to : to = [client |-> c, zt |-> p.zts[p.at].zt, zone |-> zone, late |-> shutdownState >= 3]
  OBVIOUS
<1>4. /\ loading' = SwapPop(loading, LoadingIndex(c))
      /\ \/ allocated' = allocated \ {c} /\ UNCHANGED <<handed, unlucky>>
         \/ p.at # 0 /\ handed' = handed \cup {to} /\ UNCHANGED <<allocated, unlucky>>
         \/ /\ p.at # 0 /\ handed' = handed \cup {to}
            /\ allocated' = allocated \ {c} /\ unlucky' = unlucky \cup {c}
  BY <1>2, <1>3 DEF DropLoadingClient
<1>5. loading' = <<>> /\ Listing' = {}  BY <1>1, <1>4, LoadingPopped
<1>6. PlacementOK(p, zone)  BY PlacementsOK
<1>7. PICK r : /\ Place(r) /\ PlacementOK(r, zone) /\ r.created = p.created
  <2>1. CASE p.at = 0
    <3>1. Place(p)  BY <1>2, <2>1
    <3>2. QED  BY <1>6, <3>1
  <2>2. CASE p.at # 0
    <3>1. PICK r : r = [p EXCEPT !.zts[p.at].clientCount = @ + 1]  OBVIOUS
    <3>2. Place(r)  BY <1>2, <2>2, <3>1
    <3>3. PlacementOK(r, zone) /\ r.created = p.created  BY <1>6, <2>2, <3>1, Bumped
    <3>4. QED  BY <3>2, <3>3
  <2>3. QED  BY <2>1, <2>2
<1>8. /\ TypeInv' /\ NewsOnce(mainQueue') /\ ShutdownInv' /\ ThreadInv' /\ PlaceInv'
      /\ Elements(mainQueue') \subseteq Elements(mainQueue)
  <2>1. UNCHANGED <<shutdownState, running, told, ztTold, dbQueue>>  OBVIOUS
  <2>2. QED  BY <1>5, <1>7, <2>1, PlaceStep
<1>9. to.client = c  BY <1>3
<1>10. ClientsHaveOneOwner' /\ RequestInv'
  <2>1. UNCHANGED <<lost, asked>>  OBVIOUS
  <2>2. QED  BY <1>1, <1>4, <1>5, <1>8, <1>9, <2>1, OwnersStep
<1>11. created' = p.created /\ created \subseteq created'
  <2>1. created' = p.created  BY <1>7 DEF Place
  <2>2. QED  BY <1>6, <2>1 DEF PlacementOK, PlacesOK
<1>12. HandedToItsZone'
  <2>1. \A h \in handed : h.late \/ [zt |-> h.zt, zone |-> h.zone] \in created'
    BY <1>11 DEF IInv, HandedToItsZone
  <2>2. p.at # 0 => to.late \/ [zt |-> to.zt, zone |-> to.zone] \in created'
    <3>1. HAVE p.at # 0
    <3>2. to.zt = p.zts[p.at].zt /\ to.zone = zone /\ (to.late <=> shutdownState >= 3)  BY <1>3
    <3>3. shutdownState < 3 => [zt |-> p.zts[p.at].zt, zone |-> zone] \in created'
      BY <1>6, <1>11, <3>1 DEF PlacementOK, AtOK
    <3>4. shutdownState >= 3 \/ shutdownState < 3  BY ThreadsAre
    <3>5. QED  BY <3>2, <3>3, <3>4
  <2>3. \A h \in handed' : h.late \/ [zt |-> h.zt, zone |-> h.zone] \in created'
    BY <1>4, <2>1, <2>2
  <2>4. QED  BY <2>3 DEF HandedToItsZone
<1>13. QED  BY <1>8, <1>10, <1>12 DEF IInv

\* A query of the client that loads is answered.
Answered(l, zone) == [l EXCEPT !.completed = @ + 1, !.zone = zone]

\* The entry is still one.
LEMMA Counted ==
  ASSUME NEW l \in LoadingSet, NEW zone \in MaybeZone
  PROVE  /\ Answered(l, zone) \in LoadingSet
         /\ Answered(l, zone).client = l.client /\ Answered(l, zone).zone = zone
<1>1. PICK c \in Requests, n \in Nat, z \in MaybeZone : l = [client |-> c, completed |-> n, zone |-> z]
  BY DEF LoadingSet
<1>2. PICK now : now = Answered(l, zone)  OBVIOUS
<1>3. now = [client |-> c, completed |-> n + 1, zone |-> zone]  BY <1>1, <1>2 DEF Answered
<1>4. n + 1 \in Nat  OBVIOUS
<1>5. now \in LoadingSet  BY <1>3, <1>4 DEF LoadingSet
<1>6. now.client = l.client /\ now.zone = zone  BY <1>1, <1>3
<1>7. QED  BY <1>2, <1>5, <1>6

\* cmgr_handle_load_character and cmgr_handle_load_inventory.
LEMMA LoadAnsweredInv ==
  ASSUME IInv, mainQueue # <<>>, NEW m, m = Head(mainQueue), LoadAnswered(m), UNCHANGED asked
  PROVE  IInv'
<1>1. mainQueue' = Tail(mainQueue)
      /\ UNCHANGED <<shutdownState, ended, running, told, ztTold, dbQueue, lost>>
  BY DEF LoadAnswered
<1>2. /\ Elements(mainQueue') \subseteq Elements(mainQueue) /\ m \in MessageSet
  BY <1>1, TakeStep
<1>3. dbQueue' \in Seq(QuerySet)  BY <1>1 DEF IInv, TypeInv
<1>4. PICK c : c = m.client  OBVIOUS
<1>5. CASE ~IsLoading(c) /\ UNCHANGED <<loading, allocated, zmgr, ztRunning, late, handed, unlucky>>
  <2>1. UNCHANGED <<stops, zmgr, late>>  BY <1>1, <1>5 DEF stops
  <2>2. loading' = <<>> \/ \E l \in LoadingSet : loading' = <<l>>  BY <1>5 DEF IInv, TypeInv
  <2>3. UNCHANGED <<loading, allocated, lost, handed, unlucky, created>>  BY <1>1, <1>5 DEF zmgr
  <2>4. ClientsHaveOneOwner' /\ HandedToItsZone'
    BY <2>3 DEF IInv, ClientsHaveOneOwner, HandedToItsZone
  <2>5. Seen' = Seen  BY <2>3 DEF Seen
  <2>6. RequestInv'  BY <1>2, <2>5 DEF IInv, RequestInv
  <2>7. QED  BY <1>1, <1>3, <2>1, <2>2, <2>4, <2>6, ClientFrame
<1>6. CASE /\ IsLoading(c) /\ allocated' = allocated \ {c}
           /\ loading' = SwapPop(loading, LoadingIndex(c))
           /\ UNCHANGED <<zmgr, ztRunning, late, handed, unlucky>>
  <2>1. UNCHANGED <<stops, zmgr, late>>  BY <1>1, <1>6 DEF stops
  <2>2. PICK l \in LoadingSet : loading = <<l>> /\ Listing = {c}  BY <1>6, LoadingIs DEF IInv
  <2>3. loading' = <<>> /\ Listing' = {}  BY <1>6, <2>2, LoadingPopped
  <2>4. UNCHANGED <<lost, asked>> /\ UNCHANGED <<handed, unlucky>> /\ allocated' = allocated \ {c}
    BY <1>1, <1>6
  <2>5. ClientsHaveOneOwner' /\ RequestInv'  BY <1>2, <2>2, <2>3, <2>4, OwnersStep
  <2>6. HandedToItsZone'  BY <1>6 DEF zmgr, IInv, HandedToItsZone
  <2>7. QED  BY <1>1, <1>3, <2>1, <2>3, <2>5, <2>6, ClientFrame
<1>7. ASSUME IsLoading(c)
      PROVE  \E l \in LoadingSet, zone \in MaybeZone, now \in LoadingSet :
               /\ loading = <<l>> /\ LoadingIndex(c) = 1 /\ Listing = {c} /\ now.client = c
               /\ now = [loading[LoadingIndex(c)] EXCEPT !.completed = @ + 1,
                           !.zone = IF m.zone = None THEN @ ELSE m.zone]
               /\ now.zone = zone
  <2>1. PICK l \in LoadingSet : loading = <<l>> /\ l.client = c /\ Listing = {c}
    BY <1>7, LoadingIs DEF IInv
  <2>2. LoadingIndex(c) = 1 /\ loading[1] = l  BY <2>1, LoadingFound
  <2>3. m.zone \in MaybeZone  BY <1>2 DEF MessageSet
  <2>4. PICK zone \in MaybeZone : zone = IF m.zone = None THEN l.zone ELSE m.zone
    BY <2>3 DEF LoadingSet
  <2>5. PICK now : now = Answered(l, zone)  OBVIOUS
  <2>6. now \in LoadingSet /\ now.client = c /\ now.zone = zone  BY <2>1, <2>5, Counted
  <2>7. now = [loading[LoadingIndex(c)] EXCEPT !.completed = @ + 1,
                 !.zone = IF m.zone = None THEN @ ELSE m.zone]
    BY <2>2, <2>4, <2>5 DEF Answered
  <2>8. QED  BY <2>1, <2>2, <2>6, <2>7
<1>8. CASE /\ IsLoading(c)
           /\ loading' = [loading EXCEPT ![LoadingIndex(c)] =
                [loading[LoadingIndex(c)] EXCEPT !.completed = @ + 1,
                           !.zone = IF m.zone = None THEN @ ELSE m.zone]]
           /\ UNCHANGED <<allocated, zmgr, ztRunning, late, handed, unlucky>>
  <2>1. UNCHANGED <<stops, zmgr, late>>  BY <1>1, <1>8 DEF stops
  <2>2. PICK l \in LoadingSet, now \in LoadingSet :
          /\ loading = <<l>> /\ LoadingIndex(c) = 1 /\ Listing = {c} /\ now.client = c
          /\ now = [loading[LoadingIndex(c)] EXCEPT !.completed = @ + 1,
                      !.zone = IF m.zone = None THEN @ ELSE m.zone]
    BY <1>7, <1>8
  <2>3. loading' = [loading EXCEPT ![1] = now]  BY <1>8, <2>2
  <2>4. loading' = <<now>>
    <3>1. loading = <<l>>  BY <2>2
    <3>2. QED  BY <2>3, <3>1
  <2>5. Listing' = {c}
    <3>1. ToSet(loading') = {now}  BY <2>4, ListingOfOne
    <3>2. now.client = c  BY <2>2
    <3>3. QED  BY <3>1, <3>2 DEF Listing
  <2>6. UNCHANGED <<lost, asked>> /\ UNCHANGED <<Listing, handed, allocated, unlucky>> /\ Listing = {c}
    BY <1>1, <1>8, <2>2, <2>5
  <2>7. ClientsHaveOneOwner' /\ RequestInv'  BY <1>2, <2>6, OwnersStep
  <2>8. HandedToItsZone'  BY <1>8 DEF zmgr, IInv, HandedToItsZone
  <2>9. QED  BY <1>1, <1>3, <2>1, <2>4, <2>7, <2>8, ClientFrame
<1>9. CASE /\ IsLoading(c)
           /\ LoadComplete(c, [loading[LoadingIndex(c)] EXCEPT !.completed = @ + 1,
                                 !.zone = IF m.zone = None THEN @ ELSE m.zone].zone)
  <2>1. PICK zone \in MaybeZone :
          [loading[LoadingIndex(c)] EXCEPT !.completed = @ + 1,
             !.zone = IF m.zone = None THEN @ ELSE m.zone].zone = zone
    BY <1>7, <1>9
  <2>2. LoadComplete(c, zone)  BY <1>9, <2>1
  <2>3. UNCHANGED <<shutdownState, running, told, ztTold, dbQueue, lost, asked>>  BY <1>1
  <2>4. QED  BY <1>1, <1>9, <2>2, <2>3, LoadCompleteInv
<1>10. QED  BY <1>4, <1>5, <1>6, <1>8, <1>9 DEF LoadAnswered, DropLoadingClient

-----------------------------------------------------------------------------
(* The theorems.                                                           *)

\* mt_process_commands.
LEMMA MainStepInv ==
  ASSUME IInv, MainStep
  PROVE  IInv'
<1>1. PICK m : m = Head(mainQueue)  OBVIOUS
<1>2. /\ mainQueue # <<>> /\ UNCHANGED asked
      /\ \/ m.zop = "ZoneFromCharSelect" /\ ZoneFromCharSelect(m.client)
         \/ m.zop \in {"LoadCharacter", "LoadInventory"} /\ LoadAnswered(m)
         \/ m.zop = "ZoneThread" /\ ZoneThreadDown(m.zt)
         \/ m.zop = "RemoveZone" /\ RemoveZone(m.zone)
         \/ ServiceDown(m.zop)
  BY <1>1 DEF MainStep
<1>3. CASE m.zop = "ZoneFromCharSelect" /\ ZoneFromCharSelect(m.client)
  BY <1>1, <1>2, <1>3, ZoneFromCharSelectInv
<1>4. CASE LoadAnswered(m)  BY <1>1, <1>2, <1>4, LoadAnsweredInv
<1>5. CASE m.zop = "ZoneThread" /\ ZoneThreadDown(m.zt)  BY <1>1, <1>2, <1>5, ZoneThreadDownInv
<1>6. CASE m.zop = "RemoveZone" /\ RemoveZone(m.zone)  BY <1>1, <1>2, <1>6, RemoveZoneInv
<1>7. CASE ServiceDown(m.zop)  BY <1>1, <1>2, <1>7, ServiceDownInv
<1>8. QED  BY <1>2, <1>3, <1>4, <1>5, <1>6, <1>7

\* The server as main_thread.c starts it.
LEMMA InitInv == Init => IInv
<1> SUFFICES ASSUME Init PROVE IInv  OBVIOUS
<1>1. /\ mainQueue = <<>> /\ dbQueue = <<>> /\ loading = <<>> /\ zts = <<>> /\ byZone = <<>>
      /\ Len(mainQueue) = 0 /\ Len(zts) = 0 /\ Len(byZone) = 0
  BY DEF Init
<1>2. Elements(mainQueue) = {}  BY <1>1 DEF Elements
<1>3. ToSet(loading) = {}  BY <1>1, ListingOfOne
<1>4. TypeInv
  <2>1. IsFiniteSet(created)  BY FS_EmptySet DEF Init
  <2>2. QED  BY <1>1, <2>1 DEF Init, TypeInv
<1>5. NewsOnce(mainQueue)  BY <1>1 DEF NewsOnce
<1>6. ShutdownInv  BY <1>2 DEF Init, ShutdownInv
<1>7. ThreadInv  BY <1>2 DEF Init, ThreadInv
<1>8. PlaceInv  BY <1>1 DEF PlaceInv
<1>9. RequestInv  BY <1>2, <1>3 DEF Init, RequestInv, Seen
<1>10. ClientsHaveOneOwner  BY <1>3 DEF Init, ClientsHaveOneOwner
<1>11. HandedToItsZone  BY DEF Init, HandedToItsZone
<1>12. QED  BY <1>4, <1>5, <1>6, <1>7, <1>8, <1>9, <1>10, <1>11 DEF IInv

\* A step that changes nothing here.
LEMMA StutterInv ==
  ASSUME IInv, UNCHANGED vars
  PROVE  IInv'
<1>1. UNCHANGED <<mainQueue, dbQueue, shutdownState, running, told, ztRunning, ztTold, zts, ztCount,
                  byZone, created, started, loading, handed, allocated, lost, unlucky, late, asked>>
  BY DEF vars, stops, cmgr, zmgr
<1>2. TypeInv' /\ PlaceInv'  BY <1>1 DEF IInv, TypeInv, PlaceInv
<1>3. NewsOnce(mainQueue') /\ Elements(mainQueue') = Elements(mainQueue)  BY <1>1 DEF IInv
<1>4. ShutdownInv'  BY <1>1, <1>3 DEF IInv, ShutdownInv
<1>5. ThreadInv'
  <2>1. \A z : Listed(z) => Listed(z)'  BY <1>1 DEF Listed
  <2>2. QED  BY <1>1, <1>3, <2>1 DEF IInv, ThreadInv
<1>6. RequestInv'
  <2>1. Seen' = Seen  BY <1>1 DEF Seen
  <2>2. QED  BY <1>1, <1>3, <2>1 DEF IInv, RequestInv
<1>7. ClientsHaveOneOwner' /\ HandedToItsZone'
  BY <1>1 DEF IInv, ClientsHaveOneOwner, HandedToItsZone
<1>8. QED  BY <1>2, <1>3, <1>4, <1>5, <1>6, <1>7 DEF IInv

\* Each step of the main thread and of the threads around it keeps the invariant.
LEMMA NextInv == IInv /\ [Next]_vars => IInv'
<1> SUFFICES ASSUME IInv, [Next]_vars PROVE IInv'  OBVIOUS
<1>1. ASSUME NEW c \in Requests, AskToZone(c) PROVE IInv'  BY <1>1, AskToZoneInv
<1>2. CASE Interrupt  BY <1>2, InterruptInv
<1>3. CASE DbAnswer  BY <1>3, DbAnswerInv
<1>4. ASSUME NEW t \in Services, ServiceStops(t) PROVE IInv'  BY <1>4, ServiceStopsInv
<1>5. ASSUME NEW z \in ztRunning, ZoneThreadStops(z) PROVE IInv'  BY <1>5, ZoneThreadStopsInv
<1>6. CASE MainStep  BY <1>6, MainStepInv
<1>7. CASE UNCHANGED vars  BY <1>7, StutterInv
<1>8. QED  BY <1>1, <1>2, <1>3, <1>4, <1>5, <1>6, <1>7 DEF Next

\* The shutdown states, the lists of client_mgr.c and zone_mgr.c and the main queue
\* stay consistent in every reachable state.
THEOREM InductiveInvariant == Spec => []IInv
BY InitInv, NextInv, PTL DEF Spec

\* A Client is held by the loading list of client_mgr.c or by one zone thread, and is
\* not destroyed while it is, but for the overwritten and the unlucky.
THEOREM OneOwner == Spec => []ClientsHaveOneOwner
<1>1. IInv => ClientsHaveOneOwner  BY DEF IInv
<1>2. QED  BY <1>1, InductiveInvariant, PTL

\* Until the zone threads are told to stop, zone_mgr.c hands a Client to the thread
\* that was told to create the Client's zone.
THEOREM HandedRight == Spec => []HandedToItsZone
<1>1. IInv => HandedToItsZone  BY DEF IInv
<1>2. QED  BY <1>1, InductiveInvariant, PTL

\* main_thread.c stops the threads in the order of their dependencies, whichever
\* pushes fail and however often it is interrupted.
THEOREM StopOrder == Spec => []StoppedInOrder
<1>1. ASSUME IInv PROVE StoppedInOrder
  <2>1. running \subseteq Services /\ shutdownState \in Nat  BY <1>1 DEF IInv, TypeInv
  <2>2. "login" \in running => "cs" \in running
    <3>1. SUFFICES ASSUME "cs" \notin running PROVE "login" \notin running  OBVIOUS
    <3>2. "cs" \in told  BY <1>1, <3>1 DEF IInv, ShutdownInv, Services
    <3>3. QED  BY <1>1, <3>2 DEF IInv, ShutdownInv
  <2>3. ASSUME NEW t \in {"db", "udp"}, t \notin running
        PROVE  running \cap {"login", "cs"} = {} /\ ztRunning \subseteq late
    <3>1. t \in told  BY <1>1, <2>3 DEF IInv, ShutdownInv, Services
    <3>2. shutdownState >= 4  BY <1>1, <3>1 DEF IInv, ShutdownInv
    <3>3. shutdownState >= 2 /\ shutdownState >= 3  BY <2>1, <3>2
    <3>4. QED  BY <1>1, <3>2, <3>3 DEF IInv, ShutdownInv
  <2>4. ASSUME "log" \notin running PROVE running = {} /\ ztRunning \subseteq late
    <3>1. "log" \in told  BY <1>1, <2>4 DEF IInv, ShutdownInv, Services
    <3>2. shutdownState >= 6  BY <1>1, <3>1 DEF IInv, ShutdownInv
    <3>3. shutdownState >= 2 /\ shutdownState >= 3 /\ shutdownState >= 4  BY <2>1, <3>2
    <3>4. /\ "db" \notin running /\ "udp" \notin running /\ "login" \notin running
          /\ "cs" \notin running /\ ztRunning \subseteq late
      BY <1>1, <3>2, <3>3 DEF IInv, ShutdownInv
    <3>5. QED  BY <2>1, <2>4, <3>4 DEF Services
  <2>5. QED  BY <2>2, <2>3, <2>4 DEF StoppedInOrder
<1>2. QED  BY <1>1, InductiveInvariant, PTL
=============================================================================
