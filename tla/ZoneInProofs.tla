---------------------------- MODULE ZoneInProofs ----------------------------
(***************************************************************************)
(* For any number of peers, connections and Clients: no ClientStub is used *)
(* after it is freed and whoever plays a Client is the one it was loaded   *)
(* for, except for what follows a stub that was replaced unmatched or a    *)
(* Client taken for a stub (unsafe), and for the name of a Client that the *)
(* main thread destroyed; whatever happens, a Client is in one place only  *)
(* and one peer at most plays it.                                          *)
(***************************************************************************)
EXTENDS ZoneIn, SequenceTheorems, FiniteSetTheorems, TLAPS

-----------------------------------------------------------------------------
(* The inductive invariant.                                                *)

Zops == {"CreateZone", "AddClientExpected", "NewClient", "ZoneEntry", "CampStart", "Unspawn",
         "ClientDisconnect", "ReplaceClientObject"}

\* What each message carries.
WellFormed(m) ==
  /\ m.zop = "NewClient" => m.object \in Stubs /\ m.addr \in Addrs
  /\ m.zop \in {"AddClientExpected", "CampStart", "Unspawn"} => m.object \in Clients
  /\ m.zop = "ZoneEntry" => m.object \in Objects /\ m.name \in Names
  /\ m.zop \in {"ClientDisconnect", "ReplaceClientObject"} => m.object \in Objects

Messages == {m \in [zop : Zops, object : Objects \cup {None}, addr : Addrs \cup {None},
                    name : Names \cup {None}] : WellFormed(m)}

Commands == {m \in [zop : {"DropClient", "ClientDisconnect", "ReplaceClientObject"},
                    addr : Addrs, client : Clients \cup {None}] :
               m.zop = "ReplaceClientObject" => m.client \in Clients}

Expectations == [client : Clients, ip : Ips, name : Names, left : Nat]
Waiters == [stub : Stubs, ip : Ips, name : Names \cup {None}, left : Nat]

TypeInv ==
  /\ table \in [Addrs -> Entries \cup {None}]
  /\ udpQueue \in Seq(Commands) /\ ztQueue \in Seq(Messages)
  /\ ipAddr \in [Objects -> Addrs \cup {None}] /\ allocated \subseteq Objects
  /\ asked \in [Clients -> Owners \cup {None}]
  /\ zoneAsked \in BOOLEAN /\ zoneUp \in BOOLEAN /\ unsafe \in BOOLEAN
  /\ expected \in Seq(Expectations) /\ unconfirmed \in Seq(Waiters)
  /\ valid \subseteq Clients /\ entered \subseteq Clients
  /\ said \in [Addrs -> SUBSET Names] /\ failures \in Nat

\* A list or queue has an entry of R, at most one, or those of A before those of B.
Has(s, R) == \E x \in ToSet(s) : x \in R
Once(s, R) == \A i, j \in 1 .. Len(s) : s[i] \in R /\ s[j] \in R => i = j
Before(s, A, B) == \A i, j \in 1 .. Len(s) : s[i] \in A /\ s[j] \in B => i <= j

\* The UDP thread's client at a is o.
Sits(a, o) == table[a] # None /\ table[a].object = o
Seated(o) == \E a \in Addrs : Sits(a, o)
OneSeat(o) == \A a, b \in Addrs : Sits(a, o) /\ Sits(b, o) => a = b

ReleaseZops == {"ClientDisconnect", "ReplaceClientObject"}

\* The messages that hand a Client over or give it back, its entry and its command.
TokensOf(c)   == {m \in Messages : m.zop \in ReleaseZops \cup {"AddClientExpected"} /\ m.object = c}
WaitsOf(c)    == {e \in Expectations : e.client = c}
CommandsOf(c) == {m \in Commands : m.zop = "ReplaceClientObject" /\ m.client = c}

InQueue(c)    == Has(ztQueue, TokensOf(c))
InExpected(c) == Has(expected, WaitsOf(c))
InCommands(c) == Has(udpQueue, CommandsOf(c))

\* A Client is in one of these or in the table, once; then its block is allocated and it
\* was asked for.
PlaceInv(c) ==
  /\ Once(ztQueue, TokensOf(c)) /\ Once(expected, WaitsOf(c)) /\ Once(udpQueue, CommandsOf(c))
  /\ OneSeat(c)
  /\ InQueue(c) => ~InExpected(c) /\ ~InCommands(c) /\ ~Seated(c)
  /\ InExpected(c) => ~InCommands(c) /\ ~Seated(c)
  /\ InCommands(c) => ~Seated(c)
  /\ InQueue(c) \/ InExpected(c) \/ InCommands(c) \/ Seated(c) => c \in allocated /\ asked[c] # None

TokenInv == \A c \in Clients : PlaceInv(c)

\* The zone is created before the first Client comes, or that failed.
ZoneKnown == zoneUp \/ failures > 0
Creations == {m \in Messages : m.zop = "CreateZone"}
Handovers == {m \in Messages : m.zop = "AddClientExpected"}

ZoneInv ==
  /\ ~zoneAsked => ~Has(ztQueue, Handovers)
  /\ zoneAsked => ZoneKnown \/ (Has(ztQueue, Creations) /\ Before(ztQueue, Creations, Handovers))
  /\ ToSet(expected) # {} => ZoneKnown

\* The peer at a may play c.
May(a, c) ==
  /\ unsafe \/ (asked[c].ip = Ip(a) /\ (c \in destroyed \/ asked[c].name \in said[a]))
  /\ c \in entered \/ failures > 0

PlayInv ==
  /\ \A a \in Addrs : \A c \in Clients : Sits(a, c) => May(a, c)
  /\ \A m \in ToSet(udpQueue) : m.zop = "ReplaceClientObject" => May(m.addr, m.client)
  /\ \A e \in ToSet(expected) : e.ip = asked[e.client].ip /\ e.name = asked[e.client].name

\* The messages about a stub, among them its NewClient and its release, and its
\* entries in the list.
AboutOf(s)    == {m \in Messages : m.object = s}
ArrivalsOf(s) == {m \in Messages : m.zop = "NewClient" /\ m.object = s}
ReleasesOf(s) == {m \in Messages : m.zop \in ReleaseZops /\ m.object = s}
SwapsOf(s)    == {m \in Messages : m.zop = "ReplaceClientObject" /\ m.object = s}
ListingsOf(s) == {u \in Waiters : u.stub = s}

Arriving(s) == Has(ztQueue, ArrivalsOf(s))
Swapped(s)  == Has(ztQueue, SwapsOf(s))
Listed(s)   == Has(unconfirmed, ListingsOf(s))

\* A stub has one place in the table and in the list, its first message is NewClient
\* and its last the release; while there is any of them it is allocated.
StubInv(s) ==
  /\ OneSeat(s) /\ Once(unconfirmed, ListingsOf(s)) /\ Once(ztQueue, ArrivalsOf(s))
  /\ Seated(s) => ~Has(ztQueue, ReleasesOf(s))
  /\ Seated(s) \/ Listed(s) \/ Has(ztQueue, AboutOf(s)) => s \in allocated
  /\ Before(ztQueue, AboutOf(s), ReleasesOf(s)) /\ Before(ztQueue, ArrivalsOf(s), AboutOf(s))
  /\ Arriving(s) => ~Listed(s) /\ ~Swapped(s)
  /\ Swapped(s) => ~Listed(s)

\* a is the address the stub connected from.
Peer(s, a) == ipAddr[s] = a \/ \E m \in ToSet(ztQueue) : m \in ArrivalsOf(s) /\ m.addr = a

\* The address of a stub is set by its NewClient; the names it says and its entry in
\* the list are of that address.
AddrInv(s) ==
  /\ Arriving(s) \/ s \notin allocated => ipAddr[s] = None
  /\ s \in allocated => Arriving(s) \/ ipAddr[s] # None
  /\ \A a \in Addrs : Peer(s, a) =>
       /\ \A b \in Addrs : Sits(b, s) => b = a
       /\ \A m \in ToSet(ztQueue) : m.zop = "ZoneEntry" /\ m.object = s => m.name \in said[a]
       /\ \A u \in ToSet(unconfirmed) : u.stub = s =>
            u.ip = Ip(a) /\ (u.name # None => u.name \in said[a])

SafeInv == \A s \in Stubs : StubInv(s) /\ AddrInv(s)

IInv == TypeInv /\ TokenInv /\ ZoneInv /\ PlayInv /\ (unsafe \/ SafeInv)

-----------------------------------------------------------------------------
(* Lists and queues.                                                       *)

\* t is s with x behind it; s without its first entry x; s without an entry x; some
\* of the entries of s.
Pushed(t, s, x) ==
  /\ ToSet(t) = ToSet(s) \cup {x}
  /\ \A R : Once(s, R) /\ (x \notin R \/ ~Has(s, R)) => Once(t, R)
  /\ \A A, B : Before(s, A, B) /\ (x \notin A \/ ~Has(s, B)) => Before(t, A, B)

Within(t, s) ==
  /\ ToSet(t) \subseteq ToSet(s)
  /\ \A R : Once(s, R) => Once(t, R)

Removed(t, s, x) ==
  /\ Within(t, s) /\ x \in ToSet(s) /\ ToSet(s) \subseteq ToSet(t) \cup {x}
  /\ \A R : Once(s, R) /\ x \in R => ~Has(t, R)

Popped(t, s, x) ==
  /\ Removed(t, s, x)
  /\ \A A, B : Before(s, A, B) => Before(t, A, B)
  /\ \A A, B : Before(s, A, B) /\ x \in B => ~Has(t, A)

\* The members of a list, by index.
LEMMA Members ==
  ASSUME NEW S, NEW s \in Seq(S)
  PROVE  /\ Len(s) \in Nat /\ DOMAIN s = 1 .. Len(s)
         /\ ToSet(s) = {s[k] : k \in 1 .. Len(s)}
         /\ \A k \in 1 .. Len(s) : s[k] \in S /\ s[k] \in ToSet(s)
         /\ \A x \in ToSet(s) : x \in S
<1>1. Len(s) \in Nat /\ DOMAIN s = 1 .. Len(s) /\ \A k \in 1 .. Len(s) : s[k] \in S
  BY LenProperties, ElementOfSeq
<1>2. QED  BY <1>1 DEF ToSet

\* A push to a queue (ringbuf_push), or an entry added behind a list.
LEMMA PushedIs ==
  ASSUME NEW S, NEW s \in Seq(S), NEW x \in S
  PROVE  Append(s, x) \in Seq(S) /\ Pushed(Append(s, x), s, x)
<1>0. PICK t : t = Append(s, x)  OBVIOUS
<1>1. PICK n \in Nat : n = Len(s) /\ ToSet(s) = {s[k] : k \in 1 .. n}  BY Members
<1>2. t \in Seq(S) /\ Len(t) = n + 1 /\ (\A i \in 1 .. n : t[i] = s[i]) /\ t[n + 1] = x
  BY <1>0, <1>1, AppendProperties
<1>3. ToSet(t) = {t[k] : k \in 1 .. n + 1}
  <2>1. ToSet(t) = {t[k] : k \in 1 .. Len(t)}  BY <1>2, Members
  <2>2. QED  BY <1>2, <2>1
<1>4. \A i \in 1 .. n + 1 : i \in 1 .. n \/ i = n + 1  OBVIOUS
<1>5. (\A i \in 1 .. n : i \in 1 .. n + 1) /\ n + 1 \in 1 .. n + 1  OBVIOUS
<1>6. ToSet(t) = ToSet(s) \cup {x}
  <2>1. \A y \in ToSet(t) : y \in ToSet(s) \cup {x}  BY <1>1, <1>2, <1>3, <1>4
  <2>2. \A y \in ToSet(s) \cup {x} : y \in ToSet(t)  BY <1>1, <1>2, <1>3, <1>5
  <2>3. QED  BY <2>1, <2>2
<1>7. ASSUME NEW R, Once(s, R), x \notin R \/ ~Has(s, R) PROVE Once(t, R)
  <2> SUFFICES ASSUME NEW i \in 1 .. n + 1, NEW j \in 1 .. n + 1, t[i] \in R, t[j] \in R
               PROVE  i = j
    BY <1>2 DEF Once
  <2>1. \A k \in 1 .. n : s[k] \in R => Has(s, R)  BY <1>1 DEF Has
  <2>2. \A k, l \in 1 .. n : s[k] \in R /\ s[l] \in R => k = l  BY <1>1, <1>7 DEF Once
  <2>3. QED  BY <1>2, <1>4, <1>7, <2>1, <2>2
<1>8. ASSUME NEW A, NEW B, Before(s, A, B), x \notin A \/ ~Has(s, B) PROVE Before(t, A, B)
  <2> SUFFICES ASSUME NEW i \in 1 .. n + 1, NEW j \in 1 .. n + 1, t[i] \in A, t[j] \in B
               PROVE  i <= j
    BY <1>2 DEF Before
  <2>1. \A k \in 1 .. n : s[k] \in B => Has(s, B)  BY <1>1 DEF Has
  <2>2. \A k, l \in 1 .. n : s[k] \in A /\ s[l] \in B => k <= l  BY <1>1, <1>8 DEF Before
  <2>3. QED  BY <1>2, <1>4, <1>8, <2>1, <2>2
<1>9. Pushed(t, s, x)  BY <1>6, <1>7, <1>8 DEF Pushed
<1>10. QED  BY <1>0, <1>2, <1>9

\* A message is taken from a queue (ringbuf_pop).
LEMMA PoppedIs ==
  ASSUME NEW S, NEW s \in Seq(S), s # <<>>
  PROVE  Tail(s) \in Seq(S) /\ Head(s) \in S /\ Popped(Tail(s), s, Head(s))
<1>0. PICK t, x : t = Tail(s) /\ x = Head(s)  OBVIOUS
<1>1. PICK n \in Nat : n = Len(s) /\ ToSet(s) = {s[k] : k \in 1 .. n}  BY Members
<1>2. n >= 1 /\ t \in Seq(S) /\ x \in S /\ x = s[1] /\ Len(t) = n - 1
      /\ \A i \in 1 .. n - 1 : t[i] = s[i + 1]
  BY <1>0, <1>1, HeadTailProperties
<1>3. ToSet(t) = {t[k] : k \in 1 .. n - 1}
  <2>1. ToSet(t) = {t[k] : k \in 1 .. Len(t)}  BY <1>2, Members
  <2>2. QED  BY <1>2, <2>1
<1>4. \A i \in 1 .. n - 1 : i + 1 \in 1 .. n /\ i + 1 # 1  BY <1>1
<1>5. \A i \in 1 .. n : i = 1 \/ (i - 1 \in 1 .. n - 1 /\ t[i - 1] = s[i])  BY <1>1, <1>2
<1>6. 1 \in 1 .. n  BY <1>1, <1>2
<1>7. ToSet(t) \subseteq ToSet(s) /\ x \in ToSet(s)  BY <1>1, <1>2, <1>3, <1>4, <1>6
<1>8. ToSet(s) \subseteq ToSet(t) \cup {x}  BY <1>1, <1>2, <1>3, <1>5
<1>9. ASSUME NEW R, Once(s, R) PROVE Once(t, R) /\ (x \in R => ~Has(t, R))
  <2>1. \A k, l \in 1 .. n : s[k] \in R /\ s[l] \in R => k = l  BY <1>1, <1>9 DEF Once
  <2>2. ASSUME NEW i \in 1 .. n - 1, NEW j \in 1 .. n - 1, t[i] \in R, t[j] \in R PROVE i = j
    <3>1. s[i + 1] \in R /\ s[j + 1] \in R  BY <1>2, <2>2
    <3>2. i + 1 = j + 1  BY <1>4, <2>1, <3>1
    <3>3. QED  BY <3>2
  <2>3. Once(t, R)  BY <1>2, <2>2 DEF Once
  <2>4. ASSUME x \in R, NEW i \in 1 .. n - 1, t[i] \in R PROVE FALSE
    <3>1. s[i + 1] \in R /\ s[1] \in R  BY <1>2, <2>4
    <3>2. QED  BY <1>4, <1>6, <2>1, <3>1
  <2>5. QED  BY <1>3, <2>3, <2>4 DEF Has
<1>10. ASSUME NEW A, NEW B, Before(s, A, B) PROVE Before(t, A, B) /\ (x \in B => ~Has(t, A))
  <2>1. \A k, l \in 1 .. n : s[k] \in A /\ s[l] \in B => k <= l  BY <1>1, <1>10 DEF Before
  <2>2. ASSUME NEW i \in 1 .. n - 1, NEW j \in 1 .. n - 1, t[i] \in A, t[j] \in B PROVE i <= j
    <3>1. s[i + 1] \in A /\ s[j + 1] \in B  BY <1>2, <2>2
    <3>2. i + 1 <= j + 1  BY <1>4, <2>1, <3>1
    <3>3. QED  BY <3>2
  <2>3. Before(t, A, B)  BY <1>2, <2>2 DEF Before
  <2>4. ASSUME x \in B, NEW i \in 1 .. n - 1, t[i] \in A PROVE FALSE
    <3>1. s[i + 1] \in A /\ s[1] \in B  BY <1>2, <2>4
    <3>2. i + 1 <= 1  BY <1>4, <1>6, <2>1, <3>1
    <3>3. QED  BY <3>2
  <2>5. QED  BY <1>3, <2>3, <2>4 DEF Has
<1>11. Popped(t, s, x)  BY <1>7, <1>8, <1>9, <1>10 DEF Popped, Removed, Within
<1>12. QED  BY <1>0, <1>2, <1>11

\* A set of natural numbers has a least element, and Min is it.
LEMMA LeastElement ==
  ASSUME NEW T, T \subseteq Nat, T # {}
  PROVE  Min(T) \in T /\ \A y \in T : Min(T) <= y
<1>1. PICK R : R = OpToRel(<, Nat)  OBVIOUS
<1>2. IsWellFoundedOn(R, Nat)  BY <1>1, NatLessThanWellFounded
<1>3. PICK x \in T : \A y \in T : ~(<<y, x>> \in R)  BY <1>2, WFMin
<1>4. \A a, b \in Nat : a < b => <<a, b>> \in R  BY <1>1 DEF OpToRel
<1>5. \A y \in T : ~(y < x)
  <2>1. x \in Nat /\ \A y \in T : y \in Nat  OBVIOUS
  <2>2. QED  BY <1>3, <1>4, <2>1, Zenon
<1>6. \E z \in T : \A y \in T : z <= y  BY <1>5
<1>7. QED  BY <1>6 DEF Min

\* The loops over the lists that stop at the first match.
LEMMA FirstOf ==
  ASSUME NEW S, NEW s \in Seq(S), NEW I, I \subseteq 1 .. Len(s),
         NEW i, i = IF I # {} THEN Min(I) ELSE 0
  PROVE  (i = 0 => I = {}) /\ (i # 0 => i \in I /\ i \in 1 .. Len(s))
<1>1. I \subseteq Nat /\ 0 \notin I  OBVIOUS
<1>2. I # {} => i \in I  BY <1>1, LeastElement
<1>3. QED  BY <1>1, <1>2

\* "Swap and pop": where the entry that is at j afterwards was before.
Moved(n, i, j) == IF j = i THEN n ELSE j

\* An entry is taken out of a list.
LEMMA SwapPopIs ==
  ASSUME NEW S, NEW s \in Seq(S), NEW i \in 1 .. Len(s)
  PROVE  /\ SwapPop(s, i) \in Seq(S) /\ Len(SwapPop(s, i)) = Len(s) - 1
         /\ Removed(SwapPop(s, i), s, s[i])
<1>0. PICK r : r = SwapPop(s, i)  OBVIOUS
<1>1. PICK n \in Nat : n = Len(s) /\ ToSet(s) = {s[k] : k \in 1 .. n} /\ \A k \in 1 .. n : s[k] \in S
  BY Members
<1>2. i \in 1 .. n /\ n - 1 \in Nat /\ n \in 1 .. n /\ \A j \in 1 .. n - 1 : j \in 1 .. n  BY <1>1
<1>3. r = [j \in 1 .. n - 1 |-> IF j = i THEN s[n] ELSE s[j]]  BY <1>0, <1>1 DEF SwapPop
<1>4. r \in Seq(S) /\ Len(r) = n - 1
  <2>1. r \in [1 .. n - 1 -> S]  BY <1>1, <1>2, <1>3
  <2>2. PICK m \in Nat : m = n - 1  BY <1>2
  <2>3. r \in Seq(S) /\ Len(r) = m  BY <2>1, <2>2
  <2>4. QED  BY <2>2, <2>3
<1>5. \A j \in 1 .. n - 1 : r[j] = s[Moved(n, i, j)]  BY <1>3 DEF Moved
<1>6. \A j \in 1 .. n - 1 : Moved(n, i, j) \in 1 .. n /\ Moved(n, i, j) # i  BY <1>2 DEF Moved
<1>7. \A j, k \in 1 .. n - 1 : Moved(n, i, j) = Moved(n, i, k) => j = k  BY <1>2 DEF Moved
<1>8. ASSUME NEW k \in 1 .. n, k # i PROVE \E j \in 1 .. n - 1 : r[j] = s[k]
  <2>1. CASE k = n
    <3>1. i \in 1 .. n - 1 /\ Moved(n, i, i) = k  BY <1>2, <1>8, <2>1 DEF Moved
    <3>2. QED  BY <1>5, <3>1
  <2>2. CASE k # n
    <3>1. k \in 1 .. n - 1 /\ Moved(n, i, k) = k  BY <1>8, <2>2 DEF Moved
    <3>2. QED  BY <1>5, <3>1
  <2>3. QED  BY <2>1, <2>2
<1>9. ToSet(r) = {r[k] : k \in 1 .. n - 1}
  <2>1. ToSet(r) = {r[k] : k \in 1 .. Len(r)}  BY <1>4, Members
  <2>2. QED  BY <1>4, <2>1
<1>10. ToSet(r) \subseteq ToSet(s) /\ s[i] \in ToSet(s)  BY <1>1, <1>2, <1>5, <1>6, <1>9
<1>11. ToSet(s) \subseteq ToSet(r) \cup {s[i]}
  <2>1. \A k \in 1 .. n : s[k] \in ToSet(r) \cup {s[i]}  BY <1>8, <1>9
  <2>2. QED  BY <1>1, <2>1
<1>12. ASSUME NEW R, Once(s, R) PROVE Once(r, R) /\ (s[i] \in R => ~Has(r, R))
  <2>1. \A k, l \in 1 .. n : s[k] \in R /\ s[l] \in R => k = l  BY <1>1, <1>12 DEF Once
  <2>2. ASSUME NEW j \in 1 .. n - 1, NEW k \in 1 .. n - 1, r[j] \in R, r[k] \in R PROVE j = k
    <3>1. s[Moved(n, i, j)] \in R /\ s[Moved(n, i, k)] \in R  BY <1>5, <2>2
    <3>2. Moved(n, i, j) = Moved(n, i, k)  BY <1>6, <2>1, <3>1
    <3>3. QED  BY <1>7, <3>2
  <2>3. Once(r, R)  BY <1>4, <2>2 DEF Once
  <2>4. ASSUME s[i] \in R, NEW j \in 1 .. n - 1, r[j] \in R PROVE FALSE
    <3>1. s[Moved(n, i, j)] \in R  BY <1>5, <2>4
    <3>2. QED  BY <1>2, <1>6, <2>1, <2>4, <3>1
  <2>5. QED  BY <1>9, <2>3, <2>4 DEF Has
<1>13. Removed(r, s, s[i])  BY <1>10, <1>11, <1>12 DEF Removed, Within
<1>14. QED  BY <1>0, <1>1, <1>4, <1>13

-----------------------------------------------------------------------------
(* The sweep.                                                              *)

\* What a list is after k turns of zt_timer_check_unconfirmed_timeouts.
DrainedFrom(w, S, s, k) ==
  /\ w \in [i : Nat \ {0}, items : Seq(S)]
  /\ w.i + Len(s) = k + 1 + Len(w.items)
  /\ Within(w.items, s)

\* One turn.
LEMMA DrainTurn ==
  ASSUME NEW S, NEW s \in Seq(S), NEW k \in Nat, k < Len(s), NEW w, DrainedFrom(w, S, s, k)
  PROVE  DrainedFrom(DrainOne(w), S, s, k + 1)
<1>1. PICK i \in Nat \ {0}, q \in Seq(S) : w = [i |-> i, items |-> q]  BY DEF DrainedFrom
<1>2. PICK n \in Nat, l \in Nat : n = Len(s) /\ l = Len(q)  BY LenProperties
<1>3. i + n = k + 1 + l  BY <1>1, <1>2 DEF DrainedFrom
<1>4. i \in 1 .. l  BY <1>2, <1>3
<1>5. Within(q, s)  BY <1>1 DEF DrainedFrom
<1>6. CASE Lasting(q[i])
  <2>1. PICK v : v = [i |-> i + 1, items |-> q]  OBVIOUS
  <2>2. DrainOne(w) = v  BY <1>1, <1>6, <2>1, SMTT(30) DEF DrainOne
  <2>3. v \in [i : Nat \ {0}, items : Seq(S)] /\ v.i = i + 1 /\ v.items = q  BY <2>1
  <2>4. i + 1 + n = (k + 1) + 1 + l  BY <1>3
  <2>5. QED  BY <1>2, <1>5, <2>2, <2>3, <2>4 DEF DrainedFrom
<1>7. CASE ~Lasting(q[i])
  <2>1. PICK r : r = SwapPop(q, i)  OBVIOUS
  <2>2. i \in 1 .. Len(q)  BY <1>2, <1>4
  <2>3. r \in Seq(S) /\ Len(r) = Len(q) - 1 /\ Removed(r, q, q[i])  BY <2>1, <2>2, SwapPopIs
  <2>4. Within(r, s)  BY <1>5, <2>3 DEF Removed, Within
  <2>5. PICK v : v = [i |-> i, items |-> r]  OBVIOUS
  <2>6. DrainOne(w) = v  BY <1>1, <1>7, <2>1, <2>5, SMTT(30) DEF DrainOne
  <2>7. v \in [i : Nat \ {0}, items : Seq(S)] /\ v.i = i /\ v.items = r  BY <2>3, <2>5
  <2>8. Len(r) = l - 1  BY <1>2, <2>3
  <2>9. i + n = (k + 1) + 1 + Len(r)  BY <1>2, <1>3, <2>8
  <2>10. QED  BY <1>2, <2>4, <2>6, <2>7, <2>9 DEF DrainedFrom
<1>8. QED  BY <1>6, <1>7

\* A loop of n turns has a sequence of states: by the least n without one.
LEMMA DrainRuns ==
  ASSUME NEW base, NEW n \in Nat
  PROVE  \E f : f = [k \in 0 .. n |-> IF k = 0 THEN base ELSE DrainOne(f[k - 1])]
<1> DEFINE Runs(m) == \E f : f = [k \in 0 .. m |-> IF k = 0 THEN base ELSE DrainOne(f[k - 1])]
<1>1. Runs(0)
  <2>1. PICK f : f = [k \in 0 .. 0 |-> base]  OBVIOUS
  <2>2. f = [k \in 0 .. 0 |-> IF k = 0 THEN base ELSE DrainOne(f[k - 1])]
    <3>1. \A k \in 0 .. 0 : base = IF k = 0 THEN base ELSE DrainOne(f[k - 1])  OBVIOUS
    <3>2. QED  BY <2>1, <3>1
  <2>3. QED  BY <2>2
<1>2. ASSUME NEW m \in Nat, Runs(m) PROVE Runs(m + 1)
  <2>1. PICK f : f = [k \in 0 .. m |-> IF k = 0 THEN base ELSE DrainOne(f[k - 1])]  BY <1>2
  <2>2. PICK g : g = [k \in 0 .. m + 1 |-> IF k = 0 THEN base ELSE DrainOne(f[k - 1])]  OBVIOUS
  <2>3. \A k \in 0 .. m : g[k] = f[k]
    <3> SUFFICES ASSUME NEW k \in 0 .. m PROVE g[k] = f[k]  OBVIOUS
    <3>1. k \in 0 .. m + 1  OBVIOUS
    <3>2. g[k] = IF k = 0 THEN base ELSE DrainOne(f[k - 1])  BY <2>2, <3>1
    <3>3. f[k] = IF k = 0 THEN base ELSE DrainOne(f[k - 1])  BY <2>1
    <3>4. QED  BY <3>2, <3>3
  <2>4. \A k \in 0 .. m + 1 : k # 0 => f[k - 1] = g[k - 1]
    <3> SUFFICES ASSUME NEW k \in 0 .. m + 1, k # 0 PROVE f[k - 1] = g[k - 1]  OBVIOUS
    <3>1. k - 1 \in 0 .. m  OBVIOUS
    <3>2. QED  BY <2>3, <3>1
  <2>5. \A k \in 0 .. m + 1 : (IF k = 0 THEN base ELSE DrainOne(f[k - 1]))
                              = IF k = 0 THEN base ELSE DrainOne(g[k - 1])
    BY <2>4, Zenon
  <2>6. g = [k \in 0 .. m + 1 |-> IF k = 0 THEN base ELSE DrainOne(g[k - 1])]  BY <2>2, <2>5
  <2>7. QED  BY <2>6
<1>3. PICK T : T = {m \in Nat : ~Runs(m)}  OBVIOUS
<1>4. ASSUME T # {} PROVE FALSE
  <2>1. T \subseteq Nat  BY <1>3
  <2>2. PICK m \in T : \A y \in T : m <= y  BY <1>4, <2>1, LeastElement
  <2>3. m \in Nat /\ ~Runs(m)  BY <1>3
  <2>4. m # 0  BY <1>1, <2>3
  <2>5. PICK h \in Nat : m = h + 1  BY <2>3, <2>4
  <2>6. h \notin T  BY <2>2, <2>5
  <2>7. Runs(h)  BY <1>3, <2>6
  <2>8. QED  BY <1>2, <2>3, <2>5, <2>7
<1>5. n \notin T  BY <1>4
<1>6. QED  BY <1>3, <1>5

\* What the sweep leaves of a list was there before.
LEMMA DrainIs ==
  ASSUME NEW S, NEW s \in Seq(S)
  PROVE  Drain(s) \in Seq(S) /\ Within(Drain(s), s)
<1>1. PICK n \in Nat : n = Len(s)  BY LenProperties
<1>2. PICK base : base = [i |-> 1, items |-> s]  OBVIOUS
<1>3. PICK f : f = CHOOSE g : g = [k \in 0 .. n |-> IF k = 0 THEN base ELSE DrainOne(g[k - 1])]
  OBVIOUS
<1>4. f = [k \in 0 .. n |-> IF k = 0 THEN base ELSE DrainOne(f[k - 1])]
  <2>1. \E g : g = [k \in 0 .. n |-> IF k = 0 THEN base ELSE DrainOne(g[k - 1])]  BY DrainRuns, ZenonT(60)
  <2>2. QED  BY <1>3, <2>1, Zenon
<1>5. Drain(s) = f[n].items  BY <1>1, <1>2, <1>3, Zenon DEF Drain
<1>6. f[0] = base /\ \A k \in 0 .. n : k # 0 => f[k] = DrainOne(f[k - 1])
  <2>1. \A k \in 0 .. n : f[k] = IF k = 0 THEN base ELSE DrainOne(f[k - 1])  BY <1>4
  <2>2. 0 \in 0 .. n  BY <1>1
  <2>3. QED  BY <2>1, <2>2, Zenon
<1>7. DrainedFrom(base, S, s, 0)
  <2>1. base \in [i : Nat \ {0}, items : Seq(S)] /\ base.i = 1 /\ base.items = s  BY <1>2
  <2>2. Within(s, s)  BY DEF Within
  <2>3. 1 + n = 0 + 1 + n  BY <1>1
  <2>4. QED  BY <1>1, <2>1, <2>2, <2>3 DEF DrainedFrom
<1>8. PICK T : T = {k \in 0 .. n : ~DrainedFrom(f[k], S, s, k)}  OBVIOUS
<1>9. ASSUME T # {} PROVE FALSE
  <2>1. T \subseteq Nat  BY <1>1, <1>8
  <2>2. PICK m \in T : \A y \in T : m <= y  BY <1>9, <2>1, LeastElement
  <2>3. m \in 0 .. n /\ ~DrainedFrom(f[m], S, s, m)  BY <1>8
  <2>4. m # 0  BY <1>6, <1>7, <2>3
  <2>5. PICK h \in Nat : m = h + 1 /\ h \in 0 .. n /\ h < n  BY <1>1, <2>3, <2>4
  <2>6. h \notin T  BY <2>2, <2>5
  <2>7. DrainedFrom(f[h], S, s, h)  BY <1>8, <2>5, <2>6
  <2>8. f[m] = DrainOne(f[h])
    <3>1. m - 1 = h  BY <2>5
    <3>2. QED  BY <1>6, <2>3, <2>4, <3>1
  <2>9. DrainedFrom(DrainOne(f[h]), S, s, h + 1)
    <3>1. PICK v : v = f[h]  OBVIOUS
    <3>2. DrainedFrom(v, S, s, h)  BY <2>7, <3>1
    <3>3. DrainedFrom(DrainOne(v), S, s, h + 1)  BY <1>1, <2>5, <3>2, DrainTurn
    <3>4. QED  BY <3>1, <3>3
  <2>10. QED  BY <2>3, <2>5, <2>8, <2>9
<1>10. n \in 0 .. n /\ n \notin T  BY <1>1, <1>9
<1>11. DrainedFrom(f[n], S, s, n)  BY <1>8, <1>10
<1>12. QED  BY <1>5, <1>11 DEF DrainedFrom

-----------------------------------------------------------------------------
(* The other list operators.                                               *)

\* The entry of a stub is taken out of the unconfirmed list.
LEMMA WithoutStubIs ==
  ASSUME unconfirmed \in Seq(Waiters), NEW o
  PROVE  /\ WithoutStub(o) \in Seq(Waiters) /\ Within(WithoutStub(o), unconfirmed)
         /\ Once(unconfirmed, ListingsOf(o)) => ~Has(WithoutStub(o), ListingsOf(o))
<1>1. PICK i, I : i = UnconfirmedIndex(o) /\ I = {k \in 1 .. Len(unconfirmed) : unconfirmed[k].stub = o}
  OBVIOUS
<1>2. i = IF I # {} THEN Min(I) ELSE 0  BY <1>1 DEF UnconfirmedIndex, SelectInSeq
<1>3. I \subseteq 1 .. Len(unconfirmed)  BY <1>1
<1>4. (i = 0 => I = {}) /\ (i # 0 => i \in I /\ i \in 1 .. Len(unconfirmed))
  BY <1>2, <1>3, FirstOf, ZenonT(60)
<1>5. PICK w : w = WithoutStub(o)  OBVIOUS
<1>6. CASE i = 0
  <2>1. w = unconfirmed  BY <1>1, <1>5, <1>6 DEF WithoutStub
  <2>2. ~Has(unconfirmed, ListingsOf(o))
    <3>1. ToSet(unconfirmed) = {unconfirmed[k] : k \in 1 .. Len(unconfirmed)}  BY Members
    <3>2. \A k \in 1 .. Len(unconfirmed) : unconfirmed[k].stub # o  BY <1>1, <1>4, <1>6
    <3>3. QED  BY <3>1, <3>2 DEF Has, ListingsOf
  <2>3. Within(unconfirmed, unconfirmed)  BY DEF Within
  <2>4. QED  BY <1>5, <2>1, <2>2, <2>3
<1>7. CASE i # 0
  <2>1. w = SwapPop(unconfirmed, i)  BY <1>1, <1>5, <1>7 DEF WithoutStub
  <2>2. i \in 1 .. Len(unconfirmed) /\ unconfirmed[i].stub = o  BY <1>1, <1>4, <1>7
  <2>3. w \in Seq(Waiters) /\ Removed(w, unconfirmed, unconfirmed[i])  BY <2>1, <2>2, SwapPopIs
  <2>4. unconfirmed[i] \in ListingsOf(o)
    <3>1. unconfirmed[i] \in Waiters  BY <2>2, Members
    <3>2. QED  BY <2>2, <3>1 DEF ListingsOf
  <2>5. QED  BY <1>5, <2>3, <2>4 DEF Removed
<1>8. QED  BY <1>6, <1>7

\* Commands pushed for none of R.
LEMMA ConcatIs ==
  ASSUME NEW S, NEW s \in Seq(S), NEW u \in Seq(S)
  PROVE  /\ s \o u \in Seq(S) /\ ToSet(s \o u) = ToSet(s) \cup ToSet(u)
         /\ \A R : Once(s, R) /\ ~Has(u, R) => Once(s \o u, R)
<1>0. PICK t : t = s \o u  OBVIOUS
<1>1. PICK n \in Nat : n = Len(s) /\ ToSet(s) = {s[k] : k \in 1 .. n}  BY Members
<1>2. PICK m \in Nat : m = Len(u) /\ ToSet(u) = {u[k] : k \in 1 .. m}  BY Members
<1>3. t \in Seq(S) /\ Len(t) = n + m
      /\ \A k \in 1 .. n + m : t[k] = IF k <= n THEN s[k] ELSE u[k - n]
  BY <1>0, <1>1, <1>2, ConcatProperties, SMTT(30)
<1>4. ToSet(t) = {t[k] : k \in 1 .. n + m}
  <2>1. ToSet(t) = {t[k] : k \in 1 .. Len(t)}  BY <1>3, Members
  <2>2. QED  BY <1>3, <2>1
<1>5. \A k \in 1 .. n + m : (k \in 1 .. n /\ t[k] = s[k]) \/ (k - n \in 1 .. m /\ t[k] = u[k - n])
  BY <1>3
<1>6. \A k \in 1 .. n : k \in 1 .. n + m /\ t[k] = s[k]  BY <1>3
<1>7. \A k \in 1 .. m : k + n \in 1 .. n + m /\ t[k + n] = u[k]
  <2> SUFFICES ASSUME NEW k \in 1 .. m PROVE k + n \in 1 .. n + m /\ t[k + n] = u[k]  OBVIOUS
  <2>1. k + n \in 1 .. n + m /\ ~(k + n <= n) /\ (k + n) - n = k  OBVIOUS
  <2>2. QED  BY <1>3, <2>1
<1>8. ToSet(t) = ToSet(s) \cup ToSet(u)
  <2>1. \A y \in ToSet(t) : y \in ToSet(s) \cup ToSet(u)  BY <1>1, <1>2, <1>4, <1>5
  <2>2. \A y \in ToSet(s) : y \in ToSet(t)  BY <1>1, <1>4, <1>6
  <2>3. \A y \in ToSet(u) : y \in ToSet(t)  BY <1>2, <1>4, <1>7
  <2>4. QED  BY <2>1, <2>2, <2>3
<1>9. ASSUME NEW R, Once(s, R), ~Has(u, R) PROVE Once(t, R)
  <2>1. \A k \in 1 .. m : u[k] \notin R  BY <1>2, <1>9 DEF Has
  <2>2. \A k \in 1 .. n + m : t[k] \in R => k \in 1 .. n /\ s[k] \in R  BY <1>5, <2>1
  <2>3. \A k, l \in 1 .. n : s[k] \in R /\ s[l] \in R => k = l  BY <1>1, <1>9 DEF Once
  <2>4. QED  BY <1>3, <2>2, <2>3 DEF Once
<1>10. QED  BY <1>0, <1>3, <1>8, <1>9

\* The DropClient commands of a sweep, in some order.
LEMMA SetToSeqIs ==
  ASSUME NEW S, IsFiniteSet(S)
  PROVE  SetToSeq(S) \in Seq(S)
<1>1. PICK n \in Nat : n = Cardinality(S)  BY FS_CardinalityType
<1>2. ExistsBijection(1 .. n, S)  BY <1>1, FS_NatBijection, FS_CountingElements
<1>3. PICK f \in Bijection(1 .. n, S) : TRUE  BY <1>2 DEF ExistsBijection
<1>4. f \in [1 .. n -> S] /\ \A x, y \in 1 .. n : f[x] = f[y] => x = y
  BY <1>3 DEF Bijection, Injection, IsInjective
<1>5. PICK g : g = SetToSeq(S)  OBVIOUS
<1>6. g \in [1 .. n -> S]
  <2>1. \E h \in [1 .. Cardinality(S) -> S] : IsInjective(h)  BY <1>1, <1>4 DEF IsInjective
  <2>2. QED  BY <1>1, <1>5, <2>1 DEF SetToSeq
<1>7. QED  BY <1>5, <1>6

-----------------------------------------------------------------------------
(* What steps leave alone.                                                 *)

\* What was said, asked, entered, failed or destroyed stays so.
Onward ==
  /\ failures' \in Nat /\ failures' >= failures /\ (unsafe => unsafe') /\ entered \subseteq entered'
  /\ \A a \in Addrs : said[a] \subseteq said'[a]
  /\ \A c \in Clients : asked[c] # None => asked'[c] = asked[c]
  /\ destroyed \subseteq destroyed'

\* No client gets one more place in the queue, the list, the commands or the table.
QueueHeld(c)    == Once(ztQueue', TokensOf(c)) /\ (InQueue(c)' => InQueue(c))
ExpectedHeld(c) == Once(expected', WaitsOf(c)) /\ (InExpected(c)' => InExpected(c))
CommandsHeld(c) == Once(udpQueue', CommandsOf(c)) /\ (InCommands(c)' => InCommands(c))
SeatHeld(o)     == \A a \in Addrs : Sits(a, o)' => Sits(a, o)

\* A Client none of this is about.
LEMMA PlaceFrame ==
  ASSUME NEW c \in Clients, PlaceInv(c), QueueHeld(c), ExpectedHeld(c), CommandsHeld(c), SeatHeld(c),
         c \in allocated => c \in allocated', asked[c] # None => asked'[c] # None
  PROVE  PlaceInv(c)'
<1>1. OneSeat(c)' /\ (Seated(c)' => Seated(c))  BY DEF PlaceInv, SeatHeld, OneSeat, Seated
<1>2. QED  BY <1>1 DEF PlaceInv, QueueHeld, ExpectedHeld, CommandsHeld

\* Nothing happens to a stub in the queue, the list, the table or the heap.
QueueKept(s) ==
  /\ Once(ztQueue', ArrivalsOf(s)) /\ (Arriving(s) => Arriving(s)')
  /\ \A m \in ToSet(ztQueue') : m \in AboutOf(s) => m \in ToSet(ztQueue)
  /\ Before(ztQueue', AboutOf(s), ReleasesOf(s)) /\ Before(ztQueue', ArrivalsOf(s), AboutOf(s))
ListKept(s) ==
  /\ Once(unconfirmed', ListingsOf(s))
  /\ \A u \in ToSet(unconfirmed') : u.stub = s =>
       \E v \in ToSet(unconfirmed) : v.stub = s /\ v.ip = u.ip /\ v.name = u.name
HeapKept(s) == ipAddr'[s] = ipAddr[s] /\ (s \in allocated' <=> s \in allocated)

\* The messages about a stub are its NewClient, its release and others.
LEMMA AboutIs ==
  ASSUME NEW s
  PROVE  /\ ArrivalsOf(s) \subseteq AboutOf(s) /\ ReleasesOf(s) \subseteq AboutOf(s)
         /\ SwapsOf(s) \subseteq ReleasesOf(s) /\ ArrivalsOf(s) \cap ReleasesOf(s) = {}
  BY DEF ArrivalsOf, AboutOf, ReleasesOf, SwapsOf, ReleaseZops

\* Whose messages and entries are whose.
LEMMA SomeAbout ==
  ASSUME TypeInv, TypeInv', NEW s \in Stubs, QueueKept(s), ListKept(s)
  PROVE  /\ Arriving(s)' <=> Arriving(s)
         /\ Swapped(s)' => Swapped(s)
         /\ Has(ztQueue', ReleasesOf(s)) => Has(ztQueue, ReleasesOf(s))
         /\ Has(ztQueue', AboutOf(s)) => Has(ztQueue, AboutOf(s))
         /\ Listed(s)' => Listed(s)
<1>1. \A m \in ToSet(ztQueue') : m \in AboutOf(s) => m \in ToSet(ztQueue)  BY DEF QueueKept
<1>2. /\ Has(ztQueue', AboutOf(s)) => Has(ztQueue, AboutOf(s))
      /\ Has(ztQueue', ReleasesOf(s)) => Has(ztQueue, ReleasesOf(s))
      /\ Has(ztQueue', SwapsOf(s)) => Has(ztQueue, SwapsOf(s))
      /\ Has(ztQueue', ArrivalsOf(s)) => Has(ztQueue, ArrivalsOf(s))
  BY <1>1, AboutIs DEF Has
<1>3. ASSUME NEW u \in ToSet(unconfirmed'), u \in ListingsOf(s) PROVE Listed(s)
  <2>1. u.stub = s  BY <1>3 DEF ListingsOf
  <2>2. PICK v \in ToSet(unconfirmed) : v.stub = s  BY <2>1 DEF ListKept
  <2>3. unconfirmed \in Seq(Waiters)  BY DEF TypeInv
  <2>4. v \in Waiters  BY <2>3, Members
  <2>5. QED  BY <2>2, <2>4 DEF Listed, Has, ListingsOf
<1>4. Listed(s)' => Listed(s)  BY <1>3 DEF Listed, Has
<1>5. Arriving(s) => Arriving(s)'  BY DEF QueueKept
<1>6. QED  BY <1>2, <1>4, <1>5 DEF Arriving, Swapped

\* A stub none of this is about.
LEMMA StubFrame ==
  ASSUME TypeInv, TypeInv', Onward, NEW s \in Stubs, StubInv(s), AddrInv(s),
         QueueKept(s), ListKept(s), SeatHeld(s), HeapKept(s)
  PROVE  StubInv(s)' /\ AddrInv(s)'
<1>1. /\ Arriving(s)' <=> Arriving(s)
      /\ Swapped(s)' => Swapped(s)
      /\ Has(ztQueue', ReleasesOf(s)) => Has(ztQueue, ReleasesOf(s))
      /\ Has(ztQueue', AboutOf(s)) => Has(ztQueue, AboutOf(s))
      /\ Listed(s)' => Listed(s)
  BY SomeAbout
<1>2. OneSeat(s)' /\ (Seated(s)' => Seated(s))  BY DEF StubInv, SeatHeld, OneSeat, Seated
<1>3. StubInv(s)'  BY <1>1, <1>2 DEF StubInv, QueueKept, ListKept, HeapKept
<1>4. ASSUME NEW a \in Addrs, Peer(s, a)' PROVE Peer(s, a)
  <2>1. CASE ipAddr'[s] = a  BY <2>1 DEF Peer, HeapKept
  <2>2. CASE \E m \in ToSet(ztQueue') : m \in ArrivalsOf(s) /\ m.addr = a
    <3>1. PICK m \in ToSet(ztQueue') : m \in ArrivalsOf(s) /\ m.addr = a  BY <2>2
    <3>2. m \in ToSet(ztQueue)  BY <3>1, AboutIs DEF QueueKept
    <3>3. QED  BY <3>1, <3>2 DEF Peer
  <2>3. QED  BY <1>4, <2>1, <2>2 DEF Peer
<1>5. ASSUME NEW a \in Addrs, Peer(s, a)'
      PROVE  /\ \A b \in Addrs : Sits(b, s)' => b = a
             /\ \A m \in ToSet(ztQueue') : m.zop = "ZoneEntry" /\ m.object = s => m.name \in said'[a]
             /\ \A u \in ToSet(unconfirmed') : u.stub = s =>
                  u.ip = Ip(a) /\ (u.name # None => u.name \in said'[a])
  <2>1. /\ \A b \in Addrs : Sits(b, s) => b = a
        /\ \A m \in ToSet(ztQueue) : m.zop = "ZoneEntry" /\ m.object = s => m.name \in said[a]
        /\ \A u \in ToSet(unconfirmed) : u.stub = s =>
             u.ip = Ip(a) /\ (u.name # None => u.name \in said[a])
    <3>1. Peer(s, a)  BY <1>4, <1>5
    <3>2. QED  BY <3>1 DEF AddrInv
  <2>2. said[a] \subseteq said'[a]  BY DEF Onward
  <2>3. ASSUME NEW m \in ToSet(ztQueue'), m.zop = "ZoneEntry", m.object = s PROVE m.name \in said'[a]
    <3>1. ztQueue' \in Seq(Messages)  BY DEF TypeInv
    <3>2. m \in Messages  BY <3>1, Members
    <3>3. m \in ToSet(ztQueue)  BY <2>3, <3>2 DEF QueueKept, AboutOf
    <3>4. QED  BY <2>1, <2>2, <2>3, <3>3
  <2>4. ASSUME NEW u \in ToSet(unconfirmed'), u.stub = s
        PROVE  u.ip = Ip(a) /\ (u.name # None => u.name \in said'[a])
    <3>1. PICK v \in ToSet(unconfirmed) : v.stub = s /\ v.ip = u.ip /\ v.name = u.name
      BY <2>4 DEF ListKept
    <3>2. QED  BY <2>1, <2>2, <3>1
  <2>5. \A b \in Addrs : Sits(b, s)' => b = a  BY <2>1 DEF SeatHeld
  <2>6. QED  BY <2>3, <2>4, <2>5
<1>6. Arriving(s)' \/ s \notin allocated' => ipAddr'[s] = None  BY <1>1 DEF AddrInv, HeapKept
<1>7. s \in allocated' => Arriving(s)' \/ ipAddr'[s] # None  BY <1>1 DEF AddrInv, HeapKept
<1>8. AddrInv(s)'  BY <1>5, <1>6, <1>7 DEF AddrInv
<1>9. QED  BY <1>3, <1>8

-----------------------------------------------------------------------------
(* What the steps of a queue or list do to those they are not about.       *)

\* A list as it was is within itself, and so is a queue without its first message.
LEMMA WithinSelf ==
  ASSUME NEW s
  PROVE  Within(s, s)
BY DEF Within

\* A queue from which nobody takes and to which nobody pushes.
LEMMA QueueSame ==
  ASSUME UNCHANGED ztQueue
  PROVE  /\ \A s : StubInv(s) => QueueKept(s)
         /\ \A c : PlaceInv(c) => QueueHeld(c)
BY DEF StubInv, QueueKept, PlaceInv, QueueHeld, Arriving, InQueue

\* A message that is pushed (ringbuf_push) changes nothing for those it does not name.
LEMMA QueuePushed ==
  ASSUME TypeInv, NEW m \in Messages, ztQueue' = Append(ztQueue, m)
  PROVE  /\ ztQueue' \in Seq(Messages) /\ Pushed(ztQueue', ztQueue, m)
         /\ \A s : StubInv(s) /\ m.object # s => QueueKept(s)
         /\ \A c : PlaceInv(c) /\ m \notin TokensOf(c) => QueueHeld(c)
<1>1. ztQueue \in Seq(Messages)  BY DEF TypeInv
<1>2. ztQueue' \in Seq(Messages) /\ Pushed(ztQueue', ztQueue, m)
  <2>1. Append(ztQueue, m) \in Seq(Messages) /\ Pushed(Append(ztQueue, m), ztQueue, m)
    BY <1>1, PushedIs
  <2>2. QED  BY <2>1
<1>3. ASSUME NEW s, StubInv(s), m.object # s PROVE QueueKept(s)
  <2>1. m \notin AboutOf(s) /\ m \notin ArrivalsOf(s)  BY <1>3 DEF AboutOf, ArrivalsOf
  <2>2. Once(ztQueue', ArrivalsOf(s))  BY <1>2, <1>3, <2>1 DEF Pushed, StubInv
  <2>3. Before(ztQueue', AboutOf(s), ReleasesOf(s)) /\ Before(ztQueue', ArrivalsOf(s), AboutOf(s))
    BY <1>2, <1>3, <2>1 DEF Pushed, StubInv
  <2>4. Arriving(s) => Arriving(s)'  BY <1>2 DEF Pushed, Arriving, Has
  <2>5. \A x \in ToSet(ztQueue') : x \in AboutOf(s) => x \in ToSet(ztQueue)  BY <1>2, <2>1 DEF Pushed
  <2>6. QED  BY <2>2, <2>3, <2>4, <2>5 DEF QueueKept
<1>4. ASSUME NEW c, PlaceInv(c), m \notin TokensOf(c) PROVE QueueHeld(c)
  BY <1>2, <1>4 DEF Pushed, PlaceInv, QueueHeld, InQueue, Has
<1>5. QED  BY <1>2, <1>3, <1>4

\* A message that is taken (ringbuf_pop) changes nothing for a stub whose NewClient it
\* is not, and gives no Client a place.
LEMMA QueuePopped ==
  ASSUME TypeInv, ztQueue # <<>>, ztQueue' = Tail(ztQueue), NEW m, m = Head(ztQueue)
  PROVE  /\ ztQueue' \in Seq(Messages) /\ m \in Messages /\ Popped(ztQueue', ztQueue, m)
         /\ \A s : StubInv(s) /\ m \notin ArrivalsOf(s) => QueueKept(s)
         /\ \A c : PlaceInv(c) => QueueHeld(c) /\ (m \in TokensOf(c) => ~InQueue(c)')
<1>1. ztQueue \in Seq(Messages)  BY DEF TypeInv
<1>2. ztQueue' \in Seq(Messages) /\ m \in Messages /\ Popped(ztQueue', ztQueue, m)  BY <1>1, PoppedIs
<1>3. ASSUME NEW s, StubInv(s), m \notin ArrivalsOf(s) PROVE QueueKept(s)
  <2>1. Once(ztQueue', ArrivalsOf(s))  BY <1>2, <1>3 DEF Popped, Removed, Within, StubInv
  <2>2. Before(ztQueue', AboutOf(s), ReleasesOf(s)) /\ Before(ztQueue', ArrivalsOf(s), AboutOf(s))
    BY <1>2, <1>3 DEF Popped, StubInv
  <2>3. Arriving(s) => Arriving(s)'  BY <1>2, <1>3 DEF Popped, Removed, Arriving, Has
  <2>4. \A x \in ToSet(ztQueue') : x \in AboutOf(s) => x \in ToSet(ztQueue)
    BY <1>2 DEF Popped, Removed, Within
  <2>5. QED  BY <2>1, <2>2, <2>3, <2>4 DEF QueueKept
<1>4. ASSUME NEW c, PlaceInv(c) PROVE QueueHeld(c) /\ (m \in TokensOf(c) => ~InQueue(c)')
  BY <1>2, <1>4 DEF Popped, Removed, Within, PlaceInv, QueueHeld, InQueue, Has
<1>5. QED  BY <1>2, <1>3, <1>4

\* Entries taken out of the lists, or none.
LEMMA ListsWithin ==
  /\ Within(expected', expected) => \A c : PlaceInv(c) => ExpectedHeld(c)
  /\ Within(udpQueue', udpQueue) => \A c : PlaceInv(c) => CommandsHeld(c)
  /\ Within(unconfirmed', unconfirmed) => \A s : StubInv(s) => ListKept(s)
<1>1. ASSUME Within(expected', expected), NEW c, PlaceInv(c) PROVE ExpectedHeld(c)
  BY <1>1 DEF Within, PlaceInv, ExpectedHeld, InExpected, Has
<1>2. ASSUME Within(udpQueue', udpQueue), NEW c, PlaceInv(c) PROVE CommandsHeld(c)
  BY <1>2 DEF Within, PlaceInv, CommandsHeld, InCommands, Has
<1>3. ASSUME Within(unconfirmed', unconfirmed), NEW s, StubInv(s) PROVE ListKept(s)
  BY <1>3 DEF Within, StubInv, ListKept
<1>4. QED  BY <1>1, <1>2, <1>3

\* A command for no Client, or for another one.
LEMMA CommandPushed ==
  ASSUME TypeInv, NEW m \in Commands, udpQueue' = Append(udpQueue, m)
  PROVE  /\ udpQueue' \in Seq(Commands) /\ Pushed(udpQueue', udpQueue, m)
         /\ \A c : PlaceInv(c) /\ m \notin CommandsOf(c) => CommandsHeld(c)
<1>1. udpQueue \in Seq(Commands)  BY DEF TypeInv
<1>2. udpQueue' \in Seq(Commands) /\ Pushed(udpQueue', udpQueue, m)
  <2>1. Append(udpQueue, m) \in Seq(Commands) /\ Pushed(Append(udpQueue, m), udpQueue, m)
    BY <1>1, PushedIs
  <2>2. QED  BY <2>1
<1>3. ASSUME NEW c, PlaceInv(c), m \notin CommandsOf(c) PROVE CommandsHeld(c)
  BY <1>2, <1>3 DEF Pushed, PlaceInv, CommandsHeld, InCommands, Has
<1>4. QED  BY <1>2, <1>3

\* The zone is known as before, and no Client is handed over or expected that was not.
LEMMA ZoneFrame ==
  ASSUME ZoneInv, zoneAsked' = zoneAsked, zoneUp => zoneUp', failures \in Nat, failures' \in Nat,
         failures' >= failures,
         Has(ztQueue', Handovers) => Has(ztQueue, Handovers),
         Has(ztQueue, Creations) => Has(ztQueue', Creations),
         Before(ztQueue, Creations, Handovers) => Before(ztQueue', Creations, Handovers),
         ToSet(expected') # {} => ToSet(expected) # {} \/ ZoneKnown
  PROVE  ZoneInv'
<1>1. ZoneKnown => ZoneKnown'  BY DEF ZoneKnown
<1>2. QED  BY <1>1 DEF ZoneInv

\* A message that neither creates the zone nor hands over a Client.
LEMMA ZonePushed ==
  ASSUME NEW m, Pushed(ztQueue', ztQueue, m), m \notin Creations, m \notin Handovers
  PROVE  /\ Has(ztQueue', Handovers) => Has(ztQueue, Handovers)
         /\ Has(ztQueue, Creations) => Has(ztQueue', Creations)
         /\ Before(ztQueue, Creations, Handovers) => Before(ztQueue', Creations, Handovers)
BY DEF Pushed, Has

\* A message taken that does not create the zone.
LEMMA ZonePopped ==
  ASSUME NEW m, Popped(ztQueue', ztQueue, m)
  PROVE  /\ Has(ztQueue', Handovers) => Has(ztQueue, Handovers)
         /\ m \notin Creations => (Has(ztQueue, Creations) => Has(ztQueue', Creations))
         /\ Before(ztQueue, Creations, Handovers) => Before(ztQueue', Creations, Handovers)
BY DEF Popped, Removed, Within, Has

\* Whoever might play a Client that was asked for still may.
LEMMA MayKept ==
  ASSUME TypeInv, Onward, NEW a \in Addrs, NEW c \in Clients, May(a, c), asked[c] # None
  PROVE  May(a, c)'
<1>1. asked'[c] = asked[c] /\ said[a] \subseteq said'[a]  BY DEF Onward
<1>2. failures \in Nat  BY DEF TypeInv
<1>3. QED  BY <1>1, <1>2 DEF May, Onward

\* Who is added to the table, to the commands or to the list has what it takes.
LEMMA PlayStep ==
  ASSUME TypeInv, TypeInv', Onward, TokenInv, PlayInv,
         \A a \in Addrs : \A c \in Clients : Sits(a, c)' => Sits(a, c) \/ May(a, c)',
         \A m \in ToSet(udpQueue') : m.zop = "ReplaceClientObject" =>
           m \in ToSet(udpQueue) \/ May(m.addr, m.client)',
         \A e \in ToSet(expected') :
           \/ \E f \in ToSet(expected) : f.client = e.client /\ f.ip = e.ip /\ f.name = e.name
           \/ e.ip = asked'[e.client].ip /\ e.name = asked'[e.client].name
  PROVE  PlayInv'
<1>1. ASSUME NEW a \in Addrs, NEW c \in Clients, Sits(a, c)' PROVE May(a, c)'
  <2>1. CASE Sits(a, c)
    <3>1. May(a, c)  BY <2>1 DEF PlayInv
    <3>2. Seated(c)  BY <2>1 DEF Seated
    <3>3. asked[c] # None  BY <3>2 DEF TokenInv, PlaceInv
    <3>4. QED  BY <3>1, <3>3, MayKept
  <2>2. QED  BY <1>1, <2>1
<1>2. ASSUME NEW m \in ToSet(udpQueue'), m.zop = "ReplaceClientObject" PROVE May(m.addr, m.client)'
  <2>1. CASE m \in ToSet(udpQueue)
    <3>1. udpQueue \in Seq(Commands)  BY DEF TypeInv
    <3>2. m \in Commands  BY <2>1, <3>1, Members
    <3>3. m.addr \in Addrs /\ m.client \in Clients /\ m \in CommandsOf(m.client)
      BY <1>2, <3>2 DEF Commands, CommandsOf
    <3>4. InCommands(m.client)  BY <2>1, <3>3 DEF InCommands, Has
    <3>5. asked[m.client] # None  BY <3>3, <3>4 DEF TokenInv, PlaceInv
    <3>6. May(m.addr, m.client)  BY <1>2, <2>1 DEF PlayInv
    <3>7. PICK a \in Addrs, c \in Clients : a = m.addr /\ c = m.client  BY <3>3
    <3>8. May(a, c)'  BY <3>5, <3>6, <3>7, MayKept
    <3>9. QED  BY <3>7, <3>8
  <2>2. QED  BY <1>2, <2>1
<1>3. ASSUME NEW e \in ToSet(expected')
      PROVE  e.ip = asked'[e.client].ip /\ e.name = asked'[e.client].name
  <2>1. CASE \E f \in ToSet(expected) : f.client = e.client /\ f.ip = e.ip /\ f.name = e.name
    <3>1. PICK f \in ToSet(expected) : f.client = e.client /\ f.ip = e.ip /\ f.name = e.name  BY <2>1
    <3>2. expected \in Seq(Expectations)  BY DEF TypeInv
    <3>3. f \in Expectations  BY <3>2, Members
    <3>4. f.client \in Clients /\ f \in WaitsOf(f.client)  BY <3>3 DEF Expectations, WaitsOf
    <3>5. InExpected(f.client)  BY <3>4 DEF InExpected, Has
    <3>6. asked[f.client] # None  BY <3>4, <3>5 DEF TokenInv, PlaceInv
    <3>7. asked'[f.client] = asked[f.client]  BY <3>4, <3>6 DEF Onward
    <3>8. f.ip = asked[f.client].ip /\ f.name = asked[f.client].name  BY DEF PlayInv
    <3>9. QED  BY <3>1, <3>7, <3>8
  <2>2. QED  BY <1>3, <2>1
<1>4. QED  BY <1>1, <1>2, <1>3 DEF PlayInv

\* The same table, and commands and expectations that were there: nobody is added.
LEMMA PlayFrame ==
  ASSUME TypeInv, TypeInv', Onward, TokenInv, PlayInv,
         \A c \in Clients : SeatHeld(c),
         \A m \in ToSet(udpQueue') : m.zop = "ReplaceClientObject" => m \in ToSet(udpQueue),
         ToSet(expected') \subseteq ToSet(expected)
  PROVE  PlayInv'
<1>1. \A a \in Addrs : \A c \in Clients : Sits(a, c)' => Sits(a, c)  BY DEF SeatHeld
<1>2. \A e \in ToSet(expected') :
        \E f \in ToSet(expected) : f.client = e.client /\ f.ip = e.ip /\ f.name = e.name
  OBVIOUS
<1>3. QED  BY <1>1, <1>2, PlayStep

\* A Client that is in one place only, or in none.
Nowhere(c) == ~InQueue(c) /\ ~InExpected(c) /\ ~InCommands(c) /\ ~Seated(c)

\* What is not in a list is not in it twice.
LEMMA NoneOnce ==
  ASSUME NEW S, NEW s \in Seq(S), NEW R, ~Has(s, R)
  PROVE  Once(s, R)
<1>1. \A k \in 1 .. Len(s) : s[k] \in ToSet(s)  BY Members
<1>2. QED  BY <1>1 DEF Once, Has

\* A Client that is nowhere has no two places.
LEMMA NowhereIs ==
  ASSUME TypeInv', NEW c, Nowhere(c)'
  PROVE  PlaceInv(c)'
<1>1. ztQueue' \in Seq(Messages) /\ expected' \in Seq(Expectations) /\ udpQueue' \in Seq(Commands)
  BY DEF TypeInv
<1>2. Once(ztQueue', TokensOf(c))  BY <1>1, NoneOnce DEF Nowhere, InQueue
<1>3. Once(expected', WaitsOf(c))  BY <1>1, NoneOnce DEF Nowhere, InExpected
<1>4. Once(udpQueue', CommandsOf(c))  BY <1>1, NoneOnce DEF Nowhere, InCommands
<1>5. OneSeat(c)'  BY DEF Nowhere, Seated, OneSeat
<1>6. QED  BY <1>2, <1>3, <1>4, <1>5 DEF PlaceInv, Nowhere

\* A stub that is freed and that nothing names.
LEMMA StubGone ==
  ASSUME TypeInv', NEW s \in Stubs, ~Seated(s)', ~Listed(s)', ~Has(ztQueue', AboutOf(s)),
         ipAddr'[s] = None, s \notin allocated'
  PROVE  StubInv(s)' /\ AddrInv(s)'
<1>1. ztQueue' \in Seq(Messages) /\ unconfirmed' \in Seq(Waiters)  BY DEF TypeInv
<1>2. ~Arriving(s)' /\ ~Swapped(s)' /\ ~Has(ztQueue', ReleasesOf(s))
  BY AboutIs DEF Arriving, Swapped, Has
<1>3. Once(unconfirmed', ListingsOf(s)) /\ Once(ztQueue', ArrivalsOf(s))
  BY <1>1, <1>2, NoneOnce DEF Listed, Arriving
<1>4. Before(ztQueue', AboutOf(s), ReleasesOf(s)) /\ Before(ztQueue', ArrivalsOf(s), AboutOf(s))
  <2>1. \A k \in 1 .. Len(ztQueue') : ztQueue'[k] \in ToSet(ztQueue')  BY <1>1, Members
  <2>2. \A k \in 1 .. Len(ztQueue') : ztQueue'[k] \notin AboutOf(s)  BY <2>1 DEF Has
  <2>3. QED  BY <2>2, AboutIs DEF Before
<1>5. OneSeat(s)'  BY DEF Seated, OneSeat
<1>6. StubInv(s)'  BY <1>2, <1>3, <1>4, <1>5 DEF StubInv
<1>7. \A a \in Addrs : ~Peer(s, a)'
  <2>1. \A a \in Addrs : a # None  BY NullAssumption
  <2>2. QED  BY <1>2, <2>1 DEF Peer, Arriving, Has
<1>8. AddrInv(s)'  BY <1>7 DEF AddrInv
<1>9. QED  BY <1>6, <1>8

-----------------------------------------------------------------------------
(* The clock, the main thread and the peers.                               *)

\* What each message carries when it is pushed.
LEMMA MessageTypes ==
  /\ Message("CreateZone", None, None, None) \in Messages
  /\ \A c \in Clients : Message("AddClientExpected", c, None, None) \in Messages
  /\ \A s \in Stubs, a \in Addrs : Message("NewClient", s, a, None) \in Messages
  /\ \A o \in Objects, name \in Names : Message("ZoneEntry", o, None, name) \in Messages
  /\ \A c \in Clients : Message("CampStart", c, None, None) \in Messages
                        /\ Message("Unspawn", c, None, None) \in Messages
  /\ \A o \in Objects : Message("ClientDisconnect", o, None, None) \in Messages
                        /\ Message("ReplaceClientObject", o, None, None) \in Messages
<1>1. \A zop \in Zops, o \in Objects \cup {None}, a \in Addrs \cup {None}, n \in Names \cup {None} :
        WellFormed(Message(zop, o, a, n)) => Message(zop, o, a, n) \in Messages
  BY DEF Message, Messages
<1>2. \A zop, o, a, n : LET m == Message(zop, o, a, n) IN
        m.zop = zop /\ m.object = o /\ m.addr = a /\ m.name = n
  BY DEF Message
<1>3. WellFormed(Message("CreateZone", None, None, None))  BY <1>2 DEF WellFormed
<1>4. \A c \in Clients : WellFormed(Message("AddClientExpected", c, None, None))
  BY <1>2 DEF WellFormed
<1>5. \A s \in Stubs, a \in Addrs : WellFormed(Message("NewClient", s, a, None))  BY <1>2 DEF WellFormed
<1>6. \A o \in Objects, name \in Names : WellFormed(Message("ZoneEntry", o, None, name))
  BY <1>2 DEF WellFormed
<1>7. \A c \in Clients : WellFormed(Message("CampStart", c, None, None))
                        /\ WellFormed(Message("Unspawn", c, None, None))
  BY <1>2 DEF WellFormed
<1>8. \A o \in Objects : WellFormed(Message("ClientDisconnect", o, None, None))
                        /\ WellFormed(Message("ReplaceClientObject", o, None, None))
  BY <1>2 DEF WellFormed
<1>9. QED  BY <1>1, <1>3, <1>4, <1>5, <1>6, <1>7, <1>8 DEF Zops, Objects

\* Lists whose entries keep the stub, or the Client, they are about.
LEMMA Relabelled ==
  ASSUME NEW S, NEW s \in Seq(S), NEW t \in Seq(S), Len(t) = Len(s), NEW R, Once(s, R),
         \A k \in 1 .. Len(s) : t[k] \in R => s[k] \in R
  PROVE  Once(t, R)
BY DEF Once

\* y is x with another time left.
Aging(x, y) == \E n \in Nat : y = [x EXCEPT !.left = n]

\* A list whose entries grow older.
LEMMA OlderIs ==
  ASSUME NEW S, NEW s \in Seq(S), \A x \in S : x.left \in Nat, \A x \in S : \A y : Aging(x, y) => y \in S
  PROVE  /\ Older(s) \in Seq(S) /\ Len(Older(s)) = Len(s)
         /\ \A k \in 1 .. Len(s) : Aging(s[k], Older(s)[k])
<1>0. PICK t : t = Older(s)  OBVIOUS
<1>1. PICK n \in Nat : n = Len(s) /\ DOMAIN s = 1 .. n /\ \A k \in 1 .. n : s[k] \in S  BY Members
<1>2. \A x \in S : (IF x.left = 0 THEN 0 ELSE x.left - 1) \in Nat  OBVIOUS
<1>3. t = [k \in 1 .. n |-> [s[k] EXCEPT !.left = IF @ = 0 THEN 0 ELSE @ - 1]]  BY <1>0, <1>1 DEF Older
<1>4. \A k \in 1 .. n : Aging(s[k], t[k])
  <2> SUFFICES ASSUME NEW k \in 1 .. n PROVE Aging(s[k], t[k])
    OBVIOUS
  <2>1. PICK l \in Nat : l = IF s[k].left = 0 THEN 0 ELSE s[k].left - 1  BY <1>1, <1>2
  <2>2. t[k] = [s[k] EXCEPT !.left = IF s[k].left = 0 THEN 0 ELSE s[k].left - 1]  BY <1>3
  <2>3. QED  BY <2>1, <2>2 DEF Aging
<1>5. \A k \in 1 .. n : t[k] \in S  BY <1>1, <1>4
<1>6. t \in [1 .. n -> S]  BY <1>3, <1>5
<1>7. t \in Seq(S) /\ Len(t) = n  BY <1>6
<1>8. QED  BY <1>0, <1>1, <1>4, <1>7

\* The clock changes no list but for the time left.
LEMMA TickStep ==
  ASSUME IInv, Tick
  PROVE  IInv'
<1>1. TypeInv /\ TokenInv /\ ZoneInv /\ PlayInv  BY DEF IInv
<1>2. expected \in Seq(Expectations) /\ unconfirmed \in Seq(Waiters)  BY <1>1 DEF TypeInv
<1>3. /\ expected' \in Seq(Expectations) /\ Len(expected') = Len(expected)
      /\ \A k \in 1 .. Len(expected) : Aging(expected[k], expected'[k])
  <2>1. \A x \in Expectations : x.left \in Nat  BY DEF Expectations
  <2>2. \A x \in Expectations : \A y : Aging(x, y) => y \in Expectations  BY DEF Expectations, Aging
  <2>3. expected' = Older(expected)  BY DEF Tick
  <2>4. QED  BY <1>2, <2>1, <2>2, <2>3, OlderIs, Zenon
<1>4. /\ unconfirmed' \in Seq(Waiters) /\ Len(unconfirmed') = Len(unconfirmed)
      /\ \A k \in 1 .. Len(unconfirmed) : Aging(unconfirmed[k], unconfirmed'[k])
  <2>1. \A x \in Waiters : x.left \in Nat  BY DEF Waiters
  <2>2. \A x \in Waiters : \A y : Aging(x, y) => y \in Waiters  BY DEF Waiters, Aging
  <2>3. unconfirmed' = Older(unconfirmed)  BY DEF Tick
  <2>4. QED  BY <1>2, <2>1, <2>2, <2>3, OlderIs, Zenon
<1>5. /\ UNCHANGED <<table, ipAddr, said, udpQueue, ztQueue, valid, entered, zoneUp, allocated, asked>>
      /\ UNCHANGED <<zoneAsked, destroyed, failures, unsafe>>
  BY DEF Tick, udp, main
<1>6. TypeInv'  BY <1>1, <1>3, <1>4, <1>5 DEF TypeInv
<1>7. Onward  BY <1>1, <1>5 DEF Onward, TypeInv
<1>8. \A o : SeatHeld(o) /\ HeapKept(o)  BY <1>5 DEF SeatHeld, Sits, HeapKept
<1>9. \A k \in 1 .. Len(expected) :
        /\ expected[k] \in Expectations /\ expected'[k].client = expected[k].client
        /\ expected'[k].ip = expected[k].ip /\ expected'[k].name = expected[k].name
  <2>1. \A k \in 1 .. Len(expected) : expected[k] \in Expectations  BY <1>2, Members
  <2>2. QED  BY <1>3, <2>1 DEF Expectations, Aging
<1>10. \A k \in 1 .. Len(unconfirmed) :
        /\ unconfirmed[k] \in Waiters /\ unconfirmed'[k].stub = unconfirmed[k].stub
        /\ unconfirmed'[k].ip = unconfirmed[k].ip /\ unconfirmed'[k].name = unconfirmed[k].name
  <2>1. \A k \in 1 .. Len(unconfirmed) : unconfirmed[k] \in Waiters  BY <1>2, Members
  <2>2. QED  BY <1>4, <2>1 DEF Waiters, Aging
<1>11. \A e \in ToSet(expected') :
         \E f \in ToSet(expected) : f.client = e.client /\ f.ip = e.ip /\ f.name = e.name
  <2>1. \A e \in ToSet(expected') : \E k \in 1 .. Len(expected) : e = expected'[k]
    BY <1>3, Members
  <2>2. \A k \in 1 .. Len(expected) : expected[k] \in ToSet(expected)  BY <1>2, Members
  <2>3. QED  BY <1>9, <2>1, <2>2
<1>12. \A u \in ToSet(unconfirmed') :
         \E v \in ToSet(unconfirmed) : v.stub = u.stub /\ v.ip = u.ip /\ v.name = u.name
  <2>1. \A u \in ToSet(unconfirmed') : \E k \in 1 .. Len(unconfirmed) : u = unconfirmed'[k]
    BY <1>4, Members
  <2>2. \A k \in 1 .. Len(unconfirmed) : unconfirmed[k] \in ToSet(unconfirmed)  BY <1>2, Members
  <2>3. QED  BY <1>10, <2>1, <2>2
<1>13. ASSUME NEW c \in Clients PROVE PlaceInv(c)'
  <2>1. PlaceInv(c)  BY <1>1 DEF TokenInv
  <2>2. QueueHeld(c)  BY <1>5, <2>1, QueueSame
  <2>3. CommandsHeld(c)  BY <1>5, <2>1, ListsWithin, WithinSelf
  <2>4. Once(expected', WaitsOf(c))
    <3>1. \A k \in 1 .. Len(expected) : expected'[k] \in WaitsOf(c) => expected[k] \in WaitsOf(c)
      BY <1>9 DEF WaitsOf
    <3>2. Once(expected, WaitsOf(c))  BY <2>1 DEF PlaceInv
    <3>3. QED  BY <1>2, <1>3, <3>1, <3>2, Relabelled
  <2>5. InExpected(c)' => InExpected(c)
    <3>1. \A f \in ToSet(expected) : f \in Expectations  BY <1>2, Members
    <3>2. QED  BY <1>11, <3>1 DEF InExpected, Has, WaitsOf
  <2>6. ExpectedHeld(c)  BY <2>4, <2>5 DEF ExpectedHeld
  <2>7. QED  BY <1>5, <1>8, <2>1, <2>2, <2>3, <2>6, PlaceFrame
<1>14. ASSUME NEW s \in Stubs, StubInv(s), AddrInv(s) PROVE StubInv(s)' /\ AddrInv(s)'
  <2>1. QueueKept(s)  BY <1>5, <1>14, QueueSame
  <2>2. Once(unconfirmed', ListingsOf(s))
    <3>1. \A k \in 1 .. Len(unconfirmed) :
            unconfirmed'[k] \in ListingsOf(s) => unconfirmed[k] \in ListingsOf(s)
      BY <1>10 DEF ListingsOf
    <3>2. Once(unconfirmed, ListingsOf(s))  BY <1>14 DEF StubInv
    <3>3. QED  BY <1>2, <1>4, <3>1, <3>2, Relabelled
  <2>3. ListKept(s)  BY <1>12, <2>2 DEF ListKept
  <2>4. QED  BY <1>1, <1>6, <1>7, <1>8, <1>14, <2>1, <2>3, StubFrame
<1>15. ZoneInv'
  <2>1. ToSet(expected') # {} => ToSet(expected) # {}  BY <1>11
  <2>2. failures \in Nat  BY <1>1 DEF TypeInv
  <2>3. QED  BY <1>1, <1>5, <2>1, <2>2, ZoneFrame
<1>16. PlayInv'
  <2>1. \A a \in Addrs : \A c \in Clients : Sits(a, c)' => Sits(a, c)  BY <1>8 DEF SeatHeld
  <2>2. QED  BY <1>1, <1>5, <1>6, <1>7, <1>11, <2>1, PlayStep
<1>17. unsafe' \/ SafeInv'  BY <1>5, <1>14 DEF IInv, SafeInv
<1>18. QED  BY <1>6, <1>13, <1>15, <1>16, <1>17 DEF IInv, TokenInv

\* What is not in a queue is not before or behind anything.
LEMMA NoneBefore ==
  ASSUME NEW S, NEW s \in Seq(S), NEW A, NEW B, ~Has(s, A) \/ ~Has(s, B)
  PROVE  Before(s, A, B)
<1>1. \A k \in 1 .. Len(s) : s[k] \in ToSet(s)  BY Members
<1>2. QED  BY <1>1 DEF Before, Has

\* A Client that was not asked for before is nowhere.
LEMMA UnaskedNowhere ==
  ASSUME NEW c \in Clients, PlaceInv(c), asked[c] = None
  PROVE  Nowhere(c)
BY DEF PlaceInv, Nowhere

\* zmgr_add_client_from_char_select hands over a Client, once, behind the zone's creation.
LEMMA ExpectStep ==
  ASSUME IInv, NEW c \in Clients, NEW ip \in Homes, NEW name \in Names, Expect(c, ip, name)
  PROVE  IInv'
<1>1. TypeInv /\ TokenInv /\ ZoneInv /\ PlayInv  BY DEF IInv
<1>2. /\ UNCHANGED <<table, ipAddr, said, udpQueue, valid, entered, zoneUp, expected, unconfirmed>>
      /\ UNCHANGED <<destroyed, failures, unsafe>>
      /\ allocated' = allocated \cup {c} /\ zoneAsked' = TRUE /\ asked[c] = None
  BY DEF Expect, udp, zt
<1>3. PICK owner : owner = [ip |-> ip, name |-> name]  OBVIOUS
<1>4. asked' = [asked EXCEPT ![c] = owner]  BY <1>3 DEF Expect
<1>5. owner \in Owners /\ owner # None  BY <1>3, NullAssumption DEF Owners
<1>6. PICK m1, m2 : m1 = Message("CreateZone", None, None, None)
                    /\ m2 = Message("AddClientExpected", c, None, None)
  OBVIOUS
<1>7. /\ m1 \in Messages /\ m1.zop = "CreateZone" /\ m1.object = None
      /\ m2 \in Messages /\ m2.zop = "AddClientExpected" /\ m2.object = c
  <2>1. m1 \in Messages /\ m2 \in Messages  BY <1>6, MessageTypes
  <2>2. QED  BY <1>6, <2>1 DEF Message
<1>8. ztQueue \in Seq(Messages)  BY <1>1 DEF TypeInv
<1>9. PICK q : q = ztQueue \o (IF zoneAsked THEN <<>> ELSE <<m1>>)  OBVIOUS
<1>10. /\ q \in Seq(Messages)
       /\ (zoneAsked /\ q = ztQueue) \/ (~zoneAsked /\ Pushed(q, ztQueue, m1))
  <2>1. CASE zoneAsked
    <3>1. q = ztQueue  BY <1>8, <1>9, <2>1, ConcatEmptySeq
    <3>2. QED  BY <1>8, <2>1, <3>1
  <2>2. CASE ~zoneAsked
    <3>1. q = Append(ztQueue, m1)
      <4>1. q = ztQueue \o <<m1>>  BY <1>9, <2>2
      <4>2. QED  BY <1>7, <1>8, <4>1, AppendIsConcat
    <3>2. Append(ztQueue, m1) \in Seq(Messages) /\ Pushed(Append(ztQueue, m1), ztQueue, m1)
      BY <1>7, <1>8, PushedIs
    <3>3. QED  BY <2>2, <3>1, <3>2
  <2>3. QED  BY <2>1, <2>2
<1>11. ztQueue' \in Seq(Messages) /\ Pushed(ztQueue', q, m2)
  <2>1. ztQueue' = q \o <<m2>>  BY <1>6, <1>9 DEF Expect
  <2>2. ztQueue' = Append(q, m2)  BY <1>7, <1>10, <2>1, AppendIsConcat
  <2>3. Append(q, m2) \in Seq(Messages) /\ Pushed(Append(q, m2), q, m2)  BY <1>7, <1>10, PushedIs
  <2>4. QED  BY <2>2, <2>3
<1>12. TypeInv'
  <2>1. asked' \in [Clients -> Owners \cup {None}]  BY <1>1, <1>4, <1>5 DEF TypeInv
  <2>2. allocated' \subseteq Objects  BY <1>1, <1>2 DEF TypeInv, Objects
  <2>3. QED  BY <1>1, <1>2, <1>11, <2>1, <2>2 DEF TypeInv
<1>13. asked \in [Clients -> Owners \cup {None}] /\ failures \in Nat  BY <1>1 DEF TypeInv
<1>14. Onward  BY <1>2, <1>4, <1>13 DEF Onward
<1>15. \A o : SeatHeld(o)  BY <1>2 DEF SeatHeld, Sits
<1>16. Within(expected', expected) /\ Within(udpQueue', udpQueue) /\ Within(unconfirmed', unconfirmed)
  BY <1>2, WithinSelf
<1>17. ASSUME NEW d \in Clients, d # c PROVE PlaceInv(d)'
  <2>1. PlaceInv(d)  BY <1>1 DEF TokenInv
  <2>2. m1 \notin TokensOf(d) /\ m2 \notin TokensOf(d)
    BY <1>7, <1>17, ZoneInAssumption DEF TokensOf, ReleaseZops
  <2>3. Once(q, TokensOf(d)) /\ (Has(q, TokensOf(d)) => Has(ztQueue, TokensOf(d)))
    BY <1>10, <2>1, <2>2 DEF Pushed, Has, PlaceInv
  <2>4. QueueHeld(d)  BY <1>11, <2>2, <2>3 DEF Pushed, Has, QueueHeld, InQueue
  <2>5. ExpectedHeld(d) /\ CommandsHeld(d)  BY <1>16, <2>1, ListsWithin
  <2>6. d \in allocated => d \in allocated'  BY <1>2
  <2>7. asked[d] # None => asked'[d] # None  BY <1>14 DEF Onward
  <2>8. QED  BY <1>15, <2>1, <2>4, <2>5, <2>6, <2>7, PlaceFrame
<1>18. PlaceInv(c)'
  <2>1. PlaceInv(c)  BY <1>1 DEF TokenInv
  <2>2. Nowhere(c)  BY <1>2, <2>1, UnaskedNowhere
  <2>3. ~InExpected(c)' /\ ~InCommands(c)' /\ ~Seated(c)'
    BY <1>2, <2>2 DEF Nowhere, InExpected, InCommands, Seated, Sits
  <2>4. ~Has(q, TokensOf(c)) /\ Once(q, TokensOf(c))
    <3>1. m1 \notin TokensOf(c)  BY <1>7 DEF TokensOf, ReleaseZops
    <3>2. QED  BY <1>10, <2>1, <2>2, <3>1 DEF Pushed, Has, PlaceInv, Nowhere, InQueue
  <2>5. Once(ztQueue', TokensOf(c))  BY <1>11, <2>4 DEF Pushed
  <2>6. OneSeat(c)'  BY <2>3 DEF OneSeat, Seated
  <2>7. Once(expected', WaitsOf(c)) /\ Once(udpQueue', CommandsOf(c))  BY <1>2, <2>1 DEF PlaceInv
  <2>8. c \in allocated' /\ asked'[c] # None  BY <1>2, <1>4, <1>5, <1>13
  <2>9. QED  BY <2>3, <2>5, <2>6, <2>7, <2>8 DEF PlaceInv
<1>19. ZoneInv'
  <2>1. m1 \in Creations /\ m2 \notin Creations  BY <1>7 DEF Creations
  <2>2. CASE zoneAsked
    <3>1. ZoneKnown => ZoneKnown'  BY <1>2 DEF ZoneKnown
    <3>2. Has(ztQueue, Creations) => Has(ztQueue', Creations)
      BY <1>10, <1>11, <2>2 DEF Pushed, Has
    <3>3. Before(ztQueue, Creations, Handovers) => Before(ztQueue', Creations, Handovers)
      BY <1>10, <1>11, <2>1, <2>2 DEF Pushed
    <3>4. QED  BY <1>1, <1>2, <2>2, <3>1, <3>2, <3>3 DEF ZoneInv
  <2>3. CASE ~zoneAsked
    <3>1. ~Has(ztQueue, Handovers)  BY <1>1, <2>3 DEF ZoneInv
    <3>2. Before(ztQueue, Creations, Handovers)  BY <1>8, <3>1, NoneBefore
    <3>3. Before(q, Creations, Handovers) /\ Has(q, Creations)
      BY <1>10, <2>1, <2>3, <3>1, <3>2 DEF Pushed, Has
    <3>4. Before(ztQueue', Creations, Handovers) /\ Has(ztQueue', Creations)
      BY <1>11, <2>1, <3>3 DEF Pushed, Has
    <3>5. ToSet(expected') # {} => ZoneKnown'  BY <1>1, <1>2 DEF ZoneInv, ZoneKnown
    <3>6. QED  BY <1>2, <3>4, <3>5 DEF ZoneInv
  <2>4. QED  BY <2>2, <2>3
<1>20. PlayInv'
  <2>1. ToSet(expected') \subseteq ToSet(expected)  BY <1>2
  <2>2. \A m \in ToSet(udpQueue') : m.zop = "ReplaceClientObject" => m \in ToSet(udpQueue)  BY <1>2
  <2>3. QED  BY <1>1, <1>12, <1>14, <1>15, <2>1, <2>2, PlayFrame
<1>21. ASSUME NEW s \in Stubs, StubInv(s), AddrInv(s) PROVE StubInv(s)' /\ AddrInv(s)'
  <2>1. m1 \notin AboutOf(s) /\ m2 \notin AboutOf(s)  BY <1>7, ZoneInAssumption DEF AboutOf
  <2>2. m1 \notin ArrivalsOf(s) /\ m2 \notin ArrivalsOf(s)  BY <2>1, AboutIs
  <2>3. /\ Once(q, ArrivalsOf(s)) /\ (Arriving(s) => Has(q, ArrivalsOf(s)))
        /\ \A m \in ToSet(q) : m \in AboutOf(s) => m \in ToSet(ztQueue)
        /\ Before(q, AboutOf(s), ReleasesOf(s)) /\ Before(q, ArrivalsOf(s), AboutOf(s))
    BY <1>10, <1>21, <2>1, <2>2 DEF Pushed, StubInv, Has, Arriving
  <2>4. QueueKept(s)  BY <1>11, <2>1, <2>2, <2>3 DEF Pushed, QueueKept, Has, Arriving
  <2>5. ListKept(s)  BY <1>16, <1>21, ListsWithin
  <2>6. HeapKept(s)  BY <1>2, ZoneInAssumption DEF HeapKept
  <2>7. QED  BY <1>1, <1>12, <1>14, <1>15, <1>21, <2>4, <2>5, <2>6, StubFrame
<1>22. unsafe' \/ SafeInv'  BY <1>2, <1>21 DEF IInv, SafeInv
<1>23. TokenInv'  BY <1>17, <1>18 DEF TokenInv
<1>24. QED  BY <1>12, <1>19, <1>20, <1>22, <1>23 DEF IInv

\* udp_thread_new_client: a stub that was free sits in the table, and its NewClient is
\* the first message about it.
LEMMA ConnectStep ==
  ASSUME IInv, NEW a \in Addrs, Connect(a)
  PROVE  IInv'
<1>1. TypeInv /\ TokenInv /\ ZoneInv /\ PlayInv  BY DEF IInv
<1>2. /\ UNCHANGED <<expected, unconfirmed, valid, entered, zoneUp, udpQueue, ipAddr, asked>>
      /\ UNCHANGED <<zoneAsked, destroyed, said, failures, unsafe>> /\ table[a] = None
  BY DEF Connect, zt, main
<1>3. PICK s \in Stubs \ allocated :
        /\ allocated' = allocated \cup {s}
        /\ table' = [table EXCEPT ![a] = [object |-> s, ignore |-> FALSE]]
        /\ ztQueue' = Append(ztQueue, Message("NewClient", s, a, None))
  BY DEF Connect
<1>4. PICK m : m = Message("NewClient", s, a, None)  OBVIOUS
<1>5. m \in Messages /\ m.zop = "NewClient" /\ m.object = s /\ m.addr = a
  <2>1. m \in Messages  BY <1>4, MessageTypes
  <2>2. QED  BY <1>4, <2>1 DEF Message
<1>6. ztQueue' = Append(ztQueue, m)  BY <1>3, <1>4
<1>7. /\ ztQueue' \in Seq(Messages) /\ Pushed(ztQueue', ztQueue, m)
      /\ \A t : StubInv(t) /\ m.object # t => QueueKept(t)
      /\ \A c : PlaceInv(c) /\ m \notin TokensOf(c) => QueueHeld(c)
  BY <1>1, <1>5, <1>6, QueuePushed
<1>8. table \in [Addrs -> Entries \cup {None}] /\ failures \in Nat  BY <1>1 DEF TypeInv
<1>9. PICK e : e = [object |-> s, ignore |-> FALSE]  OBVIOUS
<1>10. e \in Entries /\ e.object = s  BY <1>9 DEF Entries, Objects
<1>11. \A b \in Addrs : table'[b] = IF b = a THEN e ELSE table[b]  BY <1>3, <1>8, <1>9
<1>12. TypeInv'
  <2>1. table' \in [Addrs -> Entries \cup {None}]  BY <1>3, <1>8, <1>9, <1>10
  <2>2. allocated' \subseteq Objects  BY <1>1, <1>3 DEF TypeInv, Objects
  <2>3. QED  BY <1>1, <1>2, <1>7, <2>1, <2>2 DEF TypeInv
<1>13. Onward  BY <1>2, <1>8 DEF Onward
<1>14. \A o : o # s => SeatHeld(o)  BY <1>10, <1>11 DEF SeatHeld, Sits
<1>15. Within(expected', expected) /\ Within(udpQueue', udpQueue) /\ Within(unconfirmed', unconfirmed)
  BY <1>2, WithinSelf
<1>16. ASSUME NEW c \in Clients PROVE PlaceInv(c)' /\ SeatHeld(c)
  <2>1. PlaceInv(c)  BY <1>1 DEF TokenInv
  <2>2. c # s  BY ZoneInAssumption
  <2>3. m \notin TokensOf(c)  BY <1>5 DEF TokensOf, ReleaseZops
  <2>4. QueueHeld(c)  BY <1>7, <2>1, <2>3
  <2>5. ExpectedHeld(c) /\ CommandsHeld(c)  BY <1>15, <2>1, ListsWithin
  <2>6. SeatHeld(c)  BY <1>14, <2>2
  <2>7. c \in allocated => c \in allocated'  BY <1>3
  <2>8. QED  BY <1>2, <2>1, <2>4, <2>5, <2>6, <2>7, PlaceFrame
<1>17. ZoneInv'
  <2>1. m \notin Creations /\ m \notin Handovers  BY <1>5 DEF Creations, Handovers
  <2>2. /\ Has(ztQueue', Handovers) => Has(ztQueue, Handovers)
        /\ Has(ztQueue, Creations) => Has(ztQueue', Creations)
        /\ Before(ztQueue, Creations, Handovers) => Before(ztQueue', Creations, Handovers)
    BY <1>7, <2>1, ZonePushed
  <2>3. QED  BY <1>1, <1>2, <1>8, <2>2, ZoneFrame
<1>18. PlayInv'
  <2>1. ToSet(expected') \subseteq ToSet(expected)  BY <1>2
  <2>2. \A x \in ToSet(udpQueue') : x.zop = "ReplaceClientObject" => x \in ToSet(udpQueue)  BY <1>2
  <2>3. QED  BY <1>1, <1>12, <1>13, <1>16, <2>1, <2>2, PlayFrame
<1>19. ASSUME NEW t \in Stubs, t # s, StubInv(t), AddrInv(t) PROVE StubInv(t)' /\ AddrInv(t)'
  <2>1. QueueKept(t)  BY <1>5, <1>7, <1>19
  <2>2. ListKept(t)  BY <1>15, <1>19, ListsWithin
  <2>3. SeatHeld(t) /\ HeapKept(t)  BY <1>2, <1>3, <1>14, <1>19 DEF HeapKept
  <2>4. QED  BY <1>1, <1>12, <1>13, <1>19, <2>1, <2>2, <2>3, StubFrame
<1>20. ASSUME StubInv(s), AddrInv(s) PROVE StubInv(s)' /\ AddrInv(s)'
  <2>1. ~Seated(s) /\ ~Listed(s) /\ ~Has(ztQueue, AboutOf(s)) /\ ipAddr[s] = None
    BY <1>20 DEF StubInv, AddrInv
  <2>2. \A b \in Addrs : Sits(b, s)' <=> b = a
    BY <1>10, <1>11, <2>1, NullAssumption DEF Seated, Sits
  <2>3. OneSeat(s)'  BY <2>2 DEF OneSeat
  <2>4. ~Has(ztQueue, ArrivalsOf(s)) /\ ~Has(ztQueue, ReleasesOf(s))  BY <2>1, AboutIs DEF Has
  <2>5. m \in ArrivalsOf(s) /\ m \notin ReleasesOf(s) /\ m \notin SwapsOf(s)
    BY <1>5 DEF ArrivalsOf, ReleasesOf, SwapsOf, ReleaseZops
  <2>6. Once(ztQueue', ArrivalsOf(s))  BY <1>7, <1>20, <2>4 DEF Pushed, StubInv
  <2>7. Before(ztQueue', AboutOf(s), ReleasesOf(s)) /\ Before(ztQueue', ArrivalsOf(s), AboutOf(s))
    BY <1>7, <1>20, <2>1, <2>4 DEF Pushed, StubInv
  <2>8. ~Has(ztQueue', ReleasesOf(s)) /\ ~Swapped(s)' /\ Arriving(s)'
    BY <1>7, <2>4, <2>5, AboutIs DEF Pushed, Has, Swapped, Arriving
  <2>9. ~Listed(s)' /\ Once(unconfirmed', ListingsOf(s))  BY <1>2, <1>20, <2>1 DEF Listed, StubInv
  <2>10. s \in allocated'  BY <1>3
  <2>11. StubInv(s)'  BY <2>3, <2>6, <2>7, <2>8, <2>9, <2>10 DEF StubInv
  <2>12. ASSUME NEW b \in Addrs, Peer(s, b)' PROVE b = a
    <3>1. \A x \in ToSet(ztQueue') : x \in ArrivalsOf(s) => x = m  BY <1>7, <2>4 DEF Pushed, Has
    <3>2. ipAddr'[s] # b  BY <1>2, <2>1, NullAssumption
    <3>3. QED  BY <1>5, <2>12, <3>1, <3>2 DEF Peer
  <2>13. \A x \in ToSet(ztQueue') : ~(x.zop = "ZoneEntry" /\ x.object = s)
    <3>1. \A x \in ToSet(ztQueue) : x.object # s
      <4>1. ztQueue \in Seq(Messages)  BY <1>1 DEF TypeInv
      <4>2. \A x \in ToSet(ztQueue) : x \in Messages  BY <4>1, Members
      <4>3. QED  BY <2>1, <4>2 DEF Has, AboutOf
    <3>2. QED  BY <1>5, <1>7, <3>1 DEF Pushed
  <2>14. \A u \in ToSet(unconfirmed') : u.stub # s
    <3>1. unconfirmed' \in Seq(Waiters)  BY <1>12 DEF TypeInv
    <3>2. \A u \in ToSet(unconfirmed') : u \in Waiters  BY <3>1, Members
    <3>3. QED  BY <2>9, <3>2 DEF Listed, Has, ListingsOf
  <2>15. ipAddr'[s] = None  BY <1>2, <2>1
  <2>16. AddrInv(s)'  BY <2>2, <2>8, <2>12, <2>13, <2>14, <2>15 DEF AddrInv
  <2>17. QED  BY <2>11, <2>16
<1>21. unsafe' \/ SafeInv'  BY <1>2, <1>19, <1>20 DEF IInv, SafeInv
<1>22. TokenInv'  BY <1>16 DEF TokenInv
<1>23. QED  BY <1>12, <1>17, <1>18, <1>21, <1>22 DEF IInv

\* OP_ZoneEntry: the name is said at the address of the stub it comes from, and its
\* message comes before the stub's release.
LEMMA SayNameStep ==
  ASSUME IInv, NEW a \in Addrs, NEW name \in Names, SayName(a, name)
  PROVE  IInv'
<1>1. TypeInv /\ TokenInv /\ ZoneInv /\ PlayInv  BY DEF IInv
<1>2. /\ UNCHANGED <<expected, unconfirmed, valid, entered, zoneUp, udpQueue, table, ipAddr, allocated>>
      /\ UNCHANGED <<asked, zoneAsked, destroyed, failures, unsafe>> /\ table[a] # None
      /\ said' = [said EXCEPT ![a] = @ \cup {name}]
  BY DEF SayName, zt, main
<1>3. /\ table \in [Addrs -> Entries \cup {None}] /\ failures \in Nat /\ said \in [Addrs -> SUBSET Names]
      /\ ztQueue \in Seq(Messages)
  BY <1>1 DEF TypeInv
<1>4. PICK o \in Objects : o = table[a].object  BY <1>2, <1>3 DEF Entries
<1>5. PICK m : m = Message("ZoneEntry", o, None, name)  OBVIOUS
<1>6. m \in Messages /\ m.zop = "ZoneEntry" /\ m.object = o /\ m.name = name
  <2>1. m \in Messages  BY <1>5, MessageTypes
  <2>2. QED  BY <1>5, <2>1 DEF Message
<1>7. ztQueue' = Append(ztQueue, m)  BY <1>4, <1>5 DEF SayName
<1>8. /\ ztQueue' \in Seq(Messages) /\ Pushed(ztQueue', ztQueue, m)
      /\ \A t : StubInv(t) /\ m.object # t => QueueKept(t)
      /\ \A c : PlaceInv(c) /\ m \notin TokensOf(c) => QueueHeld(c)
  BY <1>1, <1>6, <1>7, QueuePushed
<1>9. \A b \in Addrs : said[b] \subseteq said'[b]  BY <1>2, <1>3
<1>10. TypeInv'
  <2>1. said' \in [Addrs -> SUBSET Names]  BY <1>2, <1>3
  <2>2. QED  BY <1>1, <1>2, <1>8, <2>1 DEF TypeInv
<1>11. Onward  BY <1>2, <1>3, <1>9 DEF Onward
<1>12. \A x : SeatHeld(x) /\ HeapKept(x)  BY <1>2 DEF SeatHeld, Sits, HeapKept
<1>13. Within(expected', expected) /\ Within(udpQueue', udpQueue) /\ Within(unconfirmed', unconfirmed)
  BY <1>2, WithinSelf
<1>14. ASSUME NEW c \in Clients PROVE PlaceInv(c)'
  <2>1. PlaceInv(c)  BY <1>1 DEF TokenInv
  <2>2. m \notin TokensOf(c)  BY <1>6 DEF TokensOf, ReleaseZops
  <2>3. QueueHeld(c)  BY <1>8, <2>1, <2>2
  <2>4. ExpectedHeld(c) /\ CommandsHeld(c)  BY <1>13, <2>1, ListsWithin
  <2>5. QED  BY <1>2, <1>12, <2>1, <2>3, <2>4, PlaceFrame
<1>15. ZoneInv'
  <2>1. m \notin Creations /\ m \notin Handovers  BY <1>6 DEF Creations, Handovers
  <2>2. /\ Has(ztQueue', Handovers) => Has(ztQueue, Handovers)
        /\ Has(ztQueue, Creations) => Has(ztQueue', Creations)
        /\ Before(ztQueue, Creations, Handovers) => Before(ztQueue', Creations, Handovers)
    BY <1>8, <2>1, ZonePushed
  <2>3. QED  BY <1>1, <1>2, <1>3, <2>2, ZoneFrame
<1>16. PlayInv'
  <2>1. ToSet(expected') \subseteq ToSet(expected)  BY <1>2
  <2>2. \A x \in ToSet(udpQueue') : x.zop = "ReplaceClientObject" => x \in ToSet(udpQueue)  BY <1>2
  <2>3. QED  BY <1>1, <1>10, <1>11, <1>12, <2>1, <2>2, PlayFrame
<1>17. ASSUME NEW t \in Stubs, t # o, StubInv(t), AddrInv(t) PROVE StubInv(t)' /\ AddrInv(t)'
  <2>1. QueueKept(t)  BY <1>6, <1>8, <1>17
  <2>2. ListKept(t)  BY <1>13, <1>17, ListsWithin
  <2>3. QED  BY <1>1, <1>10, <1>11, <1>12, <1>17, <2>1, <2>2, StubFrame
<1>18. ASSUME o \in Stubs, StubInv(o), AddrInv(o) PROVE StubInv(o)' /\ AddrInv(o)'
  <2>1. Sits(a, o) /\ Seated(o)  BY <1>2, <1>4 DEF Sits, Seated
  <2>2. ~Has(ztQueue, ReleasesOf(o)) /\ o \in allocated  BY <1>18, <2>1 DEF StubInv
  <2>3. m \notin ArrivalsOf(o) /\ m \notin ReleasesOf(o) /\ m \notin SwapsOf(o)
    BY <1>6 DEF ArrivalsOf, ReleasesOf, SwapsOf, ReleaseZops
  <2>4. Once(ztQueue', ArrivalsOf(o))  BY <1>8, <1>18, <2>3 DEF Pushed, StubInv
  <2>5. Before(ztQueue', AboutOf(o), ReleasesOf(o)) /\ Before(ztQueue', ArrivalsOf(o), AboutOf(o))
    BY <1>8, <1>18, <2>2, <2>3 DEF Pushed, StubInv
  <2>6. ~Has(ztQueue', ReleasesOf(o)) /\ (Arriving(o)' <=> Arriving(o)) /\ (Swapped(o)' => Swapped(o))
    BY <1>8, <2>2, <2>3 DEF Pushed, Has, Swapped, Arriving
  <2>7. Listed(o)' <=> Listed(o)  BY <1>2 DEF Listed
  <2>8. OneSeat(o)'  BY <1>12, <1>18 DEF StubInv, OneSeat, SeatHeld
  <2>9. StubInv(o)'  BY <1>2, <1>18, <2>2, <2>4, <2>5, <2>6, <2>7, <2>8 DEF StubInv
  <2>10. ASSUME NEW b \in Addrs, Peer(o, b)'
         PROVE  /\ \A d \in Addrs : Sits(d, o)' => d = b
                /\ \A x \in ToSet(ztQueue') : x.zop = "ZoneEntry" /\ x.object = o => x.name \in said'[b]
                /\ \A u \in ToSet(unconfirmed') : u.stub = o =>
                     u.ip = Ip(b) /\ (u.name # None => u.name \in said'[b])
    <3>1. Peer(o, b)  BY <1>2, <1>8, <2>3, <2>10 DEF Peer, Pushed
    <3>2. /\ \A d \in Addrs : Sits(d, o) => d = b
          /\ \A x \in ToSet(ztQueue) : x.zop = "ZoneEntry" /\ x.object = o => x.name \in said[b]
          /\ \A u \in ToSet(unconfirmed) : u.stub = o =>
               u.ip = Ip(b) /\ (u.name # None => u.name \in said[b])
      BY <1>18, <3>1 DEF AddrInv
    <3>3. a = b /\ name \in said'[b]  BY <1>2, <1>3, <2>1, <3>2
    <3>4. \A x \in ToSet(ztQueue') : x.zop = "ZoneEntry" /\ x.object = o => x.name \in said'[b]
      BY <1>6, <1>8, <1>9, <3>2, <3>3 DEF Pushed
    <3>5. QED  BY <1>2, <1>9, <1>12, <3>2, <3>4 DEF SeatHeld
  <2>11. AddrInv(o)'  BY <1>2, <1>18, <2>6, <2>10 DEF AddrInv
  <2>12. QED  BY <2>9, <2>11
<1>19. unsafe' \/ SafeInv'  BY <1>2, <1>17, <1>18 DEF IInv, SafeInv
<1>20. TokenInv'  BY <1>14 DEF TokenInv
<1>21. QED  BY <1>10, <1>15, <1>16, <1>19, <1>20 DEF IInv

\* OP_CampStart and OP_Unspawn come from a Client and are about it.
LEMMA LeaveStep ==
  ASSUME IInv, NEW a \in Addrs, Camp(a) \/ Leave(a)
  PROVE  IInv'
<1>1. TypeInv /\ TokenInv /\ ZoneInv /\ PlayInv  BY DEF IInv
<1>2. /\ UNCHANGED <<expected, unconfirmed, valid, entered, zoneUp, udpQueue, table, ipAddr, allocated>>
      /\ UNCHANGED <<asked, zoneAsked, destroyed, failures, unsafe, said>>
  BY DEF Camp, Leave, zt, udp, main
<1>3. failures \in Nat  BY <1>1 DEF TypeInv
<1>4. PICK o \in Clients : \/ ztQueue' = Append(ztQueue, Message("CampStart", o, None, None))
                           \/ ztQueue' = Append(ztQueue, Message("Unspawn", o, None, None))
  BY DEF Camp, Leave
<1>5. PICK m \in Messages : /\ m.zop \in {"CampStart", "Unspawn"} /\ m.object = o
                            /\ ztQueue' = Append(ztQueue, m)
  <2>1. PICK m1, m2 : m1 = Message("CampStart", o, None, None) /\ m2 = Message("Unspawn", o, None, None)
    OBVIOUS
  <2>2. m1 \in Messages /\ m2 \in Messages  BY <2>1, MessageTypes
  <2>3. m1.zop = "CampStart" /\ m1.object = o /\ m2.zop = "Unspawn" /\ m2.object = o  BY <2>1 DEF Message
  <2>4. ztQueue' = Append(ztQueue, m1) \/ ztQueue' = Append(ztQueue, m2)  BY <1>4, <2>1
  <2>5. QED  BY <2>2, <2>3, <2>4
<1>6. /\ ztQueue' \in Seq(Messages) /\ Pushed(ztQueue', ztQueue, m)
      /\ \A t : StubInv(t) /\ m.object # t => QueueKept(t)
      /\ \A c : PlaceInv(c) /\ m \notin TokensOf(c) => QueueHeld(c)
  BY <1>1, <1>5, QueuePushed
<1>7. TypeInv'  BY <1>1, <1>2, <1>6 DEF TypeInv
<1>8. Onward  BY <1>2, <1>3 DEF Onward
<1>9. \A x : SeatHeld(x) /\ HeapKept(x)  BY <1>2 DEF SeatHeld, Sits, HeapKept
<1>10. Within(expected', expected) /\ Within(udpQueue', udpQueue) /\ Within(unconfirmed', unconfirmed)
  BY <1>2, WithinSelf
<1>11. ASSUME NEW c \in Clients PROVE PlaceInv(c)'
  <2>1. PlaceInv(c)  BY <1>1 DEF TokenInv
  <2>2. m \notin TokensOf(c)  BY <1>5 DEF TokensOf, ReleaseZops
  <2>3. QueueHeld(c)  BY <1>6, <2>1, <2>2
  <2>4. ExpectedHeld(c) /\ CommandsHeld(c)  BY <1>10, <2>1, ListsWithin
  <2>5. QED  BY <1>2, <1>9, <2>1, <2>3, <2>4, PlaceFrame
<1>12. ZoneInv'
  <2>1. m \notin Creations /\ m \notin Handovers  BY <1>5 DEF Creations, Handovers
  <2>2. /\ Has(ztQueue', Handovers) => Has(ztQueue, Handovers)
        /\ Has(ztQueue, Creations) => Has(ztQueue', Creations)
        /\ Before(ztQueue, Creations, Handovers) => Before(ztQueue', Creations, Handovers)
    BY <1>6, <2>1, ZonePushed
  <2>3. QED  BY <1>1, <1>2, <1>3, <2>2, ZoneFrame
<1>13. PlayInv'
  <2>1. ToSet(expected') \subseteq ToSet(expected)  BY <1>2
  <2>2. \A x \in ToSet(udpQueue') : x.zop = "ReplaceClientObject" => x \in ToSet(udpQueue)  BY <1>2
  <2>3. QED  BY <1>1, <1>7, <1>8, <1>9, <2>1, <2>2, PlayFrame
<1>14. ASSUME NEW t \in Stubs, StubInv(t), AddrInv(t) PROVE StubInv(t)' /\ AddrInv(t)'
  <2>1. QueueKept(t)  BY <1>5, <1>6, <1>14, ZoneInAssumption
  <2>2. ListKept(t)  BY <1>10, <1>14, ListsWithin
  <2>3. QED  BY <1>1, <1>7, <1>8, <1>9, <1>14, <2>1, <2>2, StubFrame
<1>15. unsafe' \/ SafeInv'  BY <1>2, <1>14 DEF IInv, SafeInv
<1>16. TokenInv'  BY <1>11 DEF TokenInv
<1>17. QED  BY <1>7, <1>12, <1>13, <1>15, <1>16 DEF IInv

-----------------------------------------------------------------------------
(* The UDP thread gives back what sits in its table.                       *)

\* udpc_report_disconnect, udpc_replace_client_object: the object is reported, or the
\* push fails.
Reported(o, zop) ==
  \/ ztQueue' = Append(ztQueue, Message(zop, o, None, None))
  \/ ztQueue' = ztQueue

\* What the report does to the queue.
LEMMA ReportIs ==
  ASSUME TypeInv, NEW o \in Objects, NEW zop \in ReleaseZops, Reported(o, zop)
  PROVE  /\ ztQueue' \in Seq(Messages)
         /\ \/ ztQueue' = ztQueue
            \/ \E m \in Messages : m.zop = zop /\ m.object = o /\ Pushed(ztQueue', ztQueue, m)
         /\ \A t : StubInv(t) /\ o # t => QueueKept(t)
         /\ \A c : PlaceInv(c) /\ o # c => QueueHeld(c)
         /\ Has(ztQueue', Handovers) => Has(ztQueue, Handovers)
         /\ Has(ztQueue, Creations) => Has(ztQueue', Creations)
         /\ Before(ztQueue, Creations, Handovers) => Before(ztQueue', Creations, Handovers)
<1>1. CASE ztQueue' = ztQueue
  <2>1. ztQueue' \in Seq(Messages)  BY <1>1 DEF TypeInv
  <2>2. QED  BY <1>1, <2>1, QueueSame
<1>2. CASE ztQueue' = Append(ztQueue, Message(zop, o, None, None))
  <2>1. PICK m : m = Message(zop, o, None, None)  OBVIOUS
  <2>2. m \in Messages  BY <2>1, MessageTypes DEF ReleaseZops
  <2>3. m.zop = zop /\ m.object = o  BY <2>1 DEF Message
  <2>4. ztQueue' = Append(ztQueue, m)  BY <1>2, <2>1
  <2>5. /\ ztQueue' \in Seq(Messages) /\ Pushed(ztQueue', ztQueue, m)
        /\ \A t : StubInv(t) /\ m.object # t => QueueKept(t)
        /\ \A c : PlaceInv(c) /\ m \notin TokensOf(c) => QueueHeld(c)
    BY <2>2, <2>4, QueuePushed
  <2>6. \A c : o # c => m \notin TokensOf(c)  BY <2>3 DEF TokensOf
  <2>7. m \notin Creations /\ m \notin Handovers  BY <2>3 DEF Creations, Handovers, ReleaseZops
  <2>8. /\ Has(ztQueue', Handovers) => Has(ztQueue, Handovers)
        /\ Has(ztQueue, Creations) => Has(ztQueue', Creations)
        /\ Before(ztQueue, Creations, Handovers) => Before(ztQueue', Creations, Handovers)
    BY <2>5, <2>7, ZonePushed
  <2>9. QED  BY <2>2, <2>3, <2>5, <2>6, <2>8
<1>3. QED  BY <1>1, <1>2 DEF Reported

\* A Client that is given back is in the queue, or nowhere.
LEMMA ReleasedClient ==
  ASSUME TypeInv, TypeInv', NEW c \in Clients, PlaceInv(c), Seated(c), ~Seated(c)',
         NEW zop \in ReleaseZops, Reported(c, zop), ExpectedHeld(c), CommandsHeld(c),
         UNCHANGED <<allocated, asked>>
  PROVE  PlaceInv(c)'
<1>1. ~InQueue(c) /\ ~InExpected(c)' /\ ~InCommands(c)'  BY DEF PlaceInv, ExpectedHeld, CommandsHeld
<1>2. c \in allocated' /\ asked'[c] # None  BY DEF PlaceInv
<1>3. OneSeat(c)'  BY DEF Seated, OneSeat
<1>4. Once(ztQueue', TokensOf(c))
  <2>1. Once(ztQueue, TokensOf(c)) /\ ~Has(ztQueue, TokensOf(c))  BY <1>1 DEF PlaceInv, InQueue
  <2>2. c \in Objects  BY DEF Objects
  <2>3. CASE ztQueue' = ztQueue  BY <2>1, <2>3
  <2>4. CASE \E m \in Messages : Pushed(ztQueue', ztQueue, m)  BY <2>1, <2>4 DEF Pushed
  <2>5. QED  BY <2>2, <2>3, <2>4, ReportIs
<1>5. QED  BY <1>1, <1>2, <1>3, <1>4 DEF PlaceInv, ExpectedHeld, CommandsHeld

\* A stub that is given back, matched if it is replaced: its release is the last
\* message about it.
LEMMA ReleasedStub ==
  ASSUME TypeInv, TypeInv', NEW s \in Stubs, StubInv(s), AddrInv(s), Seated(s), ~Seated(s)',
         NEW zop \in ReleaseZops, Reported(s, zop), zop = "ReplaceClientObject" => ~Listed(s) /\ ~Arriving(s),
         UNCHANGED <<unconfirmed, ipAddr, allocated, said>>
  PROVE  StubInv(s)' /\ AddrInv(s)'
<1>1. ~Has(ztQueue, ReleasesOf(s)) /\ s \in allocated'  BY DEF StubInv
<1>2. Listed(s)' <=> Listed(s)  BY DEF Listed
<1>3. OneSeat(s)' /\ \A b \in Addrs : ~Sits(b, s)'  BY DEF Seated, OneSeat
<1>4. CASE ztQueue' = ztQueue
  <2>1. (Arriving(s)' <=> Arriving(s)) /\ (Swapped(s)' <=> Swapped(s))  BY <1>4 DEF Arriving, Swapped
  <2>2. StubInv(s)'  BY <1>1, <1>2, <1>3, <1>4, <2>1 DEF StubInv
  <2>3. \A a \in Addrs : Peer(s, a)' <=> Peer(s, a)  BY <1>4 DEF Peer
  <2>4. AddrInv(s)'  BY <1>3, <1>4, <2>1, <2>3 DEF AddrInv
  <2>5. QED  BY <2>2, <2>4
<1>5. CASE \E m \in Messages : m.zop = zop /\ m.object = s /\ Pushed(ztQueue', ztQueue, m)
  <2>1. PICK m \in Messages : m.zop = zop /\ m.object = s /\ Pushed(ztQueue', ztQueue, m)  BY <1>5
  <2>2. m \notin ArrivalsOf(s) /\ m.zop # "ZoneEntry"  BY <2>1 DEF ArrivalsOf, ReleaseZops
  <2>3. m \in SwapsOf(s) => zop = "ReplaceClientObject"  BY <2>1 DEF SwapsOf
  <2>4. Once(ztQueue', ArrivalsOf(s))  BY <2>1, <2>2 DEF Pushed, StubInv
  <2>5. Before(ztQueue', AboutOf(s), ReleasesOf(s)) /\ Before(ztQueue', ArrivalsOf(s), AboutOf(s))
    BY <1>1, <2>1, <2>2 DEF Pushed, StubInv
  <2>6. Arriving(s)' <=> Arriving(s)  BY <2>1, <2>2 DEF Pushed, Has, Arriving
  <2>7. Swapped(s)' => ~Listed(s) /\ ~Arriving(s)
    <3>1. ~Swapped(s)  BY <1>1, AboutIs DEF Swapped, Has
    <3>2. Swapped(s)' => m \in SwapsOf(s)  BY <2>1, <3>1 DEF Pushed, Has, Swapped
    <3>3. QED  BY <2>3, <3>2
  <2>8. Arriving(s) => ~Listed(s)  BY DEF StubInv
  <2>9. Once(unconfirmed', ListingsOf(s))  BY DEF StubInv
  <2>10. StubInv(s)'  BY <1>1, <1>2, <1>3, <2>4, <2>5, <2>6, <2>7, <2>8, <2>9 DEF StubInv
  <2>11. \A a \in Addrs : Peer(s, a)' => Peer(s, a)  BY <2>1, <2>2 DEF Peer, Pushed
  <2>12. \A x \in ToSet(ztQueue') : x.zop = "ZoneEntry" /\ x.object = s => x \in ToSet(ztQueue)
    BY <2>1, <2>2 DEF Pushed
  <2>13. AddrInv(s)'  BY <1>3, <2>6, <2>11, <2>12 DEF AddrInv
  <2>14. QED  BY <2>10, <2>13
<1>6. s \in Objects  BY DEF Objects
<1>7. QED  BY <1>4, <1>5, <1>6, ReportIs

\* udpc_report_disconnect: a silent peer's object leaves the table.
LEMMA GoSilentStep ==
  ASSUME IInv, NEW a \in Addrs, GoSilent(a)
  PROVE  IInv'
<1>1. TypeInv /\ TokenInv /\ ZoneInv /\ PlayInv  BY DEF IInv
<1>2. /\ UNCHANGED <<expected, unconfirmed, valid, entered, zoneUp, udpQueue, ipAddr, allocated, asked>>
      /\ UNCHANGED <<zoneAsked, destroyed, said, unsafe>> /\ table[a] # None /\ table' = [table EXCEPT ![a] = None]
  BY DEF GoSilent, zt, main
<1>3. table \in [Addrs -> Entries \cup {None}] /\ failures \in Nat  BY <1>1 DEF TypeInv
<1>4. failures' \in Nat /\ failures' >= failures  BY <1>3 DEF GoSilent, Spend
<1>5. PICK o \in Objects : o = table[a].object  BY <1>2, <1>3 DEF Entries
<1>6. PICK zop \in ReleaseZops : zop = "ClientDisconnect"  BY DEF ReleaseZops
<1>7. Reported(o, zop)  BY <1>5, <1>6 DEF GoSilent, Reported
<1>8. /\ ztQueue' \in Seq(Messages)
      /\ \A t : StubInv(t) /\ o # t => QueueKept(t)
      /\ \A c : PlaceInv(c) /\ o # c => QueueHeld(c)
      /\ Has(ztQueue', Handovers) => Has(ztQueue, Handovers)
      /\ Has(ztQueue, Creations) => Has(ztQueue', Creations)
      /\ Before(ztQueue, Creations, Handovers) => Before(ztQueue', Creations, Handovers)
  BY <1>1, <1>7, ReportIs
<1>9. \A b \in Addrs : table'[b] = IF b = a THEN None ELSE table[b]  BY <1>2, <1>3
<1>10. TypeInv'
  <2>1. table' \in [Addrs -> Entries \cup {None}]  BY <1>2, <1>3
  <2>2. QED  BY <1>1, <1>2, <1>4, <1>8, <2>1 DEF TypeInv
<1>11. Onward  BY <1>2, <1>4 DEF Onward
<1>12. \A x : SeatHeld(x) /\ HeapKept(x)  BY <1>2, <1>9 DEF SeatHeld, Sits, HeapKept
<1>13. Within(expected', expected) /\ Within(udpQueue', udpQueue) /\ Within(unconfirmed', unconfirmed)
  BY <1>2, WithinSelf
<1>14. Seated(o) /\ (OneSeat(o) => ~Seated(o)')
  BY <1>2, <1>5, <1>9 DEF Seated, Sits, OneSeat
<1>15. ASSUME NEW c \in Clients PROVE PlaceInv(c)'
  <2>1. PlaceInv(c)  BY <1>1 DEF TokenInv
  <2>2. ExpectedHeld(c) /\ CommandsHeld(c)  BY <1>13, <2>1, ListsWithin
  <2>3. CASE c = o
    <3>1. Seated(c) /\ ~Seated(c)' /\ Reported(c, zop)  BY <1>7, <1>14, <2>1, <2>3 DEF PlaceInv
    <3>2. QED  BY <1>1, <1>2, <1>10, <2>1, <2>2, <3>1, ReleasedClient
  <2>4. CASE c # o
    <3>1. QueueHeld(c)  BY <1>8, <2>1, <2>4
    <3>2. QED  BY <1>2, <1>12, <2>1, <2>2, <3>1, PlaceFrame
  <2>5. QED  BY <2>3, <2>4
<1>16. ZoneInv'  BY <1>1, <1>2, <1>3, <1>4, <1>8, ZoneFrame
<1>17. PlayInv'
  <2>1. ToSet(expected') \subseteq ToSet(expected)  BY <1>2
  <2>2. \A x \in ToSet(udpQueue') : x.zop = "ReplaceClientObject" => x \in ToSet(udpQueue)  BY <1>2
  <2>3. QED  BY <1>1, <1>10, <1>11, <1>12, <2>1, <2>2, PlayFrame
<1>18. ASSUME NEW t \in Stubs, StubInv(t), AddrInv(t) PROVE StubInv(t)' /\ AddrInv(t)'
  <2>1. CASE t = o
    <3>1. Seated(t) /\ ~Seated(t)' /\ Reported(t, zop)  BY <1>7, <1>14, <1>18, <2>1 DEF StubInv
    <3>2. QED  BY <1>1, <1>2, <1>6, <1>10, <1>18, <3>1, ReleasedStub
  <2>2. CASE t # o
    <3>1. QueueKept(t)  BY <1>8, <1>18, <2>2
    <3>2. ListKept(t)  BY <1>13, <1>18, ListsWithin
    <3>3. QED  BY <1>1, <1>10, <1>11, <1>12, <1>18, <3>1, <3>2, StubFrame
  <2>3. QED  BY <2>1, <2>2
<1>19. unsafe' \/ SafeInv'  BY <1>2, <1>18 DEF IInv, SafeInv
<1>20. TokenInv'  BY <1>15 DEF TokenInv
<1>21. QED  BY <1>10, <1>16, <1>17, <1>19, <1>20 DEF IInv

\* A command is taken from the UDP thread's queue.
LEMMA CommandPopped ==
  ASSUME TypeInv, udpQueue # <<>>, udpQueue' = Tail(udpQueue), NEW cmd, cmd = Head(udpQueue)
  PROVE  /\ udpQueue' \in Seq(Commands) /\ cmd \in Commands /\ Popped(udpQueue', udpQueue, cmd)
         /\ Within(udpQueue', udpQueue) /\ cmd \in ToSet(udpQueue)
<1>1. udpQueue \in Seq(Commands)  BY DEF TypeInv
<1>2. udpQueue' \in Seq(Commands) /\ cmd \in Commands /\ Popped(udpQueue', udpQueue, cmd)
  BY <1>1, PoppedIs
<1>3. QED  BY <1>2 DEF Popped, Removed

\* A command that finds nobody at its address, or has the peer ignored from now on.
LEMMA UdpQuiet ==
  ASSUME IInv, udpQueue # <<>>, udpQueue' = Tail(udpQueue), table' \in [Addrs -> Entries \cup {None}],
         \A o : SeatHeld(o), UNCHANGED <<zt, ipAddr, allocated, asked, zoneAsked, destroyed, said>>,
         UNCHANGED <<ztQueue, failures, unsafe>>
  PROVE  IInv'
<1>1. TypeInv /\ TokenInv /\ ZoneInv /\ PlayInv  BY DEF IInv
<1>2. UNCHANGED <<expected, unconfirmed, valid, entered, zoneUp>> /\ failures \in Nat
  BY <1>1 DEF zt, TypeInv
<1>3. PICK cmd : cmd = Head(udpQueue)  OBVIOUS
<1>4. udpQueue' \in Seq(Commands) /\ Within(udpQueue', udpQueue)  BY <1>1, <1>3, CommandPopped
<1>5. TypeInv'  BY <1>1, <1>2, <1>4 DEF TypeInv
<1>6. Onward  BY <1>2 DEF Onward
<1>7. \A x : HeapKept(x)  BY DEF HeapKept
<1>8. Within(expected', expected) /\ Within(unconfirmed', unconfirmed)  BY <1>2, WithinSelf
<1>9. ASSUME NEW c \in Clients PROVE PlaceInv(c)'
  <2>1. PlaceInv(c)  BY <1>1 DEF TokenInv
  <2>2. QueueHeld(c) /\ ExpectedHeld(c) /\ CommandsHeld(c)
    BY <1>4, <1>8, <2>1, ListsWithin, QueueSame
  <2>3. QED  BY <2>1, <2>2, PlaceFrame
<1>10. ZoneInv'  BY <1>1, <1>2, ZoneFrame
<1>11. PlayInv'
  <2>1. ToSet(expected') \subseteq ToSet(expected) /\ ToSet(udpQueue') \subseteq ToSet(udpQueue)
    BY <1>4, <1>8 DEF Within
  <2>2. \A x \in ToSet(udpQueue') : x.zop = "ReplaceClientObject" => x \in ToSet(udpQueue)  BY <2>1
  <2>3. QED  BY <1>1, <1>5, <1>6, <2>1, <2>2, PlayFrame
<1>12. ASSUME NEW t \in Stubs, StubInv(t), AddrInv(t) PROVE StubInv(t)' /\ AddrInv(t)'
  <2>1. QueueKept(t) /\ ListKept(t)  BY <1>8, <1>12, ListsWithin, QueueSame
  <2>2. QED  BY <1>1, <1>5, <1>6, <1>7, <1>12, <2>1, StubFrame
<1>13. unsafe' \/ SafeInv'  BY <1>12 DEF IInv, SafeInv
<1>14. TokenInv'  BY <1>9 DEF TokenInv
<1>15. QED  BY <1>5, <1>10, <1>11, <1>13, <1>14 DEF IInv

\* What Unmatched says of a stub, by its entries and messages.
LEMMA MatchedIs ==
  ASSUME TypeInv, NEW s, ~Unmatched(s)
  PROVE  ~Listed(s) /\ ~Arriving(s)
<1>1. unconfirmed \in Seq(Waiters) /\ ztQueue \in Seq(Messages)  BY DEF TypeInv
<1>2. DOMAIN unconfirmed = 1 .. Len(unconfirmed) /\ ToSet(unconfirmed) = {unconfirmed[k] : k \in 1 .. Len(unconfirmed)}
  BY <1>1, Members
<1>3. DOMAIN ztQueue = 1 .. Len(ztQueue) /\ ToSet(ztQueue) = {ztQueue[k] : k \in 1 .. Len(ztQueue)}
  BY <1>1, Members
<1>4. ~Listed(s)  BY <1>2 DEF Unmatched, Listed, Has, ListingsOf
<1>5. ~Arriving(s)  BY <1>3 DEF Unmatched, Arriving, Has, ArrivalsOf
<1>6. QED  BY <1>4, <1>5

\* udpc_replace_client_object: the Client takes the seat of the object it replaces.
LEMMA UdpReplace ==
  ASSUME IInv, udpQueue # <<>>, udpQueue' = Tail(udpQueue), NEW cmd, cmd = Head(udpQueue),
         table[cmd.addr] # None, cmd.zop = "ReplaceClientObject",
         table' = [table EXCEPT ![cmd.addr].object = cmd.client],
         NEW o, o = table[cmd.addr].object, unsafe' = (unsafe \/ o \in Clients \/ Unmatched(o)),
         Reported(o, "ReplaceClientObject"), failures' \in Nat, failures' >= failures,
         UNCHANGED <<zt, ipAddr, allocated, asked, zoneAsked, destroyed, said>>
  PROVE  IInv'
<1>1. TypeInv /\ TokenInv /\ ZoneInv /\ PlayInv  BY DEF IInv
<1>2. UNCHANGED <<expected, unconfirmed, valid, entered, zoneUp>>  BY DEF zt
<1>3. table \in [Addrs -> Entries \cup {None}] /\ failures \in Nat /\ unsafe \in BOOLEAN
  BY <1>1 DEF TypeInv
<1>4. /\ udpQueue' \in Seq(Commands) /\ cmd \in Commands /\ Popped(udpQueue', udpQueue, cmd)
      /\ Within(udpQueue', udpQueue) /\ cmd \in ToSet(udpQueue)
  BY <1>1, CommandPopped
<1>5. PICK a \in Addrs, c \in Clients : a = cmd.addr /\ c = cmd.client  BY <1>4 DEF Commands
<1>6. o \in Objects /\ c \in Objects  BY <1>3, <1>5 DEF Entries, Objects
<1>7. PICK zop \in ReleaseZops : zop = "ReplaceClientObject"  BY DEF ReleaseZops
<1>8. Reported(o, zop)  BY <1>7
<1>9. /\ ztQueue' \in Seq(Messages)
      /\ \A t : StubInv(t) /\ o # t => QueueKept(t)
      /\ \A d : PlaceInv(d) /\ o # d => QueueHeld(d)
      /\ Has(ztQueue', Handovers) => Has(ztQueue, Handovers)
      /\ Has(ztQueue, Creations) => Has(ztQueue', Creations)
      /\ Before(ztQueue, Creations, Handovers) => Before(ztQueue', Creations, Handovers)
  BY <1>1, <1>6, <1>8, ReportIs
<1>10. PICK e \in Entries : e.object = c /\ table' = [table EXCEPT ![a] = e]
  <2>1. table[a] \in Entries  BY <1>3, <1>5
  <2>2. PICK e : e = [table[a] EXCEPT !.object = c]  OBVIOUS
  <2>3. e \in Entries /\ e.object = c  BY <1>6, <2>1, <2>2 DEF Entries
  <2>4. table' = [table EXCEPT ![a] = e]  BY <1>5, <2>2
  <2>5. QED  BY <2>3, <2>4
<1>11. e # None  BY NullAssumption
<1>12. \A b \in Addrs : table'[b] = IF b = a THEN e ELSE table[b]  BY <1>3, <1>10
<1>13. TypeInv'
  <2>1. table' \in [Addrs -> Entries \cup {None}]  BY <1>3, <1>10
  <2>2. unsafe' \in BOOLEAN  BY <1>3
  <2>3. QED  BY <1>1, <1>2, <1>4, <1>9, <2>1, <2>2 DEF TypeInv
<1>14. Onward  BY <1>2 DEF Onward
<1>15. Within(expected', expected) /\ Within(unconfirmed', unconfirmed)  BY <1>2, WithinSelf
<1>16. InCommands(c) /\ cmd \in CommandsOf(c)
  <2>1. cmd \in CommandsOf(c)  BY <1>4, <1>5 DEF CommandsOf
  <2>2. QED  BY <1>4, <2>1 DEF InCommands, Has
<1>17. PlaceInv(c) /\ ~InQueue(c) /\ ~InExpected(c) /\ ~Seated(c) /\ c \in allocated /\ asked[c] # None
  BY <1>1, <1>16 DEF TokenInv, PlaceInv
<1>18. Sits(a, o) /\ Seated(o) /\ o # c  BY <1>5, <1>17 DEF Sits, Seated
<1>19. \A x : x # c => SeatHeld(x)  BY <1>10, <1>12 DEF SeatHeld, Sits
<1>20. OneSeat(o) => ~Seated(o)'  BY <1>5, <1>10, <1>12, <1>18 DEF Seated, Sits, OneSeat
<1>21. \A b \in Addrs : Sits(b, c)' <=> b = a
  BY <1>10, <1>11, <1>12, <1>17 DEF Sits, Seated
<1>22. PlaceInv(c)'
  <2>1. QueueHeld(c) /\ ExpectedHeld(c)  BY <1>9, <1>15, <1>17, <1>18, ListsWithin
  <2>2. ~InQueue(c)' /\ ~InExpected(c)'  BY <1>17, <2>1 DEF QueueHeld, ExpectedHeld
  <2>3. ~InCommands(c)' /\ Once(udpQueue', CommandsOf(c))
    BY <1>4, <1>16, <1>17 DEF Popped, Removed, Within, PlaceInv, InCommands
  <2>4. OneSeat(c)'  BY <1>21 DEF OneSeat
  <2>5. QED  BY <1>17, <2>1, <2>2, <2>3, <2>4 DEF PlaceInv, QueueHeld, ExpectedHeld
<1>23. ASSUME NEW d \in Clients, d # c PROVE PlaceInv(d)'
  <2>1. PlaceInv(d)  BY <1>1 DEF TokenInv
  <2>2. ExpectedHeld(d) /\ CommandsHeld(d)  BY <1>4, <1>15, <2>1, ListsWithin
  <2>3. CASE d = o
    <3>1. Seated(d) /\ ~Seated(d)' /\ Reported(d, zop)  BY <1>8, <1>18, <1>20, <2>1, <2>3 DEF PlaceInv
    <3>2. QED  BY <1>1, <1>13, <2>1, <2>2, <3>1, ReleasedClient, SMTT(30)
  <2>4. CASE d # o
    <3>1. QueueHeld(d) /\ SeatHeld(d)  BY <1>9, <1>19, <1>23, <2>1, <2>4
    <3>2. QED  BY <2>1, <2>2, <3>1, PlaceFrame
  <2>5. QED  BY <2>3, <2>4
<1>24. ZoneInv'  BY <1>1, <1>2, <1>3, <1>9, ZoneFrame
<1>25. PlayInv'
  <2>1. May(a, c)  BY <1>1, <1>4, <1>5 DEF PlayInv
  <2>2. May(a, c)'  BY <1>1, <1>14, <1>17, <2>1, MayKept
  <2>3. \A b \in Addrs : \A d \in Clients : Sits(b, d)' => Sits(b, d) \/ May(b, d)'
    BY <1>19, <1>21, <2>2 DEF SeatHeld
  <2>4. ToSet(expected') \subseteq ToSet(expected) /\ ToSet(udpQueue') \subseteq ToSet(udpQueue)
    BY <1>4, <1>15 DEF Within
  <2>5. \A x \in ToSet(expected') :
          \E f \in ToSet(expected) : f.client = x.client /\ f.ip = x.ip /\ f.name = x.name
    BY <2>4
  <2>6. \A x \in ToSet(udpQueue') : x.zop = "ReplaceClientObject" => x \in ToSet(udpQueue)  BY <2>4
  <2>7. QED  BY <1>1, <1>13, <1>14, <2>3, <2>5, <2>6, PlayStep
<1>26. ASSUME ~unsafe', NEW t \in Stubs, StubInv(t), AddrInv(t) PROVE StubInv(t)' /\ AddrInv(t)'
  <2>1. t # c  BY ZoneInAssumption
  <2>2. CASE t = o
    <3>1. Seated(t) /\ ~Seated(t)' /\ Reported(t, zop)  BY <1>8, <1>18, <1>20, <1>26, <2>2 DEF StubInv
    <3>2. ~Unmatched(t)  BY <1>26, <2>2
    <3>3. ~Listed(t) /\ ~Arriving(t)  BY <1>1, <3>2, MatchedIs
    <3>4. QED  BY <1>1, <1>2, <1>13, <1>26, <3>1, <3>3, ReleasedStub, SMTT(30)
  <2>3. CASE t # o
    <3>1. QueueKept(t)  BY <1>9, <1>26, <2>3
    <3>2. ListKept(t)  BY <1>15, <1>26, ListsWithin
    <3>3. SeatHeld(t) /\ HeapKept(t)  BY <1>19, <2>1 DEF HeapKept
    <3>4. QED  BY <1>1, <1>13, <1>14, <1>26, <3>1, <3>2, <3>3, StubFrame
  <2>4. QED  BY <2>2, <2>3
<1>27. unsafe' \/ SafeInv'  BY <1>14, <1>26 DEF IInv, SafeInv, Onward
<1>28. TokenInv'  BY <1>22, <1>23 DEF TokenInv
<1>29. QED  BY <1>13, <1>24, <1>25, <1>27, <1>28 DEF IInv

\* udp_thread_process_commands
LEMMA UdpCommandStep ==
  ASSUME IInv, UdpCommand
  PROVE  IInv'
<1>1. PICK cmd, e : cmd = Head(udpQueue) /\ e = table[cmd.addr]  OBVIOUS
<1>2. udpQueue # <<>> /\ udpQueue' = Tail(udpQueue)  BY DEF UdpCommand
<1>3. UNCHANGED <<zt, ipAddr, allocated, asked, zoneAsked, destroyed, said>>  BY DEF UdpCommand, main
<1>4. TypeInv  BY DEF IInv
<1>5. table \in [Addrs -> Entries \cup {None}] /\ failures \in Nat  BY <1>4 DEF TypeInv
<1>6. cmd \in Commands  BY <1>1, <1>2, <1>4, CommandPopped
<1>7. cmd.addr \in Addrs  BY <1>6 DEF Commands
<1>8. CASE e = None /\ UNCHANGED <<table, ztQueue, failures, unsafe>>
  <2>1. \A o : SeatHeld(o)  BY <1>8 DEF SeatHeld, Sits
  <2>2. QED  BY <1>2, <1>3, <1>5, <1>8, <2>1, UdpQuiet
<1>9. CASE e # None /\ table' = [table EXCEPT ![cmd.addr].ignore = TRUE] /\ UNCHANGED <<ztQueue, failures, unsafe>>
  <2>1. e \in Entries  BY <1>1, <1>5, <1>7, <1>9
  <2>2. PICK f : f = [e EXCEPT !.ignore = TRUE]  OBVIOUS
  <2>3. f \in Entries /\ f.object = e.object  BY <2>1, <2>2 DEF Entries
  <2>4. table' = [table EXCEPT ![cmd.addr] = f]  BY <1>1, <1>9, <2>2
  <2>5. table' \in [Addrs -> Entries \cup {None}]  BY <1>5, <2>3, <2>4
  <2>6. \A b \in Addrs : table'[b] = IF b = cmd.addr THEN f ELSE table[b]  BY <1>5, <2>4
  <2>7. \A o : SeatHeld(o)  BY <1>1, <1>9, <2>3, <2>6 DEF SeatHeld, Sits
  <2>8. QED  BY <1>2, <1>3, <1>9, <2>5, <2>7, UdpQuiet
<1>10. CASE /\ e # None /\ cmd.zop = "ReplaceClientObject"
            /\ table' = [table EXCEPT ![cmd.addr].object = cmd.client]
            /\ unsafe' = (unsafe \/ e.object \in Clients \/ Unmatched(e.object))
            /\ \/ /\ ztQueue' = Append(ztQueue, Message("ReplaceClientObject", e.object, None, None))
                  /\ UNCHANGED failures
               \/ Spend(1) /\ UNCHANGED ztQueue
  <2>1. PICK o : o = e.object  OBVIOUS
  <2>2. failures' \in Nat /\ failures' >= failures  BY <1>5, <1>10 DEF Spend
  <2>3. Reported(o, "ReplaceClientObject")  BY <1>10, <2>1 DEF Reported
  <2>4. unsafe' = (unsafe \/ o \in Clients \/ Unmatched(o))  BY <1>10, <2>1
  <2>5. o = table[cmd.addr].object /\ table[cmd.addr] # None  BY <1>1, <1>10, <2>1
  <2>6. QED  BY <1>1, <1>2, <1>3, <1>10, <2>2, <2>3, <2>4, <2>5, UdpReplace
<1>11. QED  BY <1>1, <1>8, <1>9, <1>10 DEF UdpCommand

-----------------------------------------------------------------------------
(* The messages of the zone thread's queue.                                *)

\* zt_process_commands takes m.
Taking(m) ==
  /\ ztQueue # <<>> /\ ztQueue' = Tail(ztQueue) /\ m = Head(ztQueue)
  /\ unsafe' = (unsafe \/ TakenForStub(m))
  /\ UNCHANGED <<table, connects, packets, said, main>>

\* What taking a message does to the queue, and to nobody's seat.
LEMMA TakingIs ==
  ASSUME TypeInv, NEW m, Taking(m)
  PROVE  /\ ztQueue' \in Seq(Messages) /\ m \in Messages /\ Popped(ztQueue', ztQueue, m)
         /\ m \in ToSet(ztQueue)
         /\ \A s : StubInv(s) /\ m \notin ArrivalsOf(s) => QueueKept(s)
         /\ \A c : PlaceInv(c) => QueueHeld(c) /\ (m \in TokensOf(c) => ~InQueue(c)')
         /\ \A o : SeatHeld(o)
         /\ unsafe \in BOOLEAN /\ unsafe' \in BOOLEAN /\ (unsafe => unsafe')
         /\ UNCHANGED <<table, said, asked, zoneAsked, destroyed>>
<1>1. ztQueue # <<>> /\ ztQueue' = Tail(ztQueue) /\ m = Head(ztQueue)  BY DEF Taking
<1>2. /\ ztQueue' \in Seq(Messages) /\ m \in Messages /\ Popped(ztQueue', ztQueue, m)
      /\ \A s : StubInv(s) /\ m \notin ArrivalsOf(s) => QueueKept(s)
      /\ \A c : PlaceInv(c) => QueueHeld(c) /\ (m \in TokensOf(c) => ~InQueue(c)')
  BY <1>1, QueuePopped
<1>3. m \in ToSet(ztQueue)  BY <1>2 DEF Popped, Removed
<1>4. \A o : SeatHeld(o)  BY DEF Taking, SeatHeld, Sits
<1>5. unsafe \in BOOLEAN  BY DEF TypeInv
<1>6. QED  BY <1>2, <1>3, <1>4, <1>5 DEF Taking, main

\* An entry that expects what the Client was loaded for.
AsAsked(e) == e.ip = asked[e.client].ip /\ e.name = asked[e.client].name

\* A handler that adds at most a Client that is expected as asked for: what is left to
\* show is where the Clients and the stubs are.
LEMMA HandlerStep ==
  ASSUME IInv, NEW m, Taking(m), m.zop # "CreateZone", TypeInv', TokenInv', unsafe' \/ SafeInv',
         \A x \in ToSet(expected') : x \in ToSet(expected) \/ (ZoneKnown /\ AsAsked(x)'),
         \A x \in ToSet(udpQueue') : x.zop = "ReplaceClientObject" =>
           x \in ToSet(udpQueue) \/ May(x.addr, x.client)',
         UNCHANGED zoneUp, entered \subseteq entered', failures' >= failures
  PROVE  IInv'
<1>1. TypeInv /\ TokenInv /\ ZoneInv /\ PlayInv  BY DEF IInv
<1>2. /\ ztQueue' \in Seq(Messages) /\ m \in Messages /\ Popped(ztQueue', ztQueue, m)
      /\ \A o : SeatHeld(o)
      /\ unsafe \in BOOLEAN /\ unsafe' \in BOOLEAN /\ (unsafe => unsafe')
      /\ UNCHANGED <<table, said, asked, zoneAsked, destroyed>>
  BY <1>1, TakingIs
<1>3. failures \in Nat /\ failures' \in Nat  BY <1>1 DEF TypeInv
<1>4. Onward  BY <1>2, <1>3 DEF Onward
<1>5. ZoneInv'
  <2>1. m \notin Creations  BY DEF Creations
  <2>2. /\ Has(ztQueue', Handovers) => Has(ztQueue, Handovers)
        /\ Has(ztQueue, Creations) => Has(ztQueue', Creations)
        /\ Before(ztQueue, Creations, Handovers) => Before(ztQueue', Creations, Handovers)
    BY <1>2, <2>1, ZonePopped
  <2>3. ToSet(expected') # {} => ToSet(expected) # {} \/ ZoneKnown  OBVIOUS
  <2>4. QED  BY <1>1, <1>2, <1>3, <2>2, <2>3, ZoneFrame
<1>6. PlayInv'
  <2>1. \A b \in Addrs : \A d \in Clients : Sits(b, d)' => Sits(b, d)  BY <1>2 DEF SeatHeld
  <2>2. \A x \in ToSet(expected') :
          \/ \E f \in ToSet(expected) : f.client = x.client /\ f.ip = x.ip /\ f.name = x.name
          \/ x.ip = asked'[x.client].ip /\ x.name = asked'[x.client].name
    BY DEF AsAsked
  <2>3. QED  BY <1>1, <1>4, <2>1, <2>2, PlayStep
<1>7. QED  BY <1>5, <1>6 DEF IInv

\* A stub that is not the one a message is about.
LEMMA OtherStub ==
  ASSUME TypeInv, TypeInv', NEW m, Taking(m), NEW t \in Stubs, StubInv(t), AddrInv(t),
         m \notin ArrivalsOf(t), ListKept(t), HeapKept(t), entered \subseteq entered', failures' >= failures
  PROVE  StubInv(t)' /\ AddrInv(t)'
<1>1. /\ \A s : StubInv(s) /\ m \notin ArrivalsOf(s) => QueueKept(s)
      /\ \A o : SeatHeld(o)
      /\ unsafe \in BOOLEAN /\ (unsafe => unsafe') /\ UNCHANGED <<table, said, asked, zoneAsked, destroyed>>
  BY TakingIs
<1>2. failures \in Nat /\ failures' \in Nat  BY DEF TypeInv
<1>3. Onward  BY <1>1, <1>2 DEF Onward
<1>4. QED  BY <1>1, <1>3, StubFrame

\* A handler that besides sets no stub's address, frees nothing and takes entries out of
\* the unconfirmed list only.
LEMMA MessageStep ==
  ASSUME IInv, NEW m, Taking(m), m.zop \notin {"NewClient", "CreateZone"}, TypeInv',
         Within(unconfirmed', unconfirmed), TokenInv',
         \A x \in ToSet(expected') : x \in ToSet(expected) \/ (ZoneKnown /\ AsAsked(x)'),
         \A x \in ToSet(udpQueue') : x.zop = "ReplaceClientObject" =>
           x \in ToSet(udpQueue) \/ May(x.addr, x.client)',
         \A s \in Stubs : ipAddr'[s] = ipAddr[s], UNCHANGED <<allocated, zoneUp>>,
         entered \subseteq entered', failures' >= failures
  PROVE  IInv'
<1>1. TypeInv  BY DEF IInv
<1>2. unsafe => unsafe'  BY <1>1, TakingIs
<1>3. ASSUME NEW t \in Stubs, StubInv(t), AddrInv(t) PROVE StubInv(t)' /\ AddrInv(t)'
  <2>1. m \notin ArrivalsOf(t)  BY DEF ArrivalsOf
  <2>2. ListKept(t)  BY <1>3, ListsWithin
  <2>3. HeapKept(t)  BY DEF HeapKept
  <2>4. QED  BY <1>1, <1>3, <2>1, <2>2, <2>3, OtherStub
<1>4. unsafe' \/ SafeInv'  BY <1>2, <1>3 DEF IInv, SafeInv
<1>5. QED  BY <1>4, HandlerStep

\* A handler that gives no Client a command.
LEMMA QuietMessage ==
  ASSUME IInv, NEW m, Taking(m), m.zop \notin {"NewClient", "CreateZone"}, TypeInv',
         Within(expected', expected), Within(unconfirmed', unconfirmed),
         \A x \in ToSet(udpQueue') : x.zop = "ReplaceClientObject" => x \in ToSet(udpQueue),
         \A c \in Clients : CommandsHeld(c),
         \A s \in Stubs : ipAddr'[s] = ipAddr[s], UNCHANGED <<allocated, zoneUp>>,
         entered \subseteq entered', failures' >= failures
  PROVE  IInv'
<1>1. TypeInv /\ TokenInv  BY DEF IInv
<1>2. /\ \A c : PlaceInv(c) => QueueHeld(c)
      /\ \A o : SeatHeld(o) /\ UNCHANGED asked
  BY <1>1, TakingIs
<1>3. ASSUME NEW c \in Clients PROVE PlaceInv(c)'
  <2>1. PlaceInv(c)  BY <1>1 DEF TokenInv
  <2>2. QueueHeld(c) /\ ExpectedHeld(c)  BY <1>2, <2>1, ListsWithin
  <2>3. QED  BY <1>2, <2>1, <2>2, PlaceFrame
<1>4. TokenInv'  BY <1>3 DEF TokenInv
<1>5. \A x \in ToSet(expected') : x \in ToSet(expected)  BY DEF Within
<1>6. QED  BY <1>4, <1>5, MessageStep

\* A message that changes nothing but, perhaps, the count of failures.
LEMMA IgnoredMessage ==
  ASSUME IInv, NEW m, Taking(m), m.zop \notin {"NewClient", "CreateZone"},
         UNCHANGED <<expected, unconfirmed, udpQueue, ipAddr, allocated, zoneUp, valid, entered>>,
         failures' \in Nat, failures' >= failures
  PROVE  IInv'
<1>1. TypeInv /\ TokenInv  BY DEF IInv
<1>2. ztQueue' \in Seq(Messages) /\ unsafe' \in BOOLEAN /\ UNCHANGED <<table, said, asked, zoneAsked, destroyed>>
  BY <1>1, TakingIs
<1>3. TypeInv'  BY <1>1, <1>2 DEF TypeInv
<1>4. Within(expected', expected) /\ Within(unconfirmed', unconfirmed) /\ Within(udpQueue', udpQueue)
  BY WithinSelf
<1>5. \A c \in Clients : CommandsHeld(c)  BY <1>1, <1>4, ListsWithin DEF TokenInv
<1>6. \A x \in ToSet(udpQueue') : x.zop = "ReplaceClientObject" => x \in ToSet(udpQueue)  OBVIOUS
<1>7. \A s \in Stubs : ipAddr'[s] = ipAddr[s]  OBVIOUS
<1>8. QED  BY <1>3, <1>4, <1>5, <1>6, <1>7, QuietMessage

\* zt_handle_create_zone: the zone is up, or its creation failed.
LEMMA CreateZoneStep ==
  ASSUME IInv, NEW m, Taking(m), m.zop = "CreateZone", HandleCreateZone
  PROVE  IInv'
<1>1. TypeInv /\ TokenInv /\ ZoneInv /\ PlayInv  BY DEF IInv
<1>2. /\ ztQueue' \in Seq(Messages) /\ Popped(ztQueue', ztQueue, m)
      /\ \A s : StubInv(s) /\ m \notin ArrivalsOf(s) => QueueKept(s)
      /\ \A c : PlaceInv(c) => QueueHeld(c)
      /\ \A o : SeatHeld(o)
      /\ unsafe' \in BOOLEAN /\ (unsafe => unsafe')
      /\ UNCHANGED <<table, said, asked, zoneAsked, destroyed>>
  BY <1>1, TakingIs
<1>3. UNCHANGED <<udpQueue, ipAddr, valid, entered, expected, unconfirmed, allocated>>
  BY DEF HandleCreateZone, noTransition
<1>4. failures \in Nat /\ zoneUp \in BOOLEAN  BY <1>1 DEF TypeInv
<1>5. failures' \in Nat /\ failures' >= failures /\ zoneUp' \in BOOLEAN /\ (zoneUp' \/ failures' > 0)
  <2>1. CASE zoneUp' = TRUE /\ UNCHANGED failures  BY <1>4, <2>1
  <2>2. CASE failures' = failures + 1 /\ UNCHANGED zoneUp
    <3>1. failures' \in Nat /\ failures' >= failures /\ failures' > 0  BY <1>4, <2>2
    <3>2. zoneUp' \in BOOLEAN  BY <1>4, <2>2, Zenon
    <3>3. QED  BY <3>1, <3>2
  <2>3. QED  BY <2>1, <2>2 DEF HandleCreateZone, Spend
<1>6. TypeInv'  BY <1>1, <1>2, <1>3, <1>5 DEF TypeInv
<1>7. Onward  BY <1>2, <1>3, <1>5 DEF Onward
<1>8. Within(expected', expected) /\ Within(unconfirmed', unconfirmed) /\ Within(udpQueue', udpQueue)
  BY <1>3, WithinSelf
<1>9. ASSUME NEW c \in Clients PROVE PlaceInv(c)'
  <2>1. PlaceInv(c)  BY <1>1 DEF TokenInv
  <2>2. QueueHeld(c) /\ ExpectedHeld(c) /\ CommandsHeld(c)  BY <1>2, <1>8, <2>1, ListsWithin
  <2>3. QED  BY <1>2, <1>3, <2>1, <2>2, PlaceFrame
<1>10. ZoneInv'
  <2>1. Has(ztQueue', Handovers) => Has(ztQueue, Handovers)  BY <1>2, ZonePopped
  <2>2. ZoneKnown'  BY <1>5 DEF ZoneKnown
  <2>3. QED  BY <1>1, <1>2, <2>1, <2>2 DEF ZoneInv
<1>11. PlayInv'
  <2>1. ToSet(expected') \subseteq ToSet(expected)  BY <1>3
  <2>2. \A x \in ToSet(udpQueue') : x.zop = "ReplaceClientObject" => x \in ToSet(udpQueue)  BY <1>3
  <2>3. QED  BY <1>1, <1>2, <1>6, <1>7, <2>1, <2>2, PlayFrame
<1>12. ASSUME NEW t \in Stubs, StubInv(t), AddrInv(t) PROVE StubInv(t)' /\ AddrInv(t)'
  <2>1. m \notin ArrivalsOf(t)  BY DEF ArrivalsOf
  <2>2. QueueKept(t) /\ ListKept(t)  BY <1>2, <1>8, <1>12, <2>1, ListsWithin
  <2>3. HeapKept(t)  BY <1>3 DEF HeapKept
  <2>4. QED  BY <1>1, <1>2, <1>6, <1>7, <1>12, <2>2, <2>3, StubFrame
<1>13. unsafe' \/ SafeInv'  BY <1>2, <1>12 DEF IInv, SafeInv
<1>14. TokenInv'  BY <1>9 DEF TokenInv
<1>15. QED  BY <1>6, <1>10, <1>11, <1>13, <1>14 DEF IInv

-----------------------------------------------------------------------------
(* A stub is matched with a Client.                                        *)

\* The addresses that may be read are addresses.
LEMMA AddrsAre ==
  ASSUME TypeInv, NEW o \in Objects
  PROVE  AddrsOf(o) \subseteq Addrs /\ StubAddrs(o) \subseteq Addrs
<1>1. ipAddr[o] \in Addrs \cup {None}  BY DEF TypeInv
<1>2. QED  BY <1>1 DEF AddrsOf, StubAddrs

\* What zt_transition_stub does: with a ReplaceClientObject pushed, the Client is in the
\* zone or something failed.
LEMMA TransitionIs ==
  ASSUME TypeInv, NEW o \in Objects, NEW c \in Clients, TransitionStub(o, c)
  PROVE  /\ valid' \subseteq Clients /\ entered \subseteq entered' /\ entered' \subseteq Clients
         /\ failures' \in Nat /\ failures' >= failures
         /\ unconfirmed' \in Seq(Waiters) /\ Within(unconfirmed', unconfirmed)
         /\ \E a \in StubAddrs(o) :
              /\ ipAddr' = [ipAddr EXCEPT ![c] = a]
              /\ \/ udpQueue' = udpQueue
                 \/ /\ udpQueue' = Append(udpQueue, Command("ReplaceClientObject", a, c))
                    /\ c \in entered' \/ failures' > 0 \/ ~zoneUp
<1>1. failures \in Nat /\ valid \subseteq Clients /\ entered \subseteq Clients /\ unconfirmed \in Seq(Waiters)
  BY DEF TypeInv
<1>2. CASE TransitionDone(o, c)
  <2>1. unconfirmed' = WithoutStub(o)  BY <1>2 DEF TransitionDone
  <2>2. WithoutStub(o) \in Seq(Waiters) /\ Within(WithoutStub(o), unconfirmed)  BY <1>1, WithoutStubIs
  <2>3. unconfirmed' \in Seq(Waiters) /\ Within(unconfirmed', unconfirmed)  BY <2>1, <2>2
  <2>4. /\ valid' \subseteq Clients /\ entered \subseteq entered' /\ entered' \subseteq Clients
        /\ failures' \in Nat /\ failures' >= failures /\ (c \in entered' \/ failures' > 0)
    BY <1>1, <1>2 DEF TransitionDone, Spend
  <2>5. Replace(o, c)  BY <1>2 DEF TransitionDone
  <2>6. QED  BY <2>3, <2>4, <2>5 DEF Replace
<1>3. CASE TransitionFailed(o, c)
  <2>1. unconfirmed' \in Seq(Waiters) /\ Within(unconfirmed', unconfirmed)
    BY <1>1, <1>3, WithinSelf DEF TransitionFailed
  <2>2. /\ valid' \subseteq Clients /\ entered \subseteq entered' /\ entered' \subseteq Clients
        /\ failures' \in Nat /\ failures' >= failures
    BY <1>1, <1>3 DEF TransitionFailed, Spend
  <2>3. ReplaceFailed(o, c) \/ (Replace(o, c) /\ (failures' > 0 \/ ~zoneUp))
    BY <1>1, <1>3 DEF TransitionFailed, Spend
  <2>4. QED  BY <2>1, <2>2, <2>3 DEF Replace, ReplaceFailed
<1>4. QED  BY <1>2, <1>3 DEF TransitionStub

\* The Client leaves the queue or the list for the commands, with the address of a peer
\* that may play it.
LEMMA MatchStep ==
  ASSUME IInv, NEW m, Taking(m), m.zop \notin {"NewClient", "CreateZone"},
         NEW o \in Objects, NEW c \in Clients, TransitionStub(o, c),
         expected' \in Seq(Expectations), Within(expected', expected), UNCHANGED <<allocated, zoneUp>>,
         ~InQueue(c)', ~InExpected(c)', ~InCommands(c), ~Seated(c), c \in allocated, asked[c] # None,
         ZoneKnown, \A a \in StubAddrs(o) : unsafe' \/ (asked[c].ip = Ip(a) /\ (c \in destroyed \/ asked[c].name \in said[a]))
  PROVE  IInv'
<1>1. TypeInv /\ TokenInv  BY DEF IInv
<1>2. /\ ztQueue' \in Seq(Messages)
      /\ \A d : PlaceInv(d) => QueueHeld(d)
      /\ \A x : SeatHeld(x)
      /\ unsafe' \in BOOLEAN /\ UNCHANGED <<table, said, asked, zoneAsked, destroyed>>
  BY <1>1, TakingIs
<1>3. /\ valid' \subseteq Clients /\ entered \subseteq entered' /\ entered' \subseteq Clients
      /\ failures' \in Nat /\ failures' >= failures
      /\ unconfirmed' \in Seq(Waiters) /\ Within(unconfirmed', unconfirmed)
  BY <1>1, TransitionIs
<1>4. PICK a \in StubAddrs(o) :
        /\ ipAddr' = [ipAddr EXCEPT ![c] = a]
        /\ \/ udpQueue' = udpQueue
           \/ /\ udpQueue' = Append(udpQueue, Command("ReplaceClientObject", a, c))
              /\ c \in entered' \/ failures' > 0 \/ ~zoneUp
  BY <1>1, TransitionIs
<1>5. a \in Addrs  BY <1>1, AddrsAre
<1>6. ipAddr \in [Objects -> Addrs \cup {None}] /\ c \in Objects /\ udpQueue \in Seq(Commands) /\ failures \in Nat
  BY <1>1 DEF TypeInv, Objects
<1>7. ipAddr' \in [Objects -> Addrs \cup {None}]  BY <1>4, <1>5, <1>6
<1>8. \A s \in Stubs : ipAddr'[s] = ipAddr[s]
  <2>1. \A s \in Stubs : s \in Objects /\ s # c  BY ZoneInAssumption DEF Objects
  <2>2. QED  BY <1>4, <1>6, <2>1
<1>9. CASE udpQueue' = udpQueue
  <2>1. TypeInv'  BY <1>1, <1>2, <1>3, <1>7, <1>9 DEF TypeInv
  <2>2. \A d \in Clients : CommandsHeld(d)
    <3>1. Within(udpQueue', udpQueue)  BY <1>9, WithinSelf
    <3>2. QED  BY <1>1, <3>1, ListsWithin DEF TokenInv
  <2>3. \A x \in ToSet(udpQueue') : x.zop = "ReplaceClientObject" => x \in ToSet(udpQueue)  BY <1>9
  <2>4. QED  BY <1>3, <1>8, <2>1, <2>2, <2>3, QuietMessage
<1>10. CASE /\ udpQueue' = Append(udpQueue, Command("ReplaceClientObject", a, c))
            /\ c \in entered' \/ failures' > 0 \/ ~zoneUp
  <2>1. PICK x : x = Command("ReplaceClientObject", a, c)  OBVIOUS
  <2>2. x \in Commands /\ x.zop = "ReplaceClientObject" /\ x.addr = a /\ x.client = c
    BY <1>5, <2>1 DEF Command, Commands
  <2>3. udpQueue' = Append(udpQueue, x)  BY <1>10, <2>1
  <2>4. /\ udpQueue' \in Seq(Commands) /\ Pushed(udpQueue', udpQueue, x)
        /\ \A d : PlaceInv(d) /\ x \notin CommandsOf(d) => CommandsHeld(d)
    BY <1>1, <2>2, <2>3, CommandPushed
  <2>5. TypeInv'  BY <1>1, <1>2, <1>3, <1>7, <2>4 DEF TypeInv
  <2>6. ASSUME NEW d \in Clients, d # c PROVE PlaceInv(d)'
    <3>1. PlaceInv(d)  BY <1>1 DEF TokenInv
    <3>2. x \notin CommandsOf(d)  BY <2>2, <2>6 DEF CommandsOf
    <3>3. QueueHeld(d) /\ ExpectedHeld(d) /\ CommandsHeld(d)  BY <1>2, <2>4, <3>1, <3>2, ListsWithin
    <3>4. QED  BY <1>2, <3>1, <3>3, PlaceFrame
  <2>7. PlaceInv(c)'
    <3>1. PlaceInv(c)  BY <1>1 DEF TokenInv
    <3>2. Once(udpQueue', CommandsOf(c))  BY <2>4, <3>1 DEF Pushed, PlaceInv, InCommands
    <3>3. Once(ztQueue', TokensOf(c)) /\ Once(expected', WaitsOf(c))
      BY <1>2, <3>1, ListsWithin DEF QueueHeld, ExpectedHeld
    <3>4. ~Seated(c)' /\ OneSeat(c)'  BY <1>2 DEF SeatHeld, Seated, OneSeat
    <3>5. c \in allocated' /\ asked'[c] # None  BY <1>2
    <3>6. QED  BY <3>2, <3>3, <3>4, <3>5 DEF PlaceInv
  <2>8. May(a, c)'
    <3>1. c \in entered' \/ failures' > 0  BY <1>3, <1>6, <1>10 DEF ZoneKnown
    <3>2. unsafe' \/ (asked'[c].ip = Ip(a) /\ (c \in destroyed' \/ asked'[c].name \in said'[a]))  BY <1>2, <1>4
    <3>3. QED  BY <3>1, <3>2 DEF May
  <2>9. \A y \in ToSet(udpQueue') : y.zop = "ReplaceClientObject" =>
          y \in ToSet(udpQueue) \/ May(y.addr, y.client)'
    <3>1. \A y \in ToSet(udpQueue') : y \in ToSet(udpQueue) \/ (y.addr = a /\ y.client = c)
      BY <2>2, <2>4 DEF Pushed
    <3>2. QED  BY <2>8, <3>1 DEF May
  <2>10. TokenInv'  BY <2>6, <2>7 DEF TokenInv
  <2>11. \A y \in ToSet(expected') : y \in ToSet(expected)  BY DEF Within
  <2>12. QED  BY <1>3, <1>8, <2>5, <2>9, <2>10, <2>11, MessageStep
<1>11. QED  BY <1>4, <1>9, <1>10

\* Past its NewClient, a stub that is allocated has the address it connected from.
LEMMA StubAddrIs ==
  ASSUME TypeInv, NEW s \in Stubs, AddrInv(s), s \in allocated, ~Arriving(s)
  PROVE  ipAddr[s] \in Addrs /\ StubAddrs(s) = {ipAddr[s]} /\ Peer(s, ipAddr[s])
<1>1. ipAddr[s] # None  BY DEF AddrInv
<1>2. ipAddr[s] \in Addrs \cup {None}  BY DEF TypeInv, Objects
<1>3. QED  BY <1>1, <1>2 DEF StubAddrs, AddrsOf, Peer

\* zt_handle_add_client_expected, with the name it reads from the Client.
Expecting(c, name) ==
  LET i == SelectInSeq(unconfirmed, LAMBDA u : u.name # None /\ u.ip = asked[c].ip /\ u.name = name) IN
  \/ i # 0 /\ TransitionStub(unconfirmed[i].stub, c) /\ UNCHANGED expected
  \/ /\ i = 0
     /\ \/ /\ expected' = Append(expected, [client |-> c, ip |-> asked[c].ip,
                                            name |-> asked[c].name, left |-> WaitTimeout])
           /\ UNCHANGED failures
        \/ Spend(1) /\ UNCHANGED expected
     /\ UNCHANGED <<noTransition, unconfirmed>>

\* zt_handle_add_client_expected: the Client is matched with the first stub that said its
\* name from its ip, or waits, or is lost.
LEMMA AddExpectedStep ==
  ASSUME IInv, NEW m, Taking(m), m.zop = "AddClientExpected", NEW c, c = m.object, HandleAddClientExpected(c)
  PROVE  IInv'
<1>1. TypeInv /\ TokenInv /\ ZoneInv /\ PlayInv  BY DEF IInv
<1>2. /\ ztQueue' \in Seq(Messages) /\ m \in Messages /\ Popped(ztQueue', ztQueue, m)
      /\ m \in ToSet(ztQueue)
      /\ \A d : PlaceInv(d) => QueueHeld(d) /\ (m \in TokensOf(d) => ~InQueue(d)')
      /\ \A x : SeatHeld(x)
      /\ unsafe' \in BOOLEAN /\ (unsafe => unsafe') /\ UNCHANGED <<table, said, asked, zoneAsked, destroyed>>
  BY <1>1, TakingIs
<1>3. c \in Clients /\ m \in TokensOf(c) /\ m \in Handovers
  BY <1>2 DEF Messages, WellFormed, TokensOf, Handovers
<1>4. InQueue(c) /\ Has(ztQueue, Handovers)  BY <1>2, <1>3 DEF InQueue, Has
<1>5. /\ PlaceInv(c) /\ ~InExpected(c) /\ ~InCommands(c) /\ ~Seated(c) /\ c \in allocated /\ asked[c] # None
      /\ ~InQueue(c)'
  BY <1>1, <1>2, <1>3, <1>4 DEF TokenInv, PlaceInv
<1>6. ZoneKnown
  <2>1. m \notin Creations  BY DEF Creations
  <2>2. Has(ztQueue, Creations) => Has(ztQueue', Creations)  BY <1>2, <2>1, ZonePopped
  <2>3. Before(ztQueue, Creations, Handovers) => ~Has(ztQueue', Creations)  BY <1>2, <1>3 DEF Popped
  <2>4. QED  BY <1>1, <1>4, <2>2, <2>3 DEF ZoneInv
<1>7. asked[c] \in Owners /\ asked[c].ip \in Ips /\ asked[c].name \in Names
  <2>1. asked[c] \in Owners  BY <1>1, <1>3, <1>5 DEF TypeInv
  <2>2. QED  BY <2>1, ZoneInAssumption DEF Owners
<1>8. unconfirmed \in Seq(Waiters) /\ expected \in Seq(Expectations) /\ failures \in Nat
  BY <1>1 DEF TypeInv
<1>9. PICK name \in NamesOf(c) : Expecting(c, name)  BY DEF HandleAddClientExpected, Expecting
<1>10. PICK i, I : /\ i = SelectInSeq(unconfirmed, LAMBDA u : u.name # None /\ u.ip = asked[c].ip /\ u.name = name)
                   /\ I = {k \in 1 .. Len(unconfirmed) : /\ unconfirmed[k].name # None
                                                         /\ unconfirmed[k].ip = asked[c].ip
                                                         /\ unconfirmed[k].name = name}
  OBVIOUS
<1>11. i = (IF I # {} THEN Min(I) ELSE 0) /\ I \subseteq 1 .. Len(unconfirmed)  BY <1>10 DEF SelectInSeq
<1>12. i # 0 => i \in I /\ i \in 1 .. Len(unconfirmed)  BY <1>8, <1>11, FirstOf, ZenonT(60)
<1>13. UNCHANGED <<zoneUp, allocated>>  BY DEF HandleAddClientExpected
<1>14. CASE i # 0 /\ TransitionStub(unconfirmed[i].stub, c) /\ UNCHANGED expected
  <2>1. PICK u \in Waiters : /\ u = unconfirmed[i] /\ u \in ToSet(unconfirmed)
                             /\ u.name # None /\ u.ip = asked[c].ip /\ u.name = name
    <3>1. unconfirmed[i] \in Waiters /\ unconfirmed[i] \in ToSet(unconfirmed)
      BY <1>8, <1>12, <1>14, Members
    <3>2. QED  BY <1>10, <1>12, <1>14, <3>1
  <2>2. PICK s \in Stubs : s = u.stub  BY DEF Waiters
  <2>3. s \in Objects /\ TransitionStub(s, c)  BY <1>14, <2>1, <2>2 DEF Objects
  <2>4. ~InExpected(c)'  BY <1>5, <1>14 DEF InExpected
  <2>5. ASSUME NEW a \in StubAddrs(s), ~unsafe PROVE asked[c].ip = Ip(a) /\ (c \in destroyed \/ asked[c].name \in said[a])
    <3>1. StubInv(s) /\ AddrInv(s)  BY <2>5 DEF IInv, SafeInv
    <3>2. Listed(s)  BY <2>1, <2>2 DEF Listed, Has, ListingsOf
    <3>3. s \in allocated /\ ~Arriving(s)  BY <3>1, <3>2 DEF StubInv
    <3>4. ipAddr[s] \in Addrs /\ StubAddrs(s) = {ipAddr[s]} /\ Peer(s, ipAddr[s])
      BY <1>1, <3>1, <3>3, StubAddrIs
    <3>5. a \in Addrs /\ Peer(s, a)  BY <3>4
    <3>6. u.ip = Ip(a) /\ (u.name # None => u.name \in said[a])  BY <2>1, <2>2, <3>1, <3>5 DEF AddrInv
    <3>7. c \in destroyed \/ name = asked[c].name  BY <1>9 DEF NamesOf
    <3>8. QED  BY <2>1, <3>6, <3>7
  <2>6. \A a \in StubAddrs(s) : unsafe' \/ (asked[c].ip = Ip(a) /\ (c \in destroyed \/ asked[c].name \in said[a]))
    BY <1>2, <2>5
  <2>7. expected' \in Seq(Expectations) /\ Within(expected', expected)  BY <1>8, <1>14, WithinSelf
  <2>8. QED  BY <1>3, <1>5, <1>6, <1>13, <2>3, <2>4, <2>6, <2>7, MatchStep, SMTT(30)
<1>15. CASE /\ expected' = Append(expected, [client |-> c, ip |-> asked[c].ip,
                                             name |-> asked[c].name, left |-> WaitTimeout])
            /\ UNCHANGED failures /\ UNCHANGED <<noTransition, unconfirmed>>
  <2>1. PICK e : e = [client |-> c, ip |-> asked[c].ip, name |-> asked[c].name, left |-> WaitTimeout]
    OBVIOUS
  <2>2. e \in Expectations /\ e.client = c /\ e.ip = asked[c].ip /\ e.name = asked[c].name
    BY <1>3, <1>7, <2>1, ZoneInAssumption DEF Expectations
  <2>3. expected' \in Seq(Expectations) /\ Pushed(expected', expected, e)
    <3>1. Append(expected, e) \in Seq(Expectations) /\ Pushed(Append(expected, e), expected, e)
      BY <1>8, <2>2, PushedIs
    <3>2. QED  BY <1>15, <2>1, <3>1
  <2>4. UNCHANGED <<udpQueue, ipAddr, valid, entered, unconfirmed>>  BY <1>15 DEF noTransition
  <2>5. TypeInv'  BY <1>1, <1>2, <1>13, <1>15, <2>3, <2>4 DEF TypeInv
  <2>6. Within(udpQueue', udpQueue) /\ Within(unconfirmed', unconfirmed)  BY <2>4, WithinSelf
  <2>7. ASSUME NEW d \in Clients, d # c PROVE PlaceInv(d)'
    <3>1. PlaceInv(d)  BY <1>1 DEF TokenInv
    <3>2. e \notin WaitsOf(d)  BY <2>2, <2>7 DEF WaitsOf
    <3>3. ExpectedHeld(d)  BY <2>3, <3>1, <3>2 DEF Pushed, PlaceInv, ExpectedHeld, InExpected, Has
    <3>4. QueueHeld(d) /\ CommandsHeld(d)  BY <1>2, <2>6, <3>1, ListsWithin
    <3>5. QED  BY <1>2, <1>13, <3>1, <3>3, <3>4, PlaceFrame
  <2>8. PlaceInv(c)'
    <3>1. Once(expected', WaitsOf(c))  BY <1>5, <2>3 DEF Pushed, PlaceInv, InExpected
    <3>2. QueueHeld(c) /\ CommandsHeld(c)  BY <1>2, <1>5, <2>6, ListsWithin
    <3>3. ~InCommands(c)' /\ ~Seated(c)' /\ OneSeat(c)'
      BY <1>2, <1>5, <3>2 DEF CommandsHeld, SeatHeld, Seated, OneSeat
    <3>4. c \in allocated' /\ asked'[c] # None  BY <1>2, <1>5, <1>13
    <3>5. QED  BY <1>5, <3>1, <3>2, <3>3, <3>4 DEF PlaceInv, QueueHeld, CommandsHeld
  <2>9. TokenInv'  BY <2>7, <2>8 DEF TokenInv
  <2>10. AsAsked(e)'  BY <1>2, <2>2 DEF AsAsked
  <2>11. \A x \in ToSet(expected') : x \in ToSet(expected) \/ (ZoneKnown /\ AsAsked(x)')
    <3>1. \A x \in ToSet(expected') : x \in ToSet(expected) \/ x = e  BY <2>3 DEF Pushed
    <3>2. QED  BY <1>6, <2>10, <3>1 DEF AsAsked
  <2>12. \A x \in ToSet(udpQueue') : x \in ToSet(udpQueue)  BY <2>4
  <2>13. \A s \in Stubs : ipAddr'[s] = ipAddr[s]  BY <2>4
  <2>14. entered \subseteq entered' /\ failures' >= failures  BY <1>8, <1>15, <2>4
  <2>15. QED  BY <1>13, <2>5, <2>6, <2>9, <2>11, <2>12, <2>13, <2>14, MessageStep
<1>16. CASE Spend(1) /\ UNCHANGED expected /\ UNCHANGED <<noTransition, unconfirmed>>
  <2>1. failures' \in Nat /\ failures' >= failures  BY <1>8, <1>16 DEF Spend
  <2>2. UNCHANGED <<udpQueue, ipAddr, valid, entered, unconfirmed, expected>>  BY <1>16 DEF noTransition
  <2>3. QED  BY <1>13, <2>1, <2>2, IgnoredMessage
<1>17. QED  BY <1>9, <1>10, <1>14, <1>15, <1>16, Zenon DEF Expecting

\* A message about a stub that is not its NewClient comes behind it: the stub is
\* allocated and has its address.
LEMMA TalkingStub ==
  ASSUME TypeInv, NEW m, Taking(m), NEW s \in Stubs, m.object = s, m.zop # "NewClient",
         StubInv(s), AddrInv(s)
  PROVE  /\ ~Arriving(s) /\ s \in allocated
         /\ ipAddr[s] \in Addrs /\ StubAddrs(s) = {ipAddr[s]} /\ Peer(s, ipAddr[s])
<1>1. m \in Messages /\ Popped(ztQueue', ztQueue, m) /\ m \in ToSet(ztQueue)  BY TakingIs
<1>2. m \in AboutOf(s) /\ m \notin ArrivalsOf(s)  BY <1>1 DEF AboutOf, ArrivalsOf
<1>3. s \in allocated  BY <1>1, <1>2 DEF StubInv, Has
<1>4. ~Has(ztQueue', ArrivalsOf(s))  BY <1>1, <1>2 DEF Popped, StubInv
<1>5. ~Arriving(s)  BY <1>1, <1>2, <1>4 DEF Popped, Removed, Arriving, Has
<1>6. QED  BY <1>3, <1>5, StubAddrIs

\* OP_ZoneEntry names an expected Client: it is matched with the stub.
LEMMA NameMatches ==
  ASSUME IInv, NEW m, Taking(m), m.zop = "ZoneEntry", NEW o, o = m.object, o \notin valid,
         NEW a \in StubAddrs(o), NEW i \in 1 .. Len(expected),
         NEW astray, Matches(expected[i], Ip(a), m.name, astray), TransitionStub(o, expected[i].client),
         expected' = SwapPop(expected, i), UNCHANGED <<zoneUp, allocated>>
  PROVE  IInv'
<1>1. TypeInv /\ TokenInv /\ ZoneInv /\ PlayInv  BY DEF IInv
<1>2. /\ m \in Messages /\ m \in ToSet(ztQueue)
      /\ \A d : PlaceInv(d) => QueueHeld(d)
      /\ (unsafe => unsafe') /\ UNCHANGED <<said, asked, destroyed>>
  BY <1>1, TakingIs
<1>3. o \in Objects  BY <1>2 DEF Messages, WellFormed
<1>4. expected \in Seq(Expectations)  BY <1>1 DEF TypeInv
<1>5. PICK e \in Expectations : e = expected[i] /\ e \in ToSet(expected)  BY <1>4, Members
<1>6. PICK c \in Clients : c = e.client  BY DEF Expectations
<1>7. e \in WaitsOf(c) /\ InExpected(c)  BY <1>5, <1>6 DEF WaitsOf, InExpected, Has
<1>8. PlaceInv(c) /\ ~InQueue(c) /\ ~InCommands(c) /\ ~Seated(c) /\ c \in allocated /\ asked[c] # None
  BY <1>1, <1>7 DEF TokenInv, PlaceInv
<1>9. expected' \in Seq(Expectations) /\ Removed(expected', expected, e)
  <2>1. SwapPop(expected, i) \in Seq(Expectations) /\ Removed(SwapPop(expected, i), expected, expected[i])
    BY <1>4, SwapPopIs
  <2>2. QED  BY <1>5, <2>1
<1>10. Within(expected', expected) /\ ~InExpected(c)'
  BY <1>7, <1>8, <1>9 DEF Removed, PlaceInv, InExpected
<1>11. ~InQueue(c)'  BY <1>2, <1>8 DEF QueueHeld
<1>12. ZoneKnown  BY <1>1, <1>5 DEF ZoneInv
<1>13. e.ip = Ip(a) /\ (c \in destroyed \/ e.name = m.name) /\ e.ip = asked[c].ip /\ e.name = asked[c].name
  BY <1>1, <1>5, <1>6 DEF Matches, PlayInv
<1>14. ASSUME NEW b \in StubAddrs(o), ~unsafe' PROVE asked[c].ip = Ip(b) /\ (c \in destroyed \/ asked[c].name \in said[b])
  <2>1. o \in Stubs
    <3>1. ~TakenForStub(m)  BY <1>14 DEF Taking
    <3>2. QED  BY <1>3, <3>1 DEF TakenForStub, Objects
  <2>2. StubInv(o) /\ AddrInv(o)  BY <1>2, <1>14, <2>1 DEF IInv, SafeInv
  <2>3. ipAddr[o] \in Addrs /\ StubAddrs(o) = {ipAddr[o]} /\ Peer(o, ipAddr[o])
    BY <1>1, <2>1, <2>2, TalkingStub
  <2>4. a = b /\ b \in Addrs /\ Peer(o, b)  BY <2>3
  <2>5. m.name \in said[b]  BY <1>2, <2>2, <2>4 DEF AddrInv
  <2>6. QED  BY <1>13, <2>4, <2>5
<1>15. \A b \in StubAddrs(o) : unsafe' \/ (asked[c].ip = Ip(b) /\ (c \in destroyed \/ asked[c].name \in said[b]))  BY <1>14
<1>16. TransitionStub(o, c)  BY <1>5, <1>6
<1>17. QED  BY <1>3, <1>8, <1>9, <1>10, <1>11, <1>12, <1>15, <1>16, MatchStep

\* Otherwise the name is kept with the stub (zt_handle_unconfirmed_client_name).
LEMMA NameKept ==
  ASSUME IInv, NEW m, Taking(m), m.zop = "ZoneEntry", NEW o, o = m.object, o \notin valid,
         unconfirmed' = [k \in DOMAIN unconfirmed |->
            IF k = UnconfirmedIndex(o) THEN [unconfirmed[k] EXCEPT !.name = m.name] ELSE unconfirmed[k]],
         UNCHANGED <<noTransition, expected, failures, zoneUp, allocated>>
  PROVE  IInv'
<1>1. TypeInv /\ TokenInv  BY DEF IInv
<1>2. /\ ztQueue' \in Seq(Messages) /\ m \in Messages /\ m \in ToSet(ztQueue)
      /\ \A s : StubInv(s) /\ m \notin ArrivalsOf(s) => QueueKept(s)
      /\ \A d : PlaceInv(d) => QueueHeld(d)
      /\ \A x : SeatHeld(x)
      /\ unsafe' \in BOOLEAN /\ (unsafe => unsafe') /\ UNCHANGED <<table, said, asked, zoneAsked, destroyed>>
  BY <1>1, TakingIs
<1>3. PICK name \in Names : name = m.name  BY <1>2 DEF Messages, WellFormed
<1>4. unconfirmed \in Seq(Waiters) /\ failures \in Nat  BY <1>1 DEF TypeInv
<1>5. PICK n \in Nat : /\ n = Len(unconfirmed) /\ DOMAIN unconfirmed = 1 .. n
                       /\ \A k \in 1 .. n : unconfirmed[k] \in Waiters /\ unconfirmed[k] \in ToSet(unconfirmed)
  BY <1>4, Members
<1>6. PICK i, I : i = UnconfirmedIndex(o) /\ I = {k \in 1 .. Len(unconfirmed) : unconfirmed[k].stub = o}
  OBVIOUS
<1>7. i \in 1 .. n => unconfirmed[i].stub = o
  <2>1. i = IF I # {} THEN Min(I) ELSE 0  BY <1>6 DEF UnconfirmedIndex, SelectInSeq
  <2>2. I \subseteq 1 .. Len(unconfirmed)  BY <1>6
  <2>3. i # 0 => i \in I  BY <1>4, <2>1, <2>2, FirstOf, ZenonT(60)
  <2>4. i \in 1 .. n => i # 0  BY <1>5
  <2>5. QED  BY <1>6, <2>3, <2>4
<1>8. PICK w : w = unconfirmed'  OBVIOUS
<1>9. \A k \in 1 .. n : w[k] = IF k = i THEN [unconfirmed[k] EXCEPT !.name = name] ELSE unconfirmed[k]
  BY <1>3, <1>5, <1>6, <1>8
<1>10. \A k \in 1 .. n : /\ w[k] \in Waiters
                         /\ w[k].stub = unconfirmed[k].stub /\ w[k].ip = unconfirmed[k].ip
                         /\ w[k].name = unconfirmed[k].name \/ (unconfirmed[k].stub = o /\ w[k].name = name)
  <2> SUFFICES ASSUME NEW k \in 1 .. n
               PROVE  /\ w[k] \in Waiters
                      /\ w[k].stub = unconfirmed[k].stub /\ w[k].ip = unconfirmed[k].ip
                      /\ w[k].name = unconfirmed[k].name \/ (unconfirmed[k].stub = o /\ w[k].name = name)
    OBVIOUS
  <2>1. CASE k = i
    <3>1. PICK u \in Waiters : u = unconfirmed[k]  BY <1>5
    <3>2. w[k] = [u EXCEPT !.name = name]  BY <1>9, <2>1, <3>1
    <3>3. w[k] \in Waiters /\ w[k].stub = u.stub /\ w[k].ip = u.ip /\ w[k].name = name
      BY <3>2 DEF Waiters
    <3>4. QED  BY <1>7, <2>1, <3>1, <3>3
  <2>2. CASE k # i  BY <1>5, <1>9, <2>2
  <2>3. QED  BY <2>1, <2>2
<1>11. w \in Seq(Waiters) /\ Len(w) = Len(unconfirmed)
  <2>1. DOMAIN w = 1 .. n /\ w = [k \in 1 .. n |-> w[k]]  BY <1>5, <1>8
  <2>2. w \in [1 .. n -> Waiters]  BY <1>10, <2>1
  <2>3. QED  BY <1>5, <2>2
<1>12. UNCHANGED <<udpQueue, ipAddr, valid, entered>>  BY DEF noTransition
<1>13. TypeInv'  BY <1>1, <1>2, <1>8, <1>11, <1>12 DEF TypeInv
<1>14. Within(expected', expected) /\ Within(udpQueue', udpQueue)  BY <1>12, WithinSelf
<1>15. ASSUME NEW d \in Clients PROVE PlaceInv(d)'
  <2>1. PlaceInv(d)  BY <1>1 DEF TokenInv
  <2>2. QueueHeld(d) /\ ExpectedHeld(d) /\ CommandsHeld(d)  BY <1>2, <1>14, <2>1, ListsWithin
  <2>3. QED  BY <1>2, <2>1, <2>2, PlaceFrame
<1>16. \A u \in ToSet(unconfirmed') : \E v \in ToSet(unconfirmed) :
         /\ v.stub = u.stub /\ v.ip = u.ip
         /\ u.name = v.name \/ (v.stub = o /\ u.name = name)
  <2>1. \A u \in ToSet(w) : \E k \in 1 .. n : u = w[k]  BY <1>5, <1>11, Members
  <2>2. ASSUME NEW u \in ToSet(w)
        PROVE  \E v \in ToSet(unconfirmed) :
                 v.stub = u.stub /\ v.ip = u.ip /\ (u.name = v.name \/ (v.stub = o /\ u.name = name))
    <3>1. PICK k \in 1 .. n : u = w[k]  BY <2>1
    <3>2. PICK v \in ToSet(unconfirmed) : v = unconfirmed[k]  BY <1>5
    <3>3. v.stub = u.stub /\ v.ip = u.ip /\ (u.name = v.name \/ (v.stub = o /\ u.name = name))
      BY <1>10, <3>1, <3>2
    <3>4. QED  BY <3>3
  <2>3. QED  BY <1>8, <2>2
<1>17. ASSUME NEW t \in Stubs, StubInv(t) PROVE Once(unconfirmed', ListingsOf(t))
  <2>1. \A k \in 1 .. Len(unconfirmed) : w[k] \in ListingsOf(t) => unconfirmed[k] \in ListingsOf(t)
    BY <1>5, <1>10 DEF ListingsOf
  <2>2. Once(unconfirmed, ListingsOf(t))  BY <1>17 DEF StubInv
  <2>3. QED  BY <1>4, <1>8, <1>11, <2>1, <2>2, Relabelled
<1>18. \A t \in Stubs : HeapKept(t) /\ m \notin ArrivalsOf(t)  BY <1>12 DEF HeapKept, ArrivalsOf
<1>19. ASSUME NEW t \in Stubs, t # o, StubInv(t), AddrInv(t) PROVE StubInv(t)' /\ AddrInv(t)'
  <2>1. ListKept(t)
    <3>1. ASSUME NEW u \in ToSet(unconfirmed'), u.stub = t
          PROVE  \E v \in ToSet(unconfirmed) : v.stub = t /\ v.ip = u.ip /\ v.name = u.name
      BY <1>16, <1>19, <3>1
    <3>2. QED  BY <1>17, <1>19, <3>1 DEF ListKept
  <2>2. entered \subseteq entered' /\ failures' >= failures  BY <1>4, <1>12
  <2>3. QED  BY <1>1, <1>13, <1>18, <1>19, <2>1, <2>2, OtherStub
<1>20. ASSUME o \in Stubs, StubInv(o), AddrInv(o) PROVE StubInv(o)' /\ AddrInv(o)'
  <2>1. Peer(o, ipAddr[o]) /\ ipAddr[o] \in Addrs /\ ~Arriving(o)  BY <1>1, <1>20, TalkingStub
  <2>2. QueueKept(o)  BY <1>2, <1>18, <1>20
  <2>3. \A x \in ToSet(ztQueue') : x \in AboutOf(o) => x \in ToSet(ztQueue)  BY <2>2 DEF QueueKept
  <2>4. /\ ~Arriving(o)' /\ (Swapped(o)' => Swapped(o))
        /\ (Has(ztQueue', ReleasesOf(o)) => Has(ztQueue, ReleasesOf(o)))
        /\ (Has(ztQueue', AboutOf(o)) => Has(ztQueue, AboutOf(o)))
    BY <2>1, <2>3, AboutIs DEF Has, Arriving, Swapped
  <2>5. Listed(o)' => Listed(o)
    <3>1. \A v \in ToSet(unconfirmed) : v \in Waiters  BY <1>4, Members
    <3>2. QED  BY <1>16, <3>1 DEF Listed, Has, ListingsOf
  <2>6. OneSeat(o)' /\ (Seated(o)' => Seated(o))  BY <1>2, <1>20 DEF StubInv, SeatHeld, OneSeat, Seated
  <2>7. StubInv(o)'  BY <1>17, <1>20, <2>2, <2>4, <2>5, <2>6 DEF StubInv, QueueKept
  <2>8. ASSUME NEW a \in Addrs, Peer(o, a)'
        PROVE  /\ \A b \in Addrs : Sits(b, o)' => b = a
               /\ \A x \in ToSet(ztQueue') : x.zop = "ZoneEntry" /\ x.object = o => x.name \in said'[a]
               /\ \A u \in ToSet(unconfirmed') : u.stub = o =>
                    u.ip = Ip(a) /\ (u.name # None => u.name \in said'[a])
    <3>1. Peer(o, a)  BY <1>12, <2>4, <2>8 DEF Peer, Arriving, Has
    <3>2. /\ \A b \in Addrs : Sits(b, o) => b = a
          /\ \A x \in ToSet(ztQueue) : x.zop = "ZoneEntry" /\ x.object = o => x.name \in said[a]
          /\ \A u \in ToSet(unconfirmed) : u.stub = o =>
               u.ip = Ip(a) /\ (u.name # None => u.name \in said[a])
      BY <1>20, <3>1 DEF AddrInv
    <3>3. name \in said[a]  BY <1>2, <1>3, <3>2
    <3>4. \A x \in ToSet(ztQueue') : x.zop = "ZoneEntry" /\ x.object = o => x \in ToSet(ztQueue)
      <4>1. \A x \in ToSet(ztQueue') : x \in Messages  BY <1>2, Members
      <4>2. QED  BY <2>3, <4>1 DEF AboutOf
    <3>5. \A u \in ToSet(unconfirmed') : u.stub = o =>
            u.ip = Ip(a) /\ (u.name # None => u.name \in said[a])
      BY <1>16, <3>2, <3>3
    <3>6. QED  BY <1>2, <3>2, <3>4, <3>5 DEF SeatHeld
  <2>9. AddrInv(o)'  BY <1>12, <1>20, <2>1, <2>4, <2>8 DEF AddrInv
  <2>10. QED  BY <2>7, <2>9
<1>21. unsafe' \/ SafeInv'  BY <1>2, <1>19, <1>20 DEF IInv, SafeInv
<1>22. TokenInv'  BY <1>15 DEF TokenInv
<1>23. /\ \A x \in ToSet(expected') : x \in ToSet(expected)
       /\ \A x \in ToSet(udpQueue') : x \in ToSet(udpQueue)
       /\ entered \subseteq entered' /\ failures' >= failures
  BY <1>4, <1>12
<1>24. QED  BY <1>13, <1>21, <1>22, <1>23, HandlerStep

\* zt_handle_unconfirmed_client_name, with the address and the names it reads.
Naming(o, name, a, astray) ==
  LET i == SelectInSeq(expected, LAMBDA e : Matches(e, Ip(a), name, astray)) IN
  \/ /\ i # 0
     /\ TransitionStub(o, expected[i].client)
     /\ expected' = SwapPop(expected, i)
  \/ /\ i = 0
     /\ unconfirmed' = [k \in DOMAIN unconfirmed |->
          IF k = UnconfirmedIndex(o) THEN [unconfirmed[k] EXCEPT !.name = name] ELSE unconfirmed[k]]
     /\ UNCHANGED <<noTransition, expected, failures>>

\* zt_handle_to_server_packet with OP_ZoneEntry
LEMMA ZoneEntryStep ==
  ASSUME IInv, NEW m, Taking(m), m.zop = "ZoneEntry", NEW o, o = m.object, NEW name, name = m.name,
         HandleZoneEntry(o, name)
  PROVE  IInv'
<1>1. TypeInv  BY DEF IInv
<1>2. expected \in Seq(Expectations) /\ failures \in Nat  BY <1>1 DEF TypeInv
<1>3. UNCHANGED <<zoneUp, allocated>>  BY DEF HandleZoneEntry
<1>4. CASE o \in valid /\ UNCHANGED <<noTransition, expected, unconfirmed, failures>>
  <2>1. UNCHANGED <<udpQueue, ipAddr, valid, entered, unconfirmed, expected>>  BY <1>4 DEF noTransition
  <2>2. failures' \in Nat /\ failures' >= failures  BY <1>2, <1>4
  <2>3. QED  BY <1>3, <2>1, <2>2, IgnoredMessage
<1>5. CASE o \notin valid
  <2>1. PICK a \in StubAddrs(o), astray \in SUBSET destroyed : Naming(o, name, a, astray)
    BY <1>5, Zenon DEF HandleZoneEntry, Naming
  <2>2. PICK i, I : /\ i = SelectInSeq(expected, LAMBDA e : Matches(e, Ip(a), name, astray))
                    /\ I = {k \in 1 .. Len(expected) : Matches(expected[k], Ip(a), name, astray)}
    OBVIOUS
  <2>3. i = IF I # {} THEN Min(I) ELSE 0  BY <2>2 DEF SelectInSeq
  <2>4. CASE i # 0 /\ TransitionStub(o, expected[i].client) /\ expected' = SwapPop(expected, i)
    <3>1. I \subseteq 1 .. Len(expected)  BY <2>2
    <3>2. i # 0 => i \in I /\ i \in 1 .. Len(expected)  BY <1>2, <2>3, <3>1, FirstOf, ZenonT(60)
    <3>3. i \in 1 .. Len(expected) /\ Matches(expected[i], Ip(a), m.name, astray)  BY <2>2, <2>4, <3>2
    <3>4. QED  BY <1>3, <1>5, <2>4, <3>3, NameMatches
  <2>5. CASE /\ unconfirmed' = [k \in DOMAIN unconfirmed |->
                  IF k = UnconfirmedIndex(o) THEN [unconfirmed[k] EXCEPT !.name = name] ELSE unconfirmed[k]]
             /\ UNCHANGED <<noTransition, expected, failures>>
    <3>1. unconfirmed' = [k \in DOMAIN unconfirmed |->
            IF k = UnconfirmedIndex(o) THEN [unconfirmed[k] EXCEPT !.name = m.name] ELSE unconfirmed[k]]
      BY <2>5
    <3>2. UNCHANGED <<noTransition, expected, failures, zoneUp, allocated>>  BY <1>3, <2>5
    <3>3. QED  BY <1>5, <3>1, <3>2, NameKept
  <2>6. QED  BY <2>1, <2>2, <2>4, <2>5, Zenon DEF Naming
<1>6. CASE o \in valid
  <2>1. UNCHANGED <<noTransition, expected, unconfirmed, failures>>  BY <1>6 DEF HandleZoneEntry
  <2>2. QED  BY <1>4, <1>6, <2>1
<1>7. QED  BY <1>5, <1>6

\* client_on_camp_start and cpr_handle_op_unspawn push no command but ClientDisconnect.
LEMMA HandleLeaveStep ==
  ASSUME IInv, NEW m, Taking(m), NEW zop, zop = m.zop, zop \in {"CampStart", "Unspawn"},
         NEW o, o = m.object, HandleLeave(zop, o)
  PROVE  IInv'
<1>1. TypeInv /\ TokenInv  BY DEF IInv
<1>2. /\ ztQueue' \in Seq(Messages) /\ m \in Messages
      /\ unsafe' \in BOOLEAN /\ UNCHANGED <<table, said, asked, zoneAsked, destroyed>>
  BY <1>1, TakingIs
<1>3. o \in Objects /\ failures \in Nat  BY <1>1, <1>2 DEF Messages, WellFormed, TypeInv, Objects
<1>4. UNCHANGED <<valid, entered, zoneUp, expected, unconfirmed, allocated, ipAddr>>  BY DEF HandleLeave
<1>5. failures' \in Nat /\ failures' >= failures  BY <1>3 DEF HandleLeave, Spend
<1>6. CASE UNCHANGED udpQueue  BY <1>4, <1>5, <1>6, IgnoredMessage
<1>7. CASE \E a \in AddrsOf(o) : udpQueue' = Append(udpQueue, Command("ClientDisconnect", a, None))
  <2>1. PICK a \in AddrsOf(o) : udpQueue' = Append(udpQueue, Command("ClientDisconnect", a, None))
    BY <1>7
  <2>2. a \in Addrs  BY <1>1, <1>3, AddrsAre
  <2>3. PICK x : x = Command("ClientDisconnect", a, None)  OBVIOUS
  <2>4. x \in Commands /\ x.zop = "ClientDisconnect"  BY <2>2, <2>3 DEF Command, Commands
  <2>5. udpQueue' = Append(udpQueue, x)  BY <2>1, <2>3
  <2>6. /\ udpQueue' \in Seq(Commands) /\ Pushed(udpQueue', udpQueue, x)
        /\ \A c : PlaceInv(c) /\ x \notin CommandsOf(c) => CommandsHeld(c)
    BY <1>1, <2>4, <2>5, CommandPushed
  <2>7. \A c \in Clients : CommandsHeld(c)
    <3>1. \A c \in Clients : x \notin CommandsOf(c)  BY <2>4 DEF CommandsOf
    <3>2. QED  BY <1>1, <2>6, <3>1 DEF TokenInv
  <2>8. \A y \in ToSet(udpQueue') : y.zop = "ReplaceClientObject" => y \in ToSet(udpQueue)
    BY <2>4, <2>6 DEF Pushed
  <2>9. TypeInv'  BY <1>1, <1>2, <1>4, <1>5, <2>6 DEF TypeInv
  <2>10. Within(expected', expected) /\ Within(unconfirmed', unconfirmed)  BY <1>4, WithinSelf
  <2>11. \A s \in Stubs : ipAddr'[s] = ipAddr[s]  BY <1>4
  <2>12. QED  BY <1>4, <1>5, <2>7, <2>8, <2>9, <2>10, <2>11, QuietMessage
<1>8. QED  BY <1>6, <1>7 DEF HandleLeave

\* zt_handle_add_client_unconfirmed: the stub has its address from now on, and is
\* listed with its ip and no name, or told to go.
LEMMA NewClientStep ==
  ASSUME IInv, NEW m, Taking(m), m.zop = "NewClient", NEW s, s = m.object, NEW a, a = m.addr,
         HandleNewClient(s, a)
  PROVE  IInv'
<1>1. TypeInv /\ TokenInv  BY DEF IInv
<1>2. /\ ztQueue' \in Seq(Messages) /\ m \in Messages /\ Popped(ztQueue', ztQueue, m)
      /\ m \in ToSet(ztQueue)
      /\ \A d : PlaceInv(d) => QueueHeld(d)
      /\ \A x : SeatHeld(x)
      /\ unsafe' \in BOOLEAN /\ (unsafe => unsafe') /\ UNCHANGED <<table, said, asked, zoneAsked, destroyed>>
  BY <1>1, TakingIs
<1>3. s \in Stubs /\ a \in Addrs /\ s \in Objects  BY <1>2 DEF Messages, WellFormed, Objects
<1>4. /\ unconfirmed \in Seq(Waiters) /\ failures \in Nat /\ udpQueue \in Seq(Commands)
      /\ ipAddr \in [Objects -> Addrs \cup {None}]
  BY <1>1 DEF TypeInv
<1>5. UNCHANGED <<valid, entered, zoneUp, expected, allocated>> /\ ipAddr' = [ipAddr EXCEPT ![s] = a]
  BY DEF HandleNewClient
<1>6. failures' \in Nat /\ failures' >= failures  BY <1>4 DEF HandleNewClient, Spend
<1>7. PICK u : u = [stub |-> s, ip |-> Ip(a), name |-> None, left |-> WaitTimeout]  OBVIOUS
<1>8. u \in Waiters /\ u.stub = s /\ u.ip = Ip(a) /\ u.name = None
  <2>1. Ip(a) \in Ips  BY <1>3 DEF Ip, Addrs
  <2>2. QED  BY <1>3, <1>7, <2>1, ZoneInAssumption DEF Waiters
<1>9. unconfirmed' \in Seq(Waiters) /\ (unconfirmed' = unconfirmed \/ Pushed(unconfirmed', unconfirmed, u))
  <2>1. CASE unconfirmed' = unconfirmed  BY <1>4, <2>1
  <2>2. CASE unconfirmed' = Append(unconfirmed, u)
    <3>1. Append(unconfirmed, u) \in Seq(Waiters) /\ Pushed(Append(unconfirmed, u), unconfirmed, u)
      BY <1>4, <1>8, PushedIs
    <3>2. QED  BY <2>2, <3>1
  <2>3. QED  BY <1>7, <2>1, <2>2 DEF HandleNewClient
<1>10. /\ udpQueue' \in Seq(Commands) /\ \A c \in Clients : CommandsHeld(c)
       /\ \A y \in ToSet(udpQueue') : y.zop = "ReplaceClientObject" => y \in ToSet(udpQueue)
  <2>1. CASE udpQueue' = udpQueue
    <3>1. Within(udpQueue', udpQueue)  BY <2>1, WithinSelf
    <3>2. QED  BY <1>1, <1>4, <2>1, <3>1, ListsWithin DEF TokenInv
  <2>2. CASE udpQueue' = Append(udpQueue, Command("DropClient", a, None))
    <3>1. PICK x : x = Command("DropClient", a, None)  OBVIOUS
    <3>2. x \in Commands /\ x.zop = "DropClient"  BY <1>3, <3>1 DEF Command, Commands
    <3>3. udpQueue' = Append(udpQueue, x)  BY <2>2, <3>1
    <3>4. /\ udpQueue' \in Seq(Commands) /\ Pushed(udpQueue', udpQueue, x)
          /\ \A c : PlaceInv(c) /\ x \notin CommandsOf(c) => CommandsHeld(c)
      BY <1>1, <3>2, <3>3, CommandPushed
    <3>5. \A c \in Clients : x \notin CommandsOf(c)  BY <3>2 DEF CommandsOf
    <3>6. QED  BY <1>1, <3>2, <3>4, <3>5 DEF TokenInv, Pushed
  <2>3. QED  BY <2>1, <2>2 DEF HandleNewClient
<1>11. TypeInv'
  <2>1. ipAddr' \in [Objects -> Addrs \cup {None}]  BY <1>3, <1>4, <1>5
  <2>2. QED  BY <1>1, <1>2, <1>5, <1>6, <1>9, <1>10, <2>1 DEF TypeInv
<1>12. ASSUME NEW d \in Clients PROVE PlaceInv(d)'
  <2>1. PlaceInv(d)  BY <1>1 DEF TokenInv
  <2>2. Within(expected', expected)  BY <1>5, WithinSelf
  <2>3. QueueHeld(d) /\ ExpectedHeld(d) /\ CommandsHeld(d)  BY <1>2, <1>10, <2>1, <2>2, ListsWithin
  <2>4. QED  BY <1>2, <1>5, <2>1, <2>3, PlaceFrame
<1>13. ASSUME NEW t \in Stubs, t # s, StubInv(t), AddrInv(t) PROVE StubInv(t)' /\ AddrInv(t)'
  <2>1. m \notin ArrivalsOf(t)  BY <1>13 DEF ArrivalsOf
  <2>2. ListKept(t)
    <3>1. Once(unconfirmed, ListingsOf(t)) /\ u \notin ListingsOf(t)  BY <1>8, <1>13 DEF StubInv, ListingsOf
    <3>2. Once(unconfirmed', ListingsOf(t))  BY <1>9, <3>1 DEF Pushed
    <3>3. \A v \in ToSet(unconfirmed') : v.stub = t => v \in ToSet(unconfirmed)
      BY <1>8, <1>9, <1>13 DEF Pushed
    <3>4. QED  BY <3>2, <3>3 DEF ListKept
  <2>3. HeapKept(t)
    <3>1. t \in Objects  BY DEF Objects
    <3>2. QED  BY <1>4, <1>5, <1>13, <3>1 DEF HeapKept
  <2>4. entered \subseteq entered'  BY <1>5
  <2>5. QED  BY <1>1, <1>6, <1>11, <1>13, <2>1, <2>2, <2>3, <2>4, OtherStub
<1>14. ASSUME StubInv(s), AddrInv(s) PROVE StubInv(s)' /\ AddrInv(s)'
  <2>1. m \in ArrivalsOf(s) /\ m \in AboutOf(s)  BY <1>2 DEF ArrivalsOf, AboutOf
  <2>2. Arriving(s) /\ Has(ztQueue, AboutOf(s))  BY <1>2, <2>1 DEF Arriving, Has
  <2>3. ~Listed(s) /\ ~Swapped(s) /\ s \in allocated  BY <1>14, <2>2 DEF StubInv
  <2>4. ~Arriving(s)'  BY <1>2, <1>14, <2>1 DEF Popped, Removed, StubInv, Arriving
  <2>5. ToSet(ztQueue') \subseteq ToSet(ztQueue) /\ Once(ztQueue', ArrivalsOf(s))
    BY <1>2, <1>14 DEF Popped, Removed, Within, StubInv
  <2>6. Before(ztQueue', AboutOf(s), ReleasesOf(s)) /\ Before(ztQueue', ArrivalsOf(s), AboutOf(s))
    BY <1>2, <1>14 DEF Popped, StubInv
  <2>7. ~Swapped(s)' /\ (Has(ztQueue', ReleasesOf(s)) => Has(ztQueue, ReleasesOf(s)))
    BY <2>3, <2>5 DEF Swapped, Has
  <2>8. Once(unconfirmed', ListingsOf(s))
    BY <1>9, <1>14, <2>3 DEF Pushed, StubInv, Listed
  <2>9. OneSeat(s)' /\ (Seated(s)' => Seated(s))  BY <1>2, <1>14 DEF StubInv, SeatHeld, OneSeat, Seated
  <2>10. s \in allocated'  BY <1>5, <2>3
  <2>11. StubInv(s)'  BY <1>14, <2>4, <2>5, <2>6, <2>7, <2>8, <2>9, <2>10 DEF StubInv
  <2>12. ipAddr'[s] = a /\ a # None  BY <1>3, <1>4, <1>5, NullAssumption
  <2>13. \A b \in Addrs : Peer(s, b)' => b = a  BY <2>4, <2>12 DEF Peer, Arriving, Has
  <2>14. Peer(s, a)  BY <1>2, <2>1 DEF Peer
  <2>15. /\ \A b \in Addrs : Sits(b, s) => b = a
         /\ \A x \in ToSet(ztQueue) : x.zop = "ZoneEntry" /\ x.object = s => x.name \in said[a]
    BY <1>3, <1>14, <2>14 DEF AddrInv
  <2>16. \A v \in ToSet(unconfirmed') : v.stub = s => v.ip = Ip(a) /\ v.name = None
    <3>1. \A v \in ToSet(unconfirmed) : v \in Waiters  BY <1>4, Members
    <3>2. \A v \in ToSet(unconfirmed) : v.stub # s  BY <2>3, <3>1 DEF Listed, Has, ListingsOf
    <3>3. QED  BY <1>8, <1>9, <3>2 DEF Pushed
  <2>17. \A b \in Addrs : Sits(b, s)' => b = a  BY <1>2, <2>15 DEF SeatHeld
  <2>18. \A x \in ToSet(ztQueue') : x.zop = "ZoneEntry" /\ x.object = s => x.name \in said'[a]
    BY <1>2, <2>5, <2>15
  <2>19. AddrInv(s)'  BY <2>4, <2>10, <2>12, <2>13, <2>16, <2>17, <2>18 DEF AddrInv
  <2>20. QED  BY <2>11, <2>19
<1>15. unsafe' \/ SafeInv'  BY <1>2, <1>13, <1>14 DEF IInv, SafeInv
<1>16. TokenInv'  BY <1>12 DEF TokenInv
<1>17. /\ \A x \in ToSet(expected') : x \in ToSet(expected)
       /\ entered \subseteq entered' /\ UNCHANGED zoneUp
  BY <1>5
<1>18. QED  BY <1>6, <1>10, <1>11, <1>15, <1>16, <1>17, HandlerStep

\* The zone thread frees what the UDP thread gave back: it was the last message about it.
LEMMA FreedStep ==
  ASSUME IInv, NEW m, Taking(m), m.zop \in ReleaseZops, NEW o, o = m.object, Free(o),
         unconfirmed' \in Seq(Waiters), Within(unconfirmed', unconfirmed),
         o \in Stubs /\ ~unsafe => ~Listed(o)',
         UNCHANGED <<udpQueue, valid, entered, zoneUp, expected, failures>>
  PROVE  IInv'
<1>1. TypeInv /\ TokenInv  BY DEF IInv
<1>2. /\ ztQueue' \in Seq(Messages) /\ m \in Messages /\ Popped(ztQueue', ztQueue, m)
      /\ m \in ToSet(ztQueue)
      /\ \A d : PlaceInv(d) => QueueHeld(d) /\ (m \in TokensOf(d) => ~InQueue(d)')
      /\ \A x : SeatHeld(x)
      /\ unsafe' \in BOOLEAN /\ (unsafe => unsafe') /\ UNCHANGED <<table, said, asked, zoneAsked, destroyed>>
  BY <1>1, TakingIs
<1>3. o \in Objects  BY <1>2 DEF Messages, WellFormed, ReleaseZops
<1>4. /\ ipAddr \in [Objects -> Addrs \cup {None}] /\ allocated \subseteq Objects /\ failures \in Nat
      /\ allocated' = allocated \ {o} /\ ipAddr' = [ipAddr EXCEPT ![o] = None]
  BY <1>1 DEF TypeInv, Free
<1>5. TypeInv'
  <2>1. ipAddr' \in [Objects -> Addrs \cup {None}] /\ allocated' \subseteq Objects  BY <1>4
  <2>2. QED  BY <1>1, <1>2, <2>1 DEF TypeInv
<1>6. Within(expected', expected) /\ Within(udpQueue', udpQueue)  BY WithinSelf
<1>7. ASSUME NEW d \in Clients PROVE PlaceInv(d)'
  <2>1. PlaceInv(d)  BY <1>1 DEF TokenInv
  <2>2. QueueHeld(d) /\ ExpectedHeld(d) /\ CommandsHeld(d)  BY <1>2, <1>6, <2>1, ListsWithin
  <2>3. CASE d = o
    <3>1. m \in TokensOf(d)  BY <1>2, <2>3 DEF TokensOf
    <3>2. InQueue(d)  BY <1>2, <3>1 DEF InQueue, Has
    <3>3. ~InExpected(d) /\ ~InCommands(d) /\ ~Seated(d)  BY <2>1, <3>2 DEF PlaceInv
    <3>4. ~Seated(d)'  BY <1>2, <3>3 DEF Seated, SeatHeld
    <3>5. Nowhere(d)'  BY <1>2, <2>1, <2>2, <3>1, <3>3, <3>4 DEF Nowhere, ExpectedHeld, CommandsHeld
    <3>6. QED  BY <1>5, <3>5, NowhereIs
  <2>4. CASE d # o
    <3>1. d \in allocated => d \in allocated'  BY <1>4, <2>4
    <3>2. QED  BY <1>2, <2>1, <2>2, <3>1, PlaceFrame
  <2>5. QED  BY <2>3, <2>4
<1>8. ASSUME ~unsafe, NEW t \in Stubs, StubInv(t), AddrInv(t) PROVE StubInv(t)' /\ AddrInv(t)'
  <2>1. CASE t = o
    <3>1. m \in ReleasesOf(t)  BY <1>2, <2>1 DEF ReleasesOf
    <3>2. Has(ztQueue, ReleasesOf(t))  BY <1>2, <3>1 DEF Has
    <3>3. ~Seated(t)'  BY <1>2, <1>8, <3>2 DEF StubInv, Seated, SeatHeld
    <3>4. ~Has(ztQueue', AboutOf(t))  BY <1>2, <1>8, <3>1 DEF StubInv, Popped
    <3>5. ipAddr'[t] = None /\ t \notin allocated' /\ ~Listed(t)'  BY <1>3, <1>4, <1>8, <2>1
    <3>6. QED  BY <1>5, <3>3, <3>4, <3>5, StubGone
  <2>2. CASE t # o
    <3>1. m \notin ArrivalsOf(t)  BY <2>2 DEF ArrivalsOf
    <3>2. ListKept(t)  BY <1>8, ListsWithin
    <3>3. t \in Objects  BY DEF Objects
    <3>4. HeapKept(t)  BY <1>4, <2>2, <3>3 DEF HeapKept
    <3>5. entered \subseteq entered' /\ failures' >= failures  BY <1>4
    <3>6. QED  BY <1>1, <1>5, <1>8, <3>1, <3>2, <3>4, <3>5, OtherStub
  <2>3. QED  BY <2>1, <2>2
<1>9. unsafe' \/ SafeInv'  BY <1>2, <1>8 DEF IInv, SafeInv
<1>10. TokenInv'  BY <1>7 DEF TokenInv
<1>11. /\ \A x \in ToSet(expected') : x \in ToSet(expected)
       /\ \A x \in ToSet(udpQueue') : x \in ToSet(udpQueue)
       /\ entered \subseteq entered' /\ failures' >= failures /\ m.zop # "CreateZone"
  BY <1>4 DEF ReleaseZops
<1>12. QED  BY <1>5, <1>9, <1>10, <1>11, HandlerStep

\* zt_handle_client_disconnect
LEMMA ClientDisconnectStep ==
  ASSUME IInv, NEW m, Taking(m), m.zop = "ClientDisconnect", NEW o, o = m.object, HandleClientDisconnect(o)
  PROVE  IInv'
<1>1. TypeInv  BY DEF IInv
<1>2. unconfirmed \in Seq(Waiters) /\ failures \in Nat  BY <1>1 DEF TypeInv
<1>3. UNCHANGED <<udpQueue, valid, entered, zoneUp, expected, failures>>  BY DEF HandleClientDisconnect
<1>4. CASE UNCHANGED <<unconfirmed, allocated, ipAddr>>
  <2>1. failures' \in Nat /\ failures' >= failures  BY <1>2, <1>3
  <2>2. QED  BY <1>3, <1>4, <2>1, IgnoredMessage
<1>5. CASE unconfirmed' = Unlisted(o) /\ Free(o)
  <2>1. unconfirmed' = WithoutStub(o)  BY <1>5 DEF Unlisted
  <2>2. /\ WithoutStub(o) \in Seq(Waiters) /\ Within(WithoutStub(o), unconfirmed)
        /\ Once(unconfirmed, ListingsOf(o)) => ~Has(WithoutStub(o), ListingsOf(o))
    BY <1>2, WithoutStubIs
  <2>3. unconfirmed' \in Seq(Waiters) /\ Within(unconfirmed', unconfirmed)  BY <2>1, <2>2
  <2>4. o \in Stubs /\ ~unsafe => ~Listed(o)'
    <3>1. o \in Stubs /\ ~unsafe => Once(unconfirmed, ListingsOf(o))  BY DEF IInv, SafeInv, StubInv
    <3>2. QED  BY <2>1, <2>2, <3>1 DEF Listed
  <2>5. m.zop \in ReleaseZops  BY DEF ReleaseZops
  <2>6. QED  BY <1>3, <1>5, <2>3, <2>4, <2>5, FreedStep
<1>6. QED  BY <1>4, <1>5 DEF HandleClientDisconnect

\* zt_remove_transitional
LEMMA ReplacedStep ==
  ASSUME IInv, NEW m, Taking(m), m.zop = "ReplaceClientObject", NEW o, o = m.object, HandleReplaced(o)
  PROVE  IInv'
<1>1. TypeInv  BY DEF IInv
<1>2. unconfirmed \in Seq(Waiters)  BY <1>1 DEF TypeInv
<1>3. Free(o) /\ UNCHANGED <<udpQueue, valid, entered, zoneUp, expected, unconfirmed, failures>>
  BY DEF HandleReplaced
<1>4. unconfirmed' \in Seq(Waiters) /\ Within(unconfirmed', unconfirmed)  BY <1>2, <1>3, WithinSelf
<1>5. o \in Stubs /\ ~unsafe => ~Listed(o)'
  <2>1. m \in Messages /\ m \in ToSet(ztQueue)  BY <1>1, TakingIs
  <2>2. Swapped(o)  BY <2>1 DEF Swapped, Has, SwapsOf
  <2>3. o \in Stubs /\ ~unsafe => ~Listed(o)  BY <2>2 DEF IInv, SafeInv, StubInv
  <2>4. QED  BY <1>3, <2>3 DEF Listed
<1>6. m.zop \in ReleaseZops  BY DEF ReleaseZops
<1>7. QED  BY <1>3, <1>4, <1>5, <1>6, FreedStep

\* zt_process_commands
LEMMA HandleMessageStep ==
  ASSUME IInv, HandleMessage
  PROVE  IInv'
<1>1. PICK m : m = Head(ztQueue)  OBVIOUS
<1>2. PICK zop, o, a, name : zop = m.zop /\ o = m.object /\ a = m.addr /\ name = m.name  OBVIOUS
<1>3. Taking(m)  BY <1>1 DEF HandleMessage, Taking
<1>4. \/ m.zop = "CreateZone" /\ HandleCreateZone
      \/ m.zop = "AddClientExpected" /\ HandleAddClientExpected(o)
      \/ m.zop = "NewClient" /\ HandleNewClient(o, a)
      \/ m.zop = "ZoneEntry" /\ HandleZoneEntry(o, name)
      \/ zop \in {"CampStart", "Unspawn"} /\ HandleLeave(zop, o)
      \/ m.zop = "ClientDisconnect" /\ HandleClientDisconnect(o)
      \/ m.zop = "ReplaceClientObject" /\ HandleReplaced(o)
  BY <1>1, <1>2 DEF HandleMessage
<1>5. CASE m.zop = "CreateZone" /\ HandleCreateZone  BY <1>3, <1>5, CreateZoneStep
<1>6. CASE m.zop = "AddClientExpected" /\ HandleAddClientExpected(o)
  BY <1>2, <1>3, <1>6, AddExpectedStep
<1>7. CASE m.zop = "NewClient" /\ HandleNewClient(o, a)  BY <1>2, <1>3, <1>7, NewClientStep
<1>8. CASE m.zop = "ZoneEntry" /\ HandleZoneEntry(o, name)  BY <1>2, <1>3, <1>8, ZoneEntryStep
<1>9. CASE zop \in {"CampStart", "Unspawn"} /\ HandleLeave(zop, o)  BY <1>2, <1>3, <1>9, HandleLeaveStep
<1>10. CASE m.zop = "ClientDisconnect" /\ HandleClientDisconnect(o)
  BY <1>2, <1>3, <1>10, ClientDisconnectStep
<1>11. CASE m.zop = "ReplaceClientObject" /\ HandleReplaced(o)  BY <1>2, <1>3, <1>11, ReplacedStep
<1>12. QED  BY <1>4, <1>5, <1>6, <1>7, <1>8, <1>9, <1>10, <1>11

-----------------------------------------------------------------------------
(* The timers.                                                             *)

\* zt_timer_check_unconfirmed_timeouts takes entries out of both lists and pushes
\* DropClient only.
LEMMA SweepIs ==
  ASSUME TypeInv, SweepWaiters
  PROVE  /\ expected' \in Seq(Expectations) /\ Within(expected', expected)
         /\ unconfirmed' \in Seq(Waiters) /\ Within(unconfirmed', unconfirmed)
         /\ udpQueue' \in Seq(Commands) /\ failures' \in Nat /\ failures' >= failures
         /\ \A x \in ToSet(udpQueue') : x.zop = "ReplaceClientObject" => x \in ToSet(udpQueue)
         /\ \A c : PlaceInv(c) => CommandsHeld(c)
<1>1. /\ expected \in Seq(Expectations) /\ unconfirmed \in Seq(Waiters) /\ udpQueue \in Seq(Commands)
      /\ failures \in Nat
  BY DEF TypeInv
<1>2. Drain(expected) \in Seq(Expectations) /\ Within(Drain(expected), expected)  BY <1>1, DrainIs
<1>3. Drain(unconfirmed) \in Seq(Waiters) /\ Within(Drain(unconfirmed), unconfirmed)  BY <1>1, DrainIs
<1>4. PICK heard \in SUBSET {k \in DOMAIN unconfirmed : ~Lasting(unconfirmed[k])},
           read \in [DOMAIN unconfirmed -> Addrs] :
        /\ udpQueue' = udpQueue \o SetToSeq({Command("DropClient", read[k], None) : k \in heard})
        /\ Spend(Cardinality({k \in DOMAIN unconfirmed : ~Lasting(unconfirmed[k])} \ heard))
  BY DEF SweepWaiters
<1>5. DOMAIN unconfirmed = 1 .. Len(unconfirmed) /\ Len(unconfirmed) \in Nat  BY <1>1, Members
<1>6. IsFiniteSet(1 .. Len(unconfirmed))  BY <1>5, FS_Interval
<1>7. PICK missed : missed = {k \in DOMAIN unconfirmed : ~Lasting(unconfirmed[k])} \ heard  OBVIOUS
<1>8. Cardinality(missed) \in Nat
  <2>1. missed \subseteq 1 .. Len(unconfirmed)  BY <1>5, <1>7
  <2>2. IsFiniteSet(missed)  BY <1>6, <2>1, FS_Subset
  <2>3. QED  BY <2>2, FS_CardinalityType
<1>9. failures' \in Nat /\ failures' >= failures
  <2>1. failures' = failures + Cardinality(missed)  BY <1>4, <1>7 DEF Spend
  <2>2. QED  BY <1>1, <1>8, <2>1
<1>10. PICK D : D = {Command("DropClient", read[k], None) : k \in heard}  OBVIOUS
<1>11. IsFiniteSet(D)
  <2>1. heard \subseteq 1 .. Len(unconfirmed)  BY <1>5
  <2>2. IsFiniteSet(heard)  BY <1>6, <2>1, FS_Subset
  <2>3. PICK f : f = [k \in heard |-> Command("DropClient", read[k], None)]  OBVIOUS
  <2>4. f \in Surjection(heard, D)
    <3>1. f \in [heard -> D]  BY <1>10, <2>3
    <3>2. \A t \in D : \E k \in heard : f[k] = t  BY <1>10, <2>3
    <3>3. QED  BY <3>1, <3>2 DEF Surjection
  <2>5. QED  BY <2>2, <2>4, FS_Surjection
<1>12. \A x \in D : x \in Commands /\ x.zop = "DropClient"
  <2>1. ASSUME NEW k \in heard
        PROVE  LET x == Command("DropClient", read[k], None) IN x \in Commands /\ x.zop = "DropClient"
    <3>1. PICK b \in Addrs : b = read[k]  BY <1>4
    <3>2. QED  BY <3>1 DEF Command, Commands
  <2>2. QED  BY <1>10, <2>1
<1>13. PICK q : q = SetToSeq(D)  OBVIOUS
<1>14. q \in Seq(D)  BY <1>11, <1>13, SetToSeqIs
<1>15. \A x \in ToSet(q) : x \in D  BY <1>14, Members
<1>16. q \in Seq(Commands)
  <2>1. \A k \in 1 .. Len(q) : q[k] \in D  BY <1>14, Members
  <2>2. q \in [1 .. Len(q) -> Commands] /\ Len(q) \in Nat  BY <1>12, <1>14, <2>1
  <2>3. QED  BY <2>2
<1>17. udpQueue' = udpQueue \o q  BY <1>4, <1>10, <1>13
<1>18. /\ udpQueue' \in Seq(Commands) /\ ToSet(udpQueue') = ToSet(udpQueue) \cup ToSet(q)
       /\ \A R : Once(udpQueue, R) /\ ~Has(q, R) => Once(udpQueue', R)
  <2>1. /\ udpQueue \o q \in Seq(Commands) /\ ToSet(udpQueue \o q) = ToSet(udpQueue) \cup ToSet(q)
        /\ \A R : Once(udpQueue, R) /\ ~Has(q, R) => Once(udpQueue \o q, R)
    BY <1>1, <1>16, ConcatIs
  <2>2. QED  BY <1>17, <2>1
<1>19. \A x \in ToSet(udpQueue') : x.zop = "ReplaceClientObject" => x \in ToSet(udpQueue)
  BY <1>12, <1>15, <1>18
<1>20. ASSUME NEW c, PlaceInv(c) PROVE CommandsHeld(c)
  <2>1. \A x \in ToSet(q) : x \notin CommandsOf(c)  BY <1>12, <1>15 DEF CommandsOf
  <2>2. ~Has(q, CommandsOf(c))  BY <2>1 DEF Has
  <2>3. Once(udpQueue', CommandsOf(c))  BY <1>18, <1>20, <2>2 DEF PlaceInv
  <2>4. InCommands(c)' => InCommands(c)  BY <1>18, <2>1 DEF InCommands, Has
  <2>5. QED  BY <2>3, <2>4 DEF CommandsHeld
<1>21. expected' = Drain(expected) /\ unconfirmed' = Drain(unconfirmed)  BY DEF SweepWaiters
<1>22. QED  BY <1>2, <1>3, <1>9, <1>18, <1>19, <1>20, <1>21

\* timer_pool_execute_callbacks
LEMMA ExecuteCallbacksStep ==
  ASSUME IInv, ExecuteCallbacks
  PROVE  IInv'
<1>1. TypeInv /\ TokenInv /\ ZoneInv /\ PlayInv  BY DEF IInv
<1>2. /\ UNCHANGED <<table, ipAddr, said, ztQueue, valid, entered, zoneUp, allocated, asked, zoneAsked>>
      /\ UNCHANGED <<destroyed, unsafe>>
  BY DEF ExecuteCallbacks, udp, main
<1>3. failures \in Nat /\ expected \in Seq(Expectations) /\ unconfirmed \in Seq(Waiters) /\ udpQueue \in Seq(Commands)
  BY <1>1 DEF TypeInv
<1>4. /\ expected' \in Seq(Expectations) /\ Within(expected', expected)
      /\ unconfirmed' \in Seq(Waiters) /\ Within(unconfirmed', unconfirmed)
      /\ udpQueue' \in Seq(Commands) /\ failures' \in Nat /\ failures' >= failures
      /\ \A x \in ToSet(udpQueue') : x.zop = "ReplaceClientObject" => x \in ToSet(udpQueue)
      /\ \A c : PlaceInv(c) => CommandsHeld(c)
  <2>1. CASE SweepWaiters  BY <1>1, <2>1, SweepIs
  <2>2. CASE UNCHANGED <<expected, unconfirmed, udpQueue, failures>>
    <3>1. Within(expected', expected) /\ Within(unconfirmed', unconfirmed) /\ Within(udpQueue', udpQueue)
      BY <2>2, WithinSelf
    <3>2. \A c : PlaceInv(c) => CommandsHeld(c)  BY <3>1, ListsWithin
    <3>3. QED  BY <1>3, <2>2, <3>1, <3>2
  <2>3. QED  BY <2>1, <2>2 DEF ExecuteCallbacks
<1>5. TypeInv'  BY <1>1, <1>2, <1>4 DEF TypeInv
<1>6. Onward  BY <1>2, <1>4 DEF Onward
<1>7. \A x : SeatHeld(x) /\ HeapKept(x)  BY <1>2 DEF SeatHeld, Sits, HeapKept
<1>8. ASSUME NEW c \in Clients PROVE PlaceInv(c)'
  <2>1. PlaceInv(c)  BY <1>1 DEF TokenInv
  <2>2. QueueHeld(c) /\ ExpectedHeld(c) /\ CommandsHeld(c)
    BY <1>2, <1>4, <2>1, ListsWithin, QueueSame
  <2>3. QED  BY <1>2, <1>7, <2>1, <2>2, PlaceFrame
<1>9. ToSet(expected') \subseteq ToSet(expected)  BY <1>4 DEF Within
<1>10. ZoneInv'
  <2>1. ToSet(expected') # {} => ToSet(expected) # {}  BY <1>9
  <2>2. QED  BY <1>1, <1>2, <1>3, <1>4, <2>1, ZoneFrame
<1>11. PlayInv'  BY <1>1, <1>4, <1>5, <1>6, <1>7, <1>9, PlayFrame
<1>12. ASSUME NEW t \in Stubs, StubInv(t), AddrInv(t) PROVE StubInv(t)' /\ AddrInv(t)'
  <2>1. QueueKept(t) /\ ListKept(t)  BY <1>2, <1>4, <1>12, ListsWithin, QueueSame
  <2>2. QED  BY <1>1, <1>5, <1>6, <1>7, <1>12, <2>1, StubFrame
<1>13. unsafe' \/ SafeInv'  BY <1>2, <1>12 DEF IInv, SafeInv
<1>14. TokenInv'  BY <1>8 DEF TokenInv
<1>15. QED  BY <1>5, <1>10, <1>11, <1>13, <1>14 DEF IInv

\* cmgr_drop_loading_client of a Client that was handed over moves it nowhere.
LEMMA DropHandedStep ==
  ASSUME IInv, NEW c \in Clients, DropHanded(c)
  PROVE  IInv'
<1>1. /\ UNCHANGED <<table, said, udpQueue, ztQueue, ipAddr, allocated, asked, zoneAsked, zoneUp>>
      /\ UNCHANGED <<expected, unconfirmed, valid, entered, unsafe>>
      /\ destroyed' = destroyed \cup {c} /\ failures' = failures + 1
  BY DEF DropHanded, Spend, udp, zt
<1>2. TypeInv /\ TokenInv /\ ZoneInv /\ PlayInv  BY DEF IInv
<1>3. failures \in Nat /\ failures' \in Nat /\ failures' >= failures  BY <1>1, <1>2 DEF TypeInv
<1>4. TypeInv'  BY <1>1, <1>2, <1>3 DEF TypeInv
<1>5. Onward  BY <1>1, <1>3 DEF Onward
<1>6. \A x : SeatHeld(x) /\ HeapKept(x)  BY <1>1 DEF SeatHeld, Sits, HeapKept
<1>7. Within(expected', expected) /\ Within(udpQueue', udpQueue) /\ Within(unconfirmed', unconfirmed)
  BY <1>1, WithinSelf
<1>8. ASSUME NEW d \in Clients PROVE PlaceInv(d)'
  <2>1. PlaceInv(d)  BY <1>2 DEF TokenInv
  <2>2. QueueHeld(d) /\ ExpectedHeld(d) /\ CommandsHeld(d)  BY <1>1, <1>7, <2>1, ListsWithin, QueueSame
  <2>3. QED  BY <1>1, <1>6, <2>1, <2>2, PlaceFrame
<1>9. ZoneInv'  BY <1>1, <1>2, <1>3, ZoneFrame
<1>10. PlayInv'
  <2>1. ToSet(expected') \subseteq ToSet(expected)  BY <1>1
  <2>2. \A m \in ToSet(udpQueue') : m.zop = "ReplaceClientObject" => m \in ToSet(udpQueue)  BY <1>1
  <2>3. QED  BY <1>2, <1>4, <1>5, <1>6, <2>1, <2>2, PlayFrame
<1>11. ASSUME NEW s \in Stubs, StubInv(s), AddrInv(s) PROVE StubInv(s)' /\ AddrInv(s)'
  <2>1. QueueKept(s) /\ ListKept(s)  BY <1>1, <1>7, <1>11, ListsWithin, QueueSame
  <2>2. QED  BY <1>2, <1>4, <1>5, <1>6, <1>11, <2>1, StubFrame
<1>12. unsafe' \/ SafeInv'  BY <1>1, <1>11 DEF IInv, SafeInv
<1>13. TokenInv'  BY <1>8 DEF TokenInv
<1>14. QED  BY <1>4, <1>9, <1>10, <1>12, <1>13 DEF IInv

-----------------------------------------------------------------------------
(* The theorems.                                                           *)

\* Nothing is connected, handed over or waited for when zt_create returns.
LEMMA InitIInv ==
  ASSUME Init
  PROVE  IInv
<1>1. ToSet(<<>>) = {}  BY DEF ToSet
<1>2. \A R : ~Has(<<>>, R) /\ Once(<<>>, R)  BY <1>1 DEF Has, Once
<1>3. \A A, B : Before(<<>>, A, B)  BY DEF Before
<1>4. /\ table = [a \in Addrs |-> None] /\ said = [a \in Addrs |-> {}]
      /\ udpQueue = <<>> /\ ztQueue = <<>> /\ ipAddr = [o \in Objects |-> None]
      /\ allocated = {} /\ asked = [c \in Clients |-> None]
      /\ zoneAsked = FALSE /\ zoneUp = FALSE /\ expected = <<>> /\ unconfirmed = <<>>
      /\ valid = {} /\ entered = {} /\ failures = 0 /\ unsafe = FALSE
  BY DEF Init
<1>5. TypeInv
  <2>1. /\ <<>> \in Seq(Commands) /\ <<>> \in Seq(Messages) /\ <<>> \in Seq(Expectations)
        /\ <<>> \in Seq(Waiters)
    OBVIOUS
  <2>2. /\ table \in [Addrs -> Entries \cup {None}] /\ said \in [Addrs -> SUBSET Names]
        /\ ipAddr \in [Objects -> Addrs \cup {None}] /\ asked \in [Clients -> Owners \cup {None}]
    BY <1>4
  <2>3. QED  BY <1>4, <2>1, <2>2 DEF TypeInv
<1>6. \A a \in Addrs : \A o : ~Sits(a, o)  BY <1>4 DEF Sits
<1>7. \A o : ~Seated(o) /\ OneSeat(o)  BY <1>6 DEF Seated, OneSeat
<1>8. TokenInv  BY <1>2, <1>4, <1>7 DEF TokenInv, PlaceInv, InQueue, InExpected, InCommands
<1>9. ZoneInv  BY <1>1, <1>2, <1>4 DEF ZoneInv
<1>10. PlayInv  BY <1>1, <1>4, <1>6 DEF PlayInv
<1>11. ASSUME NEW s \in Stubs PROVE StubInv(s) /\ AddrInv(s)
  <2>1. StubInv(s)  BY <1>2, <1>3, <1>4, <1>7 DEF StubInv, Arriving, Swapped, Listed
  <2>2. ipAddr[s] = None  BY <1>4 DEF Objects
  <2>3. \A a \in Addrs : ~Peer(s, a)  BY <1>1, <1>4, <2>2, NullAssumption DEF Peer
  <2>4. AddrInv(s)  BY <1>4, <2>2, <2>3 DEF AddrInv
  <2>5. QED  BY <2>1, <2>4
<1>12. QED  BY <1>5, <1>8, <1>9, <1>10, <1>11 DEF IInv, SafeInv

\* Between two steps nothing changes.
LEMMA StutterStep ==
  ASSUME IInv, UNCHANGED vars
  PROVE  IInv'
<1>1. /\ UNCHANGED <<table, said, udpQueue, ztQueue, ipAddr, allocated, asked, zoneAsked, zoneUp>>
      /\ UNCHANGED <<expected, unconfirmed, valid, entered, failures, unsafe, destroyed>>
  BY DEF vars, udp, zt, main
<1>2. TypeInv' <=> TypeInv  BY <1>1 DEF TypeInv
<1>3. \A a, o : Sits(a, o)' <=> Sits(a, o)  BY <1>1 DEF Sits
<1>4. \A o : (Seated(o)' <=> Seated(o)) /\ (OneSeat(o)' <=> OneSeat(o))  BY <1>3 DEF Seated, OneSeat
<1>5. TokenInv => TokenInv'  BY <1>1, <1>4 DEF TokenInv, PlaceInv, InQueue, InExpected, InCommands
<1>6. ZoneInv => ZoneInv'  BY <1>1 DEF ZoneInv, ZoneKnown
<1>7. PlayInv => PlayInv'  BY <1>1, <1>3 DEF PlayInv, May
<1>8. ASSUME NEW s \in Stubs, StubInv(s), AddrInv(s) PROVE StubInv(s)' /\ AddrInv(s)'
  <2>1. StubInv(s)'  BY <1>1, <1>4, <1>8 DEF StubInv, Arriving, Swapped, Listed
  <2>2. \A a \in Addrs : Peer(s, a)' <=> Peer(s, a)  BY <1>1 DEF Peer
  <2>3. AddrInv(s)'  BY <1>1, <1>3, <1>8, <2>2 DEF AddrInv, Arriving
  <2>4. QED  BY <2>1, <2>3
<1>9. QED  BY <1>1, <1>2, <1>5, <1>6, <1>7, <1>8 DEF IInv, SafeInv

\* Every Client is in one place and every stub in its life's order, in every reachable
\* state and whatever fails: each action of the main thread, the peers, the UDP thread
\* and the zone thread keeps the invariant.
THEOREM InductiveInvariant == Spec => []IInv
<1>1. Init => IInv  BY InitIInv
<1>2. IInv /\ [Next]_vars => IInv'
  <2> SUFFICES ASSUME IInv, [Next]_vars PROVE IInv'  OBVIOUS
  <2>1. CASE \E c \in Clients, ip \in Homes, name \in Names : Expect(c, ip, name)  BY <2>1, ExpectStep
  <2>10. CASE \E c \in Clients : DropHanded(c)  BY <2>10, DropHandedStep
  <2>2. CASE \E a \in Addrs : Connect(a) \/ Camp(a) \/ Leave(a) \/ GoSilent(a)
    BY <2>2, ConnectStep, LeaveStep, GoSilentStep
  <2>3. CASE \E a \in Addrs, name \in Names : SayName(a, name)  BY <2>3, SayNameStep
  <2>4. CASE UdpCommand  BY <2>4, UdpCommandStep
  <2>5. CASE HandleMessage  BY <2>5, HandleMessageStep
  <2>6. CASE ExecuteCallbacks  BY <2>6, ExecuteCallbacksStep
  <2>7. CASE Tick  BY <2>7, TickStep
  <2>8. CASE UNCHANGED vars  BY <2>8, StutterStep
  <2>9. QED  BY <2>1, <2>2, <2>3, <2>4, <2>5, <2>6, <2>7, <2>8, <2>10 DEF Next
<1>3. QED  BY <1>1, <1>2, PTL DEF Spec

\* A Client that was handed over is in one place only: the zone thread's queue, its
\* expected list, a ReplaceClientObject on its way or the UDP thread's table; while it is
\* in any, its block is not freed.  What it holds may be: cmgr_drop_loading_client
\* destroys it wherever it is (destroyed) without freeing the block.
THEOREM ClientInOnePlace == Spec => []TokenInv
<1>1. IInv => TokenInv  BY DEF IInv
<1>2. QED  BY <1>1, InductiveInvariant, PTL

\* The indexes of a queue's messages and of a list's entries.
LEMMA LiveIs ==
  ASSUME IInv
  PROVE  StubsLive
<1> SUFFICES ASSUME ~unsafe
             PROVE  /\ \A k \in DOMAIN unconfirmed : unconfirmed[k].stub \in allocated
                    /\ \A a \in Addrs : table[a] # None =>
                         table[a].object \in allocated /\ Released(table[a].object) = {}
                    /\ \A k \in DOMAIN ztQueue : ztQueue[k].object \in Stubs =>
                         /\ ztQueue[k].object \in allocated
                         /\ \A r \in Released(ztQueue[k].object) : k <= r
  BY DEF StubsLive
<1>1. TypeInv /\ TokenInv /\ \A s \in Stubs : StubInv(s)  BY DEF IInv, SafeInv
<1>2. /\ unconfirmed \in Seq(Waiters) /\ ztQueue \in Seq(Messages)
      /\ table \in [Addrs -> Entries \cup {None}]
  BY <1>1 DEF TypeInv
<1>3. PICK n \in Nat : /\ n = Len(ztQueue) /\ DOMAIN ztQueue = 1 .. n
                       /\ \A k \in 1 .. n : ztQueue[k] \in Messages /\ ztQueue[k] \in ToSet(ztQueue)
  BY <1>2, Members
<1>4. ASSUME NEW k \in DOMAIN unconfirmed PROVE unconfirmed[k].stub \in allocated
  <2>1. PICK u \in Waiters : u = unconfirmed[k] /\ u \in ToSet(unconfirmed)  BY <1>2, Members
  <2>2. PICK s \in Stubs : s = u.stub  BY DEF Waiters
  <2>3. Listed(s)  BY <2>1, <2>2 DEF Listed, Has, ListingsOf
  <2>4. QED  BY <1>1, <2>1, <2>2, <2>3 DEF StubInv
<1>5. \A o, r : r \in Released(o) => r \in 1 .. n /\ ztQueue[r].zop \in ReleaseZops /\ ztQueue[r].object = o
  BY <1>3 DEF Released, ReleaseZops
<1>6. ASSUME NEW a \in Addrs, table[a] # None
      PROVE  table[a].object \in allocated /\ Released(table[a].object) = {}
  <2>1. PICK o \in Objects : o = table[a].object  BY <1>2, <1>6 DEF Entries
  <2>2. Seated(o)  BY <1>6, <2>1 DEF Seated, Sits
  <2>3. CASE o \in Stubs
    <3>1. o \in allocated /\ ~Has(ztQueue, ReleasesOf(o))  BY <1>1, <2>2, <2>3 DEF StubInv
    <3>2. \A r : r \notin Released(o)  BY <1>3, <1>5, <3>1 DEF Has, ReleasesOf
    <3>3. QED  BY <2>1, <3>1, <3>2
  <2>4. CASE o \in Clients
    <3>1. o \in allocated /\ ~InQueue(o)  BY <1>1, <2>2, <2>4 DEF TokenInv, PlaceInv
    <3>2. \A r : r \notin Released(o)  BY <1>3, <1>5, <3>1 DEF InQueue, Has, TokensOf
    <3>3. QED  BY <2>1, <3>1, <3>2
  <2>5. QED  BY <2>3, <2>4 DEF Objects
<1>7. ASSUME NEW k \in DOMAIN ztQueue, ztQueue[k].object \in Stubs
      PROVE  ztQueue[k].object \in allocated /\ \A r \in Released(ztQueue[k].object) : k <= r
  <2>1. PICK s \in Stubs : s = ztQueue[k].object  BY <1>7
  <2>2. k \in 1 .. n /\ ztQueue[k] \in AboutOf(s)  BY <1>3, <2>1 DEF AboutOf
  <2>3. s \in allocated  BY <1>1, <1>3, <2>2 DEF StubInv, Has
  <2>4. Before(ztQueue, AboutOf(s), ReleasesOf(s))  BY <1>1 DEF StubInv
  <2>5. \A r \in Released(s) : r \in 1 .. n /\ ztQueue[r] \in ReleasesOf(s)
    BY <1>3, <1>5 DEF ReleasesOf
  <2>6. \A r \in Released(s) : k <= r  BY <1>3, <2>2, <2>4, <2>5 DEF Before
  <2>7. QED  BY <2>1, <2>3, <2>6
<1>8. QED  BY <1>4, <1>6, <1>7

\* A ClientStub is freed once, when nobody uses it any more, for any number of peers and
\* connections: zt_handle_unconfirmed_client_disconnect and zt_remove_transitional free what no
\* list, no table and no later message names.
THEOREM AlwaysStubsLive == Spec => []StubsLive
<1>1. IInv => StubsLive  BY LiveIs
<1>2. QED  BY <1>1, InductiveInvariant, PTL

\* Whoever controls a Client is alone; it has the ip the Client was loaded for unless a
\* freed stub or a Client as a stub was used (unsafe), and said its name unless that or
\* the Client was destroyed by the main thread; the Client is in the zone unless
\* something failed: what zt_handle_unconfirmed_client_name and
\* zt_handle_add_client_expected match is what udpc_replace_client_object seats.
THEOREM AlwaysPlaysItsOwn == Spec => []PlaysItsOwn
<1>1. ASSUME IInv PROVE PlaysItsOwn
  <2>1. TokenInv /\ PlayInv  BY <1>1 DEF IInv
  <2> SUFFICES ASSUME NEW a \in Addrs, NEW c \in Clients, Sits(a, c)
               PROVE  /\ unsafe \/ (asked[c].ip = Ip(a) /\ (c \in destroyed \/ asked[c].name \in said[a]))
                      /\ c \in entered \/ failures > 0
                      /\ \A b \in Addrs : Sits(b, c) => b = a
    BY DEF PlaysItsOwn, Sits
  <2>2. May(a, c)  BY <2>1 DEF PlayInv
  <2>3. OneSeat(c)  BY <2>1 DEF TokenInv, PlaceInv
  <2>4. QED  BY <2>2, <2>3 DEF May, OneSeat
<1>2. QED  BY <1>1, InductiveInvariant, PTL
=============================================================================
