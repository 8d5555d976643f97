-------------------------- MODULE CharSelectProofs --------------------------
(***************************************************************************)
(* For any number of clients, accounts and session keys, whatever fails:   *)
(* char select acts only on what the login thread authorized, an           *)
(* authorisation lets in one client, the lists hold no freed object unless *)
(* its client sent OP_CS_LoginInfo twice, and no wait is cut short.        *)
(***************************************************************************)
EXTENDS CharSelect, SequenceTheorems, FiniteSetTheorems, TLAPS

-----------------------------------------------------------------------------
(* The inductive invariant.                                                *)

Zops == {"CharacterInfo", "NameAvailable", "CharacterCreate", "CharacterDelete", "Zone"}

MaybeAccount == Accounts \cup {None}

Queries == [zop : Zops, client : Objects, account : MaybeAccount, name : Names \cup {None}]
Answers == [zop : Zops, client : Objects, account : MaybeAccount, hadError : BOOLEAN,
            isNameAvailable : BOOLEAN]
Rows == [account : MaybeAccount, name : Names]

TypeInv ==
  /\ object \in [Objects -> CharSelectClients \cup {None}]
  /\ clients \in Seq(Objects) /\ awaiting \in Seq(Objects) /\ auths \in Seq(Auths)
  /\ awaitingTimeouts \in Seq(Nat) /\ Len(awaitingTimeouts) = Len(awaiting)
  /\ authTimeouts \in Seq(Nat) /\ Len(authTimeouts) = Len(auths)
  /\ now \in 0 .. MaxTime /\ failures \in 0 .. MaxFailures
  /\ dbQueue \in Seq(Queries) /\ batch \in Seq(Queries) /\ csQueue \in Seq(Answers)
  /\ toMain \subseteq Queries /\ characters \subseteq Rows
  /\ granted \in [Auths -> Nat] /\ admitted \in [Auths -> Nat]

\* How often a is in the list s.
At(s, a) == {k \in 1 .. Len(s) : s[k] = a}
Occurs(s, a) == Cardinality(At(s, a))

\* An authorisation waits, or has let a client in.
GrantInv == \A a \in Auths : admitted[a] + Occurs(auths, a) <= granted[a]

\* Authorized clients have an account that was authorized.
AccountInv == \A o \in Live : object[o].authed => object[o].accountId \in GrantedAccounts

\* Queries that change something are for such an account.
QueryInv ==
  /\ \A q \in ToSet(dbQueue) \cup ToSet(batch) :
       IsWrite(q) => q.account \in GrantedAccounts /\ q.name \in Names
  /\ \A q \in toMain : q.account \in GrantedAccounts
  /\ \A row \in characters : row.account \in GrantedAccounts

\* x is in the list s once at most.
Once(s, x) == \A j, k \in 1 .. Len(s) : s[j] = x /\ s[k] = x => j = k

\* A client that sent OP_CS_LoginInfo once is in one list, once.
OnceInv ==
  \A o \in Objects \ again :
    Once(clients, o) /\ Once(awaiting, o) /\ ~(o \in ToSet(clients) /\ o \in ToSet(awaiting))

\* Such a client waits until the time its entry says, and was never authorized.
WaitInv ==
  \A k \in 1 .. Len(awaiting) :
    awaiting[k] \notin again /\ awaiting[k] \in Live =>
      /\ awaitingTimeouts[k] = object[awaiting[k]].until
      /\ object[awaiting[k]].accountId = None

\* A client that has an account is listed.
ListedInv == \A o \in Live : object[o].accountId # None => o \in ToSet(clients) \/ o \in again

\* What the thread knows of its clients.
ClientInv == AccountInv /\ OnceInv /\ WaitInv /\ ListedInv /\ ListedAreLive

IInv == TypeInv /\ GrantInv /\ QueryInv /\ ClientInv

-----------------------------------------------------------------------------
(* Lists and queues.                                                       *)

\* A set of natural numbers has a least element, and Min is it.
LEMMA LeastElement ==
  ASSUME NEW T, T \subseteq Nat, T # {}
  PROVE  Min(T) \in T /\ \A y \in T : Min(T) <= y
<1>1. PICK R : R = OpToRel(<, Nat)  OBVIOUS
<1>2. IsWellFoundedOn(R, Nat)  BY <1>1, NatLessThanWellFounded
<1>3. PICK x \in T : \A y \in T : ~(<<y, x>> \in R)  BY <1>2, WFMin
<1>4. \A a, b \in Nat : a < b => <<a, b>> \in R  BY <1>1 DEF OpToRel
<1>5. \A y \in T : ~(y < x)
  <2>1. x \in Nat /\ \A y \in T : y \in Nat  OBVIOUS
  <2>2. QED  BY <1>3, <1>4, <2>1, Zenon
<1>6. \E z \in T : \A y \in T : z <= y  BY <1>5
<1>7. QED  BY <1>6 DEF Min

\* The members of a list, by index.
LEMMA Members ==
  ASSUME NEW S, NEW s \in Seq(S)
  PROVE  /\ Len(s) \in Nat /\ DOMAIN s = 1 .. Len(s)
         /\ ToSet(s) = {s[k] : k \in 1 .. Len(s)}
         /\ \A k \in 1 .. Len(s) : s[k] \in S /\ s[k] \in ToSet(s)
         /\ \A x \in ToSet(s) : x \in S
<1>1. Len(s) \in Nat /\ DOMAIN s = 1 .. Len(s) /\ \A k \in 1 .. Len(s) : s[k] \in S
  BY LenProperties, ElementOfSeq
<1>2. QED  BY <1>1 DEF ToSet

\* What is appended to a list, by index.
LEMMA Appended ==
  ASSUME NEW S, NEW s \in Seq(S), NEW x \in S
  PROVE  /\ Append(s, x) \in Seq(S)
         /\ Len(Append(s, x)) = Len(s) + 1
         /\ \A k \in 1 .. Len(s) : Append(s, x)[k] = s[k]
         /\ Append(s, x)[Len(s) + 1] = x
  BY AppendProperties

\* What is pushed to a queue.
LEMMA Pushed ==
  ASSUME NEW S, NEW s \in Seq(S), NEW x \in S
  PROVE  Append(s, x) \in Seq(S) /\ ToSet(Append(s, x)) = ToSet(s) \cup {x}
<1>0. PICK t : t = Append(s, x)  OBVIOUS
<1>1. PICK n \in Nat : n = Len(s)  BY LenProperties
<1>2. t \in Seq(S) /\ Len(t) = n + 1 /\ (\A i \in 1 .. n : t[i] = s[i]) /\ t[n + 1] = x
  BY <1>0, <1>1, Appended
<1>3. DOMAIN s = 1 .. n /\ DOMAIN t = 1 .. n + 1  BY <1>1, <1>2, LenProperties
<1>4. \A i \in 1 .. n + 1 : i \in 1 .. n \/ i = n + 1  OBVIOUS
<1>5. (\A i \in 1 .. n : i \in 1 .. n + 1) /\ n + 1 \in 1 .. n + 1  OBVIOUS
<1>6. \A y \in ToSet(t) : y \in ToSet(s) \cup {x}  BY <1>2, <1>3, <1>4 DEF ToSet
<1>7. \A y \in ToSet(s) \cup {x} : y \in ToSet(t)  BY <1>2, <1>3, <1>5 DEF ToSet
<1>8. ToSet(t) = ToSet(s) \cup {x}  BY <1>6, <1>7
<1>9. QED  BY <1>0, <1>1, <1>2, <1>8

\* What is taken from a queue.
LEMMA Popped ==
  ASSUME NEW S, NEW s \in Seq(S), s # <<>>
  PROVE  Tail(s) \in Seq(S) /\ Head(s) \in S
  BY HeadTailProperties

\* db_thread_execute_writes and _reads take any of the queries drained.
LEMMA Removed ==
  ASSUME NEW S, NEW s \in Seq(S), NEW i \in 1 .. Len(s)
  PROVE  RemoveAt(s, i) \in Seq(S) /\ ToSet(RemoveAt(s, i)) \subseteq ToSet(s)
<1>1. PICK n \in Nat : n = Len(s) /\ DOMAIN s = 1 .. n  BY Members
<1>2. PICK a, b, r : a = SubSeq(s, 1, i - 1) /\ b = SubSeq(s, i + 1, n) /\ r = a \o b  OBVIOUS
<1>3. i \in 1 .. n /\ i \in Nat  BY <1>1
<1>4. a \in Seq(S) /\ Len(a) = i - 1 /\ \A k \in 1 .. i - 1 : a[k] = s[k]
  <2>1. 1 \in 1 .. n + 1 /\ i - 1 \in 1 - 1 .. n  BY <1>3
  <2>2. SubSeq(s, 1, i - 1) = [k \in 1 .. i - 1 |-> s[1 + k - 1]]  BY <1>1, <1>3
  <2>3. a = [k \in 1 .. i - 1 |-> s[k]]  BY <1>2, <1>3, <2>2
  <2>4. \A k \in 1 .. i - 1 : s[k] \in S  BY <1>1, <1>3, Members
  <2>5. a \in [1 .. i - 1 -> S] /\ i - 1 \in Nat  BY <1>3, <2>3, <2>4
  <2>6. QED  BY <2>3, <2>5
<1>5. b \in Seq(S) /\ Len(b) = n - i /\ \A k \in 1 .. n - i : b[k] = s[i + k]
  <2>1. SubSeq(s, i + 1, n) = [k \in 1 .. n - (i + 1) + 1 |-> s[i + 1 + k - 1]]  BY <1>1, <1>3
  <2>2. n - (i + 1) + 1 = n - i /\ n - i \in Nat  BY <1>3
  <2>3. b = [k \in 1 .. n - i |-> s[i + k]]
    <3>1. \A k \in 1 .. n - i : i + 1 + k - 1 = i + k  BY <1>3
    <3>2. QED  BY <1>2, <2>1, <2>2, <3>1
  <2>4. \A k \in 1 .. n - i : i + k \in 1 .. n  BY <1>3
  <2>5. \A k \in 1 .. n - i : s[i + k] \in S  BY <1>1, <2>4, Members
  <2>6. b \in [1 .. n - i -> S]  BY <2>3, <2>5
  <2>7. PICK m \in Nat : m = n - i  BY <2>2
  <2>8. b \in [1 .. m -> S]  BY <2>6, <2>7
  <2>9. b \in Seq(S) /\ Len(b) = m  BY <2>8
  <2>10. QED  BY <2>3, <2>7, <2>9
<1>6. r \in Seq(S) /\ Len(r) = i - 1 + (n - i)
      /\ \A k \in 1 .. i - 1 + (n - i) : r[k] = IF k <= i - 1 THEN a[k] ELSE b[k - (i - 1)]
  BY <1>2, <1>4, <1>5, ConcatProperties, SMTT(30)
<1>7. i - 1 + (n - i) = n - 1  BY <1>3
<1>8. ASSUME NEW k \in 1 .. n - 1 PROVE \E j \in 1 .. n : r[k] = s[j]
  <2>1. CASE k <= i - 1
    <3>1. k \in 1 .. i - 1 /\ k \in 1 .. n  BY <1>3, <2>1
    <3>2. r[k] = s[k]  BY <1>4, <1>6, <1>7, <2>1, <3>1
    <3>3. QED  BY <3>1, <3>2
  <2>2. CASE ~(k <= i - 1)
    <3>1. PICK m : m = k - (i - 1)  OBVIOUS
    <3>2. m \in 1 .. n - i /\ i + m \in 1 .. n  BY <1>3, <2>2, <3>1
    <3>3. r[k] = s[i + m]  BY <1>5, <1>6, <1>7, <2>2, <3>1, <3>2
    <3>4. QED  BY <3>2, <3>3
  <2>3. QED  BY <2>1, <2>2
<1>9. ToSet(r) = {r[k] : k \in 1 .. n - 1}  BY <1>6, <1>7, Members
<1>10. r = RemoveAt(s, i)  BY <1>1, <1>2 DEF RemoveAt
<1>11. ToSet(r) \subseteq ToSet(s)
  <2>1. ToSet(s) = {s[j] : j \in 1 .. n}  BY <1>1, Members
  <2>2. QED  BY <1>8, <1>9, <2>1
<1>12. QED  BY <1>6, <1>10, <1>11

-----------------------------------------------------------------------------
(* "Pop and swap", and the sweep.                                          *)

\* Where the entry that is at j after the swap was before.
Moved(n, i, j) == IF j = i THEN n ELSE j

\* All entries but i are moved, each to a place of its own.
LEMMA MovedIs ==
  ASSUME NEW n \in Nat, NEW i \in 1 .. n
  PROVE  /\ \A j \in 1 .. n - 1 : Moved(n, i, j) \in 1 .. n /\ Moved(n, i, j) # i
         /\ \A j, k \in 1 .. n - 1 : Moved(n, i, j) = Moved(n, i, k) => j = k
         /\ \A k \in 1 .. n : k # i => \E j \in 1 .. n - 1 : Moved(n, i, j) = k
<1>1. \A j \in 1 .. n - 1 : Moved(n, i, j) \in 1 .. n /\ Moved(n, i, j) # i  BY DEF Moved
<1>2. \A j, k \in 1 .. n - 1 : Moved(n, i, j) = Moved(n, i, k) => j = k  BY DEF Moved
<1>3. ASSUME NEW k \in 1 .. n, k # i PROVE \E j \in 1 .. n - 1 : Moved(n, i, j) = k
  <2>1. CASE k = n
    <3>1. i \in 1 .. n - 1 /\ Moved(n, i, i) = k  BY <1>3, <2>1 DEF Moved
    <3>2. QED  BY <3>1
  <2>2. CASE k # n
    <3>1. k \in 1 .. n - 1 /\ Moved(n, i, k) = k  BY <1>3, <2>2 DEF Moved
    <3>2. QED  BY <3>1
  <2>3. QED  BY <2>1, <2>2
<1>4. QED  BY <1>1, <1>2, <1>3

\* The list without entry i.
LEMMA PopSwapIs ==
  ASSUME NEW S, NEW s \in Seq(S), NEW i \in 1 .. Len(s), NEW r, r = PopSwap(s, i)
  PROVE  /\ r \in Seq(S) /\ Len(r) = Len(s) - 1
         /\ \A j \in 1 .. Len(s) - 1 : r[j] = s[Moved(Len(s), i, j)]
<1>1. PICK n \in Nat : n = Len(s) /\ \A k \in 1 .. n : s[k] \in S  BY Members
<1>2. i \in 1 .. n /\ n - 1 \in Nat /\ n \in 1 .. n /\ \A j \in 1 .. n - 1 : j \in 1 .. n  BY <1>1
<1>3. r = [j \in 1 .. n - 1 |-> IF j = i THEN s[n] ELSE s[j]]  BY <1>1 DEF PopSwap
<1>4. r \in [1 .. n - 1 -> S]  BY <1>1, <1>2, <1>3
<1>5. PICK m \in Nat : m = n - 1  BY <1>2
<1>6. r \in Seq(S) /\ Len(r) = m  BY <1>4, <1>5
<1>7. \A j \in 1 .. n - 1 : r[j] = s[Moved(n, i, j)]  BY <1>3 DEF Moved
<1>8. QED  BY <1>1, <1>5, <1>6, <1>7

\* The places of a in a list are finitely many.
LEMMA OccursIs ==
  ASSUME NEW S, NEW s \in Seq(S), NEW a
  PROVE  IsFiniteSet(At(s, a)) /\ Occurs(s, a) \in Nat
<1>1. Len(s) \in Nat  BY LenProperties
<1>2. IsFiniteSet(1 .. Len(s))  BY <1>1, FS_Interval
<1>3. At(s, a) \subseteq 1 .. Len(s)  BY DEF At
<1>4. IsFiniteSet(At(s, a))  BY <1>2, <1>3, FS_Subset
<1>5. QED  BY <1>4, FS_CardinalityType DEF Occurs

\* An entry is taken out: the others stay, as often as they were there.
LEMMA PopSwapped ==
  ASSUME NEW S, NEW s \in Seq(S), NEW i \in 1 .. Len(s), NEW r, r = PopSwap(s, i)
  PROVE  /\ r \in Seq(S) /\ Len(r) = Len(s) - 1
         /\ ToSet(r) \subseteq ToSet(s) /\ ToSet(s) \subseteq ToSet(r) \cup {s[i]}
         /\ \A x : Once(s, x) => Once(r, x)
         /\ Once(s, s[i]) => s[i] \notin ToSet(r)
         /\ \A a : Occurs(r, a) <= Occurs(s, a)
         /\ Occurs(r, s[i]) + 1 <= Occurs(s, s[i])
<1>1. PICK n \in Nat : n = Len(s) /\ ToSet(s) = {s[k] : k \in 1 .. n}  BY Members
<1>2. i \in 1 .. n  BY <1>1
<1>3. r \in Seq(S) /\ Len(r) = n - 1 /\ \A j \in 1 .. n - 1 : r[j] = s[Moved(n, i, j)]
  BY <1>1, PopSwapIs
<1>4. ToSet(r) = {r[j] : j \in 1 .. n - 1}  BY <1>3, Members
<1>5. /\ \A j \in 1 .. n - 1 : Moved(n, i, j) \in 1 .. n /\ Moved(n, i, j) # i
      /\ \A j, k \in 1 .. n - 1 : Moved(n, i, j) = Moved(n, i, k) => j = k
      /\ \A k \in 1 .. n : k # i => \E j \in 1 .. n - 1 : Moved(n, i, j) = k
  BY <1>2, MovedIs
<1>6. ToSet(r) \subseteq ToSet(s)  BY <1>1, <1>3, <1>4, <1>5
<1>7. ASSUME NEW k \in 1 .. n PROVE s[k] \in ToSet(r) \cup {s[i]}
  <2>1. CASE k = i  BY <2>1
  <2>2. CASE k # i
    <3>1. PICK j \in 1 .. n - 1 : Moved(n, i, j) = k  BY <1>5, <2>2
    <3>2. r[j] = s[k]  BY <1>3, <3>1
    <3>3. QED  BY <1>4, <3>2
  <2>3. QED  BY <2>1, <2>2
<1>8. ASSUME NEW x, Once(s, x) PROVE Once(r, x)
  <2>1. ASSUME NEW j \in 1 .. n - 1, NEW k \in 1 .. n - 1, r[j] = x, r[k] = x PROVE j = k
    <3>1. s[Moved(n, i, j)] = x /\ s[Moved(n, i, k)] = x  BY <1>3, <2>1
    <3>2. Moved(n, i, j) = Moved(n, i, k)  BY <1>1, <1>5, <1>8, <3>1 DEF Once
    <3>3. QED  BY <1>5, <3>2
  <2>2. QED  BY <1>3, <2>1 DEF Once
<1>9. ASSUME Once(s, s[i]), s[i] \in ToSet(r) PROVE FALSE
  <2>1. PICK j \in 1 .. n - 1 : r[j] = s[i]  BY <1>4, <1>9
  <2>2. s[Moved(n, i, j)] = s[i] /\ Moved(n, i, j) \in 1 .. n /\ Moved(n, i, j) # i
    BY <1>3, <1>5, <2>1
  <2>3. QED  BY <1>1, <1>2, <1>9, <2>2 DEF Once
<1>10. ASSUME NEW a
       PROVE  IsFiniteSet(At(s, a) \ {i}) /\ Occurs(r, a) <= Cardinality(At(s, a) \ {i})
  <2>1. PICK A, B : A = At(r, a) /\ B = At(s, a) \ {i}  OBVIOUS
  <2>2. IsFiniteSet(B)
    <3>1. IsFiniteSet(At(s, a))  BY OccursIs
    <3>2. QED  BY <2>1, <3>1, FS_Subset
  <2>3. PICK f : f = [j \in A |-> Moved(n, i, j)]  OBVIOUS
  <2>4. \A j \in A : j \in 1 .. n - 1 /\ r[j] = a  BY <1>3, <2>1 DEF At
  <2>5. \A j \in A : Moved(n, i, j) \in B
    <3> SUFFICES ASSUME NEW j \in A PROVE Moved(n, i, j) \in B  OBVIOUS
    <3>1. Moved(n, i, j) \in 1 .. n /\ Moved(n, i, j) # i /\ s[Moved(n, i, j)] = a
      BY <1>3, <1>5, <2>4
    <3>2. QED  BY <1>1, <2>1, <3>1 DEF At
  <2>6. f \in Injection(A, B)  BY <1>5, <2>3, <2>4, <2>5 DEF Injection, IsInjective
  <2>7. Cardinality(A) <= Cardinality(B)  BY <2>2, <2>6, FS_Injection
  <2>8. QED  BY <2>1, <2>2, <2>7 DEF Occurs
<1>11. ASSUME NEW a PROVE Occurs(r, a) <= Occurs(s, a)
  <2>1. Cardinality(At(s, a) \ {i}) <= Cardinality(At(s, a))
    <3>1. IsFiniteSet(At(s, a))  BY OccursIs
    <3>2. At(s, a) \ {i} \subseteq At(s, a)  OBVIOUS
    <3>3. QED  BY <3>1, <3>2, FS_Subset
  <2>2. PICK x, y, z : x = Occurs(r, a) /\ y = Cardinality(At(s, a) \ {i}) /\ z = Occurs(s, a)  OBVIOUS
  <2>3. x \in Nat /\ z \in Nat  BY <1>3, <2>2, OccursIs
  <2>4. y \in Nat  BY <1>10, <2>2, FS_CardinalityType
  <2>5. x <= y /\ y <= z  BY <1>10, <2>1, <2>2 DEF Occurs
  <2>6. QED  BY <2>2, <2>3, <2>4, <2>5
<1>12. Occurs(r, s[i]) + 1 <= Occurs(s, s[i])
  <2>1. i \in At(s, s[i]) /\ IsFiniteSet(At(s, s[i]))  BY <1>1, <1>2, OccursIs DEF At
  <2>2. Cardinality(At(s, s[i]) \ {i}) = Cardinality(At(s, s[i])) - 1  BY <2>1, FS_RemoveElement
  <2>3. PICK x, y, z : x = Occurs(r, s[i]) /\ y = Cardinality(At(s, s[i]) \ {i}) /\ z = Occurs(s, s[i])
    OBVIOUS
  <2>4. x \in Nat /\ z \in Nat  BY <1>3, <2>3, OccursIs
  <2>5. x <= y /\ y = z - 1  BY <1>10, <2>2, <2>3 DEF Occurs
  <2>6. QED  BY <2>3, <2>4, <2>5
<1>13. QED  BY <1>1, <1>3, <1>6, <1>7, <1>8, <1>9, <1>11, <1>12

\* What the sweep of the list s with the timeouts ts has become after k turns: k
\* entries were looked at; those that are left were there, with their timeouts,
\* and those that have not expired are left.
SweptFrom(w, S, s, ts, k) ==
  /\ w \in [i : Nat \ {0}, items : Seq(S), timeouts : Seq(Nat)]
  /\ Len(w.timeouts) = Len(w.items) /\ w.i + Len(s) = k + 1 + Len(w.items)
  /\ \A j \in 1 .. Len(w.items) : \E m \in 1 .. Len(s) : w.items[j] = s[m] /\ w.timeouts[j] = ts[m]
  /\ \A m \in 1 .. Len(s) : ~Expired(ts[m]) =>
       \E j \in 1 .. Len(w.items) : w.items[j] = s[m] /\ w.timeouts[j] = ts[m]
  /\ \A x : Once(s, x) => Once(w.items, x)
  /\ \A x : Occurs(w.items, x) <= Occurs(s, x)

\* One turn of the loops of cs_thread_check_auth_timeouts keeps the list and its
\* timeouts together.
LEMMA SweepTurn ==
  ASSUME NEW S, NEW s \in Seq(S), NEW ts \in Seq(Nat), NEW k \in Nat, k < Len(s),
         NEW w, SweptFrom(w, S, s, ts, k)
  PROVE  SweptFrom(SweepOne(w), S, s, ts, k + 1)
<1>1. PICK i \in Nat \ {0}, q \in Seq(S), qt \in Seq(Nat) :
        w = [i |-> i, items |-> q, timeouts |-> qt]
  BY DEF SweptFrom
<1>2. PICK n \in Nat, l \in Nat : n = Len(s) /\ l = Len(q)  BY LenProperties
<1>3. Len(qt) = l /\ i + n = k + 1 + l  BY <1>1, <1>2 DEF SweptFrom
<1>4. i \in 1 .. l  BY <1>2, <1>3
<1>5. /\ \A j \in 1 .. l : \E m \in 1 .. n : q[j] = s[m] /\ qt[j] = ts[m]
      /\ \A m \in 1 .. n : ~Expired(ts[m]) => \E j \in 1 .. l : q[j] = s[m] /\ qt[j] = ts[m]
      /\ \A x : Once(s, x) => Once(q, x)
      /\ \A x : Occurs(q, x) <= Occurs(s, x)
  BY <1>1, <1>2, ZenonT(60) DEF SweptFrom
<1>6. CASE Expired(qt[i])
  <2>1. PICK r, rt : r = PopSwap(q, i) /\ rt = PopSwap(qt, i)  OBVIOUS
  <2>2. SweepOne(w) = [i |-> i, items |-> r, timeouts |-> rt]  BY <1>1, <1>6, <2>1 DEF SweepOne
  <2>3. r \in Seq(S) /\ Len(r) = l - 1 /\ \A j \in 1 .. l - 1 : r[j] = q[Moved(l, i, j)]
    <3>1. i \in 1 .. Len(q)  BY <1>2, <1>4
    <3>2. /\ r \in Seq(S) /\ Len(r) = Len(q) - 1
          /\ \A j \in 1 .. Len(q) - 1 : r[j] = q[Moved(Len(q), i, j)]
      <4>1. r = PopSwap(q, i)  BY <2>1
      <4>2. QED  BY <3>1, <4>1, PopSwapIs
    <3>3. QED  BY <1>2, <3>2
  <2>4. rt \in Seq(Nat) /\ Len(rt) = l - 1 /\ \A j \in 1 .. l - 1 : rt[j] = qt[Moved(l, i, j)]
    <3>1. i \in 1 .. Len(qt)  BY <1>3, <1>4
    <3>2. /\ rt \in Seq(Nat) /\ Len(rt) = Len(qt) - 1
          /\ \A j \in 1 .. Len(qt) - 1 : rt[j] = qt[Moved(Len(qt), i, j)]
      <4>1. rt = PopSwap(qt, i)  BY <2>1
      <4>2. PICK N : N = Nat  OBVIOUS
      <4>3. qt \in Seq(N)  BY <4>2
      <4>4. /\ rt \in Seq(N) /\ Len(rt) = Len(qt) - 1
            /\ \A j \in 1 .. Len(qt) - 1 : rt[j] = qt[Moved(Len(qt), i, j)]
        <5>1. PICK z : z = qt  OBVIOUS
        <5>2. z \in Seq(N) /\ i \in 1 .. Len(z) /\ rt = PopSwap(z, i)  BY <3>1, <4>1, <4>3, <5>1
        <5>3. /\ rt \in Seq(N) /\ Len(rt) = Len(z) - 1
              /\ \A j \in 1 .. Len(z) - 1 : rt[j] = z[Moved(Len(z), i, j)]
          BY <5>2, PopSwapIs
        <5>4. QED  BY <5>1, <5>3
      <4>5. QED  BY <4>2, <4>4
    <3>3. QED  BY <1>3, <3>2
  <2>5. /\ \A j \in 1 .. l - 1 : Moved(l, i, j) \in 1 .. l /\ Moved(l, i, j) # i
        /\ \A m \in 1 .. l : m # i => \E j \in 1 .. l - 1 : Moved(l, i, j) = m
    BY <1>4, MovedIs
  <2>6. \A x : (Once(q, x) => Once(r, x)) /\ Occurs(r, x) <= Occurs(q, x)
    BY <1>2, <1>4, <2>1, PopSwapped
  <2>7. \A x : Once(s, x) => Once(r, x)  BY <1>5, <2>6
  <2>8. ASSUME NEW x PROVE Occurs(r, x) <= Occurs(s, x)
    <3>1. Occurs(r, x) \in Nat /\ Occurs(q, x) \in Nat /\ Occurs(s, x) \in Nat  BY <2>3, OccursIs
    <3>2. Occurs(r, x) <= Occurs(q, x) /\ Occurs(q, x) <= Occurs(s, x)  BY <1>5, <2>6
    <3>3. QED  BY <3>1, <3>2
  <2>9. \A j \in 1 .. l - 1 : \E m \in 1 .. n : r[j] = s[m] /\ rt[j] = ts[m]
    <3> SUFFICES ASSUME NEW j \in 1 .. l - 1
                 PROVE  \E m \in 1 .. n : r[j] = s[m] /\ rt[j] = ts[m]
      OBVIOUS
    <3>1. PICK h \in 1 .. l : h = Moved(l, i, j)  BY <2>5
    <3>2. PICK m \in 1 .. n : q[h] = s[m] /\ qt[h] = ts[m]  BY <1>5
    <3>3. r[j] = q[h] /\ rt[j] = qt[h]  BY <2>3, <2>4, <3>1
    <3>4. QED  BY <3>2, <3>3
  <2>10. ASSUME NEW m \in 1 .. n, ~Expired(ts[m])
         PROVE  \E j \in 1 .. l - 1 : r[j] = s[m] /\ rt[j] = ts[m]
    <3>1. PICK h \in 1 .. l : q[h] = s[m] /\ qt[h] = ts[m]  BY <1>5, <2>10
    <3>2. h # i  BY <1>6, <2>10, <3>1
    <3>3. PICK j \in 1 .. l - 1 : Moved(l, i, j) = h  BY <2>5, <3>2
    <3>4. QED  BY <2>3, <2>4, <3>1, <3>3
  <2>11. Len(rt) = Len(r) /\ i + n = (k + 1) + 1 + Len(r)
    <3>1. Len(r) = l - 1 /\ Len(rt) = l - 1  BY <2>3, <2>4
    <3>2. QED  BY <1>3, <3>1
  <2>12. PICK v : v = [i |-> i, items |-> r, timeouts |-> rt]  OBVIOUS
  <2>13. v.i = i /\ v.items = r /\ v.timeouts = rt
         /\ v \in [i : Nat \ {0}, items : Seq(S), timeouts : Seq(Nat)]
    BY <2>3, <2>4, <2>12
  <2>14. SweptFrom(v, S, s, ts, k + 1)
    <3>1. l - 1 = Len(r)  BY <2>3
    <3>2. \A j \in 1 .. Len(r) : \E m \in 1 .. n : r[j] = s[m] /\ rt[j] = ts[m]  BY <2>9, <3>1
    <3>3. \A m \in 1 .. n : ~Expired(ts[m]) => \E j \in 1 .. Len(r) : r[j] = s[m] /\ rt[j] = ts[m]
      BY <2>10, <3>1
    <3>4. n = Len(s)  BY <1>2
    <3>5. QED  BY <2>7, <2>8, <2>11, <2>13, <3>2, <3>3, <3>4 DEF SweptFrom
  <2>15. QED  BY <2>2, <2>12, <2>14
<1>7. CASE ~Expired(qt[i])
  <2>1. PICK v : v = [i |-> i + 1, items |-> q, timeouts |-> qt]  OBVIOUS
  <2>2. SweepOne(w) = v  BY <1>1, <1>7, <2>1, SMTT(30) DEF SweepOne
  <2>3. v.i = i + 1 /\ v.items = q /\ v.timeouts = qt
        /\ v \in [i : Nat \ {0}, items : Seq(S), timeouts : Seq(Nat)]
    BY <2>1
  <2>4. Len(qt) = Len(q) /\ i + 1 + n = (k + 1) + 1 + Len(q)
    <3>1. Len(q) = l  BY <1>2
    <3>2. QED  BY <1>3, <3>1
  <2>5. SweptFrom(v, S, s, ts, k + 1)  BY <1>2, <1>5, <2>3, <2>4 DEF SweptFrom
  <2>6. QED  BY <2>2, <2>5
<1>8. QED  BY <1>6, <1>7

\* A loop of n turns has a sequence of states: by the least n without one.
LEMMA SweepRuns ==
  ASSUME NEW base, NEW n \in Nat
  PROVE  \E f : f = [k \in 0 .. n |-> IF k = 0 THEN base ELSE SweepOne(f[k - 1])]
<1> DEFINE Runs(m) == \E f : f = [k \in 0 .. m |-> IF k = 0 THEN base ELSE SweepOne(f[k - 1])]
<1>1. Runs(0)
  <2>1. PICK f : f = [k \in 0 .. 0 |-> base]  OBVIOUS
  <2>2. f = [k \in 0 .. 0 |-> IF k = 0 THEN base ELSE SweepOne(f[k - 1])]
    <3>1. \A k \in 0 .. 0 : base = IF k = 0 THEN base ELSE SweepOne(f[k - 1])  OBVIOUS
    <3>2. QED  BY <2>1, <3>1
  <2>3. QED  BY <2>2
<1>2. ASSUME NEW m \in Nat, Runs(m) PROVE Runs(m + 1)
  <2>1. PICK f : f = [k \in 0 .. m |-> IF k = 0 THEN base ELSE SweepOne(f[k - 1])]  BY <1>2
  <2>2. PICK g : g = [k \in 0 .. m + 1 |-> IF k = 0 THEN base ELSE SweepOne(f[k - 1])]  OBVIOUS
  <2>3. \A k \in 0 .. m : g[k] = f[k]
    <3> SUFFICES ASSUME NEW k \in 0 .. m PROVE g[k] = f[k]  OBVIOUS
    <3>1. k \in 0 .. m + 1  OBVIOUS
    <3>2. g[k] = IF k = 0 THEN base ELSE SweepOne(f[k - 1])  BY <2>2, <3>1
    <3>3. f[k] = IF k = 0 THEN base ELSE SweepOne(f[k - 1])  BY <2>1
    <3>4. QED  BY <3>2, <3>3
  <2>4. \A k \in 0 .. m + 1 : k # 0 => f[k - 1] = g[k - 1]
    <3> SUFFICES ASSUME NEW k \in 0 .. m + 1, k # 0 PROVE f[k - 1] = g[k - 1]  OBVIOUS
    <3>1. k - 1 \in 0 .. m  OBVIOUS
    <3>2. QED  BY <2>3, <3>1
  <2>5. \A k \in 0 .. m + 1 : (IF k = 0 THEN base ELSE SweepOne(f[k - 1]))
                              = IF k = 0 THEN base ELSE SweepOne(g[k - 1])
    BY <2>4, Zenon
  <2>6. g = [k \in 0 .. m + 1 |-> IF k = 0 THEN base ELSE SweepOne(g[k - 1])]  BY <2>2, <2>5
  <2>7. QED  BY <2>6
<1>3. PICK T : T = {m \in Nat : ~Runs(m)}  OBVIOUS
<1>4. ASSUME T # {} PROVE FALSE
  <2>1. T \subseteq Nat  BY <1>3
  <2>2. PICK m \in T : \A y \in T : m <= y  BY <1>4, <2>1, LeastElement
  <2>3. m \in Nat /\ ~Runs(m)  BY <1>3
  <2>4. m # 0  BY <1>1, <2>3
  <2>5. PICK h \in Nat : m = h + 1  BY <2>3, <2>4
  <2>6. h \notin T  BY <2>2, <2>5
  <2>7. Runs(h)  BY <1>3, <2>6
  <2>8. QED  BY <1>2, <2>3, <2>5, <2>7
<1>5. n \notin T  BY <1>4
<1>6. QED  BY <1>3, <1>5

\* cs_thread_check_auth_timeouts: what is left of a list and its timeouts.
LEMMA SweepLeaves ==
  ASSUME NEW S, NEW s \in Seq(S), NEW ts \in Seq(Nat), Len(ts) = Len(s)
  PROVE  \E w : w = Sweep(s, ts) /\ SweptFrom(w, S, s, ts, Len(s))
<1>1. PICK n \in Nat : n = Len(s) /\ n = Len(ts)  BY LenProperties
<1>2. PICK base : base = [i |-> 1, items |-> s, timeouts |-> ts]  OBVIOUS
<1>3. PICK f : f = CHOOSE g : g = [k \in 0 .. n |-> IF k = 0 THEN base ELSE SweepOne(g[k - 1])]
  OBVIOUS
<1>4. f = [k \in 0 .. n |-> IF k = 0 THEN base ELSE SweepOne(f[k - 1])]
  <2>1. \E g : g = [k \in 0 .. n |-> IF k = 0 THEN base ELSE SweepOne(g[k - 1])]  BY <1>1, SweepRuns
  <2>2. QED  BY <1>3, <2>1, Zenon
<1>5. Sweep(s, ts) = f[n]  BY <1>1, <1>2, <1>3, Zenon DEF Sweep
<1>6. f[0] = base /\ \A k \in 0 .. n : k # 0 => f[k] = SweepOne(f[k - 1])
  <2>1. \A k \in 0 .. n : f[k] = IF k = 0 THEN base ELSE SweepOne(f[k - 1])  BY <1>4
  <2>2. 0 \in 0 .. n  BY <1>1
  <2>3. QED  BY <2>1, <2>2, Zenon
<1>7. SweptFrom(base, S, s, ts, 0)
  <2>1. base.i = 1 /\ base.items = s /\ base.timeouts = ts
        /\ base \in [i : Nat \ {0}, items : Seq(S), timeouts : Seq(Nat)]
    BY <1>2
  <2>2. \A x : Occurs(s, x) <= Occurs(s, x)
    <3> SUFFICES ASSUME NEW x PROVE Occurs(s, x) <= Occurs(s, x)  OBVIOUS
    <3>1. Occurs(s, x) \in Nat  BY OccursIs
    <3>2. QED  BY <3>1
  <2>3. 1 + n = 0 + 1 + n  BY <1>1
  <2>4. QED  BY <1>1, <2>1, <2>2, <2>3 DEF SweptFrom
<1>8. PICK T : T = {k \in 0 .. n : ~SweptFrom(f[k], S, s, ts, k)}  OBVIOUS
<1>9. ASSUME T # {} PROVE FALSE
  <2>1. T \subseteq Nat  BY <1>1, <1>8
  <2>2. PICK m \in T : \A y \in T : m <= y  BY <1>9, <2>1, LeastElement
  <2>3. m \in 0 .. n /\ ~SweptFrom(f[m], S, s, ts, m)  BY <1>8
  <2>4. m # 0  BY <1>6, <1>7, <2>3
  <2>5. PICK h \in Nat : m = h + 1 /\ h \in 0 .. n /\ h < n  BY <1>1, <2>3, <2>4
  <2>6. h \notin T  BY <2>2, <2>5
  <2>7. SweptFrom(f[h], S, s, ts, h)  BY <1>8, <2>5, <2>6
  <2>8. f[m] = SweepOne(f[h])
    <3>1. m - 1 = h  BY <2>5
    <3>2. QED  BY <1>6, <2>3, <2>4, <3>1
  <2>9. SweptFrom(SweepOne(f[h]), S, s, ts, h + 1)
    <3>1. PICK v : v = f[h]  OBVIOUS
    <3>2. SweptFrom(v, S, s, ts, h)  BY <2>7, <3>1
    <3>3. SweptFrom(SweepOne(v), S, s, ts, h + 1)  BY <1>1, <2>5, <3>2, SweepTurn
    <3>4. QED  BY <3>1, <3>3
  <2>10. QED  BY <2>3, <2>5, <2>8, <2>9
<1>10. n \in 0 .. n /\ n \notin T  BY <1>1, <1>9
<1>11. SweptFrom(f[n], S, s, ts, n)  BY <1>8, <1>10
<1>12. QED  BY <1>1, <1>5, <1>11

-----------------------------------------------------------------------------
(* Looking for an entry.                                                   *)

\* The loops over clients, awaiting and auths that stop at the first match.
LEMMA FirstOf ==
  ASSUME NEW S, NEW s \in Seq(S), NEW x, NEW I, I = {k \in 1 .. Len(s) : s[k] = x},
         NEW i, i = IF I # {} THEN Min(I) ELSE 0
  PROVE  /\ i = 0 => x \notin ToSet(s)
         /\ i # 0 => i \in 1 .. Len(s) /\ s[i] = x
<1>1. I \subseteq Nat /\ 0 \notin I  OBVIOUS
<1>2. I # {} => i \in I  BY <1>1, LeastElement
<1>3. QED  BY <1>1, <1>2, Members

-----------------------------------------------------------------------------
(* What steps leave alone.                                                 *)

\* No object is freed or allocated, and what the lists are about stays.
ObjectsKept ==
  /\ object' \in [Objects -> CharSelectClients \cup {None}]
  /\ \A o \in Objects : object'[o] # None <=> object[o] # None
  /\ \A o \in Live : /\ object'[o].authed = object[o].authed
                     /\ object'[o].accountId = object[o].accountId
                     /\ object'[o].until = object[o].until

\* A client is written to, in fields that the lists are not about.
LEMMA KeptByWrite ==
  ASSUME TypeInv, NEW o \in Live, NEW c \in CharSelectClients,
         c.authed = object[o].authed, c.accountId = object[o].accountId, c.until = object[o].until,
         object' = [object EXCEPT ![o] = c]
  PROVE  ObjectsKept
<1>1. o \in Objects /\ object \in [Objects -> CharSelectClients \cup {None}]  BY DEF TypeInv, Live
<1>2. object'[o] = c /\ \A x \in Objects : x # o => object'[x] = object[x]  BY <1>1
<1>3. object' \in [Objects -> CharSelectClients \cup {None}]  BY <1>1
<1>4. c # None  BY NullAssumption
<1>5. QED  BY <1>2, <1>3, <1>4 DEF ObjectsKept, Live

\* A client that is dropped is marked, no more: cs_thread_drop_client.
LEMMA KeptByDrop ==
  ASSUME TypeInv, NEW n \in Nat, NEW o, DropAfter(n, o)
  PROVE  ObjectsKept /\ failures' \in 0 .. MaxFailures
<1>1. PICK how \in {"pushed", "failed"}, victim \in IF o \in Live THEN {o} ELSE Live \cup {None} :
        /\ object' = IF victim = None THEN object
                     ELSE [object EXCEPT ![victim].drop = IF @ = "pushed" THEN @ ELSE how]
        /\ Spend(n + IF how = "failed" THEN 1 ELSE 0)
  BY DEF DropAfter
<1>2. object \in [Objects -> CharSelectClients \cup {None}]  BY DEF TypeInv
<1>3. failures' \in 0 .. MaxFailures
  <2>1. failures \in 0 .. MaxFailures /\ MaxFailures \in Nat  BY CharSelectAssumption DEF TypeInv
  <2>2. PICK m \in Nat : m = n + IF how = "failed" THEN 1 ELSE 0  OBVIOUS
  <2>3. QED  BY <1>1, <2>1, <2>2 DEF Spend
<1>4. CASE victim = None
  BY <1>1, <1>2, <1>3, <1>4 DEF ObjectsKept
<1>5. CASE victim # None
  <2>1. victim \in Live  BY <1>5
  <2>2. object[victim] \in CharSelectClients  BY <1>2, <2>1 DEF Live
  <2>3. PICK c : c = [object[victim] EXCEPT !.drop = IF @ = "pushed" THEN @ ELSE how]  OBVIOUS
  <2>4. c \in CharSelectClients
    BY <2>2, <2>3 DEF CharSelectClients
  <2>5. c.authed = object[victim].authed /\ c.accountId = object[victim].accountId
        /\ c.until = object[victim].until
    BY <2>2, <2>3 DEF CharSelectClients
  <2>6. object' = [object EXCEPT ![victim] = c]  BY <1>1, <1>5, <2>3
  <2>7. ObjectsKept  BY <2>1, <2>4, <2>5, <2>6, KeptByWrite
  <2>8. QED  BY <1>3, <2>7
<1>6. QED  BY <1>4, <1>5

\* The clients are in the lists as before, and were marked or renamed at most.
LEMMA ClientsKept ==
  ASSUME TypeInv, ClientInv, ObjectsKept,
         UNCHANGED <<clients, awaiting, awaitingTimeouts, again, granted>>
  PROVE  ClientInv'
<1>1. Live' = Live  BY DEF ObjectsKept, Live
<1>2. GrantedAccounts' = GrantedAccounts  BY DEF GrantedAccounts
<1>3. AccountInv'  BY <1>1, <1>2 DEF ClientInv, AccountInv, ObjectsKept
<1>4. OnceInv'  BY DEF ClientInv, OnceInv
<1>5. WaitInv'  BY <1>1 DEF ClientInv, WaitInv, ObjectsKept
<1>6. ListedInv'  BY <1>1 DEF ClientInv, ListedInv, ObjectsKept
<1>7. ListedAreLive'  BY <1>1 DEF ClientInv, ListedAreLive
<1>8. QED  BY <1>3, <1>4, <1>5, <1>6, <1>7 DEF ClientInv

\* Most steps leave the lists and the authorisations alone.
LEMMA Frame ==
  ASSUME IInv, ObjectsKept, UNCHANGED <<lists, granted, admitted, again>>,
         now' \in 0 .. MaxTime, failures' \in 0 .. MaxFailures,
         dbQueue' \in Seq(Queries), batch' \in Seq(Queries), csQueue' \in Seq(Answers),
         toMain' \subseteq Queries, characters' \subseteq Rows, QueryInv'
  PROVE  IInv'
<1>1. clients' = clients /\ awaiting' = awaiting /\ awaitingTimeouts' = awaitingTimeouts
      /\ auths' = auths /\ authTimeouts' = authTimeouts
      /\ granted' = granted /\ admitted' = admitted /\ again' = again
  BY DEF lists
<1>2. TypeInv'  BY <1>1 DEF IInv, TypeInv, ObjectsKept
<1>3. GrantInv'
  <2>1. GrantInv  BY DEF IInv
  <2>2. QED  BY <1>1, <2>1 DEF GrantInv
<1>4. ClientInv'  BY <1>1, ClientsKept DEF IInv
<1>5. QED  BY <1>2, <1>3, <1>4 DEF IInv

\* Nothing is written to an object.
LEMMA KeptBySame ==
  ASSUME TypeInv, object' = object
  PROVE  ObjectsKept
  BY DEF TypeInv, ObjectsKept

\* A query is pushed to the database thread (db_queue_query).
LEMMA QueryPushed ==
  ASSUME IInv, NEW q \in Queries, IsWrite(q) => q.account \in GrantedAccounts /\ q.name \in Names,
         dbQueue' = Append(dbQueue, q), UNCHANGED <<batch, toMain, characters, granted>>
  PROVE  dbQueue' \in Seq(Queries) /\ QueryInv'
<1>1. dbQueue \in Seq(Queries) /\ QueryInv  BY DEF IInv, TypeInv
<1>2. PICK t : t = Append(dbQueue, q)  OBVIOUS
<1>3. t \in Seq(Queries) /\ ToSet(t) = ToSet(dbQueue) \cup {q}
  <2>1. Append(dbQueue, q) \in Seq(Queries) /\ ToSet(Append(dbQueue, q)) = ToSet(dbQueue) \cup {q}
    BY <1>1, Pushed, ZenonT(60)
  <2>2. QED  BY <1>2, <2>1
<1>4. dbQueue' = t  BY <1>2
<1>5. ToSet(dbQueue') = ToSet(dbQueue) \cup {q}
  <2>1. ToSet(dbQueue') = ToSet(t)  BY <1>4
  <2>2. QED  BY <1>3, <2>1
<1>6. GrantedAccounts' = GrantedAccounts  BY DEF GrantedAccounts
<1>7. ToSet(batch') = ToSet(batch)  OBVIOUS
<1>8. QueryInv'  BY <1>1, <1>5, <1>6, <1>7 DEF QueryInv
<1>9. QED  BY <1>3, <1>4, <1>8

\* No query is pushed, taken or run.
LEMMA QueriesSame ==
  ASSUME IInv, UNCHANGED <<dbQueue, batch, toMain, characters, granted>>
  PROVE  dbQueue' \in Seq(Queries) /\ QueryInv'
<1>1. dbQueue \in Seq(Queries) /\ QueryInv  BY DEF IInv, TypeInv
<1>2. GrantedAccounts' = GrantedAccounts  BY DEF GrantedAccounts
<1>3. QED  BY <1>1, <1>2 DEF QueryInv

-----------------------------------------------------------------------------
(* Requests, and the database thread.                                      *)

\* A packet of an authorized client asks for something: OP_CS_NameApproval,
\* OP_CS_CreateCharacter, OP_CS_DeleteCharacter.
LEMMA RequestInv ==
  ASSUME IInv, NEW o \in Live, object[o].authed, NEW zop \in Zops, NEW name \in Names,
         Request(o, zop, name)
  PROVE  IInv'
<1>1. PICK q : q = Query(zop, o, object[o].accountId, name)  OBVIOUS
<1>2. object[o] \in CharSelectClients /\ o \in Objects  BY DEF IInv, TypeInv, Live
<1>3. q \in Queries
  BY <1>1, <1>2 DEF Query, Queries, CharSelectClients, MaybeAccount
<1>4. q.account \in GrantedAccounts /\ q.name \in Names
  BY <1>1 DEF Query, IInv, ClientInv, AccountInv
<1>5. /\ UNCHANGED <<lists, granted, admitted, again>> /\ UNCHANGED <<batch, toMain, characters, granted>>
      /\ now' = now /\ batch' = batch /\ csQueue' = csQueue /\ toMain' = toMain /\ characters' = characters
  BY DEF Request
<1>6. CASE dbQueue' = Append(dbQueue, q) /\ UNCHANGED <<object, failures>>
  <2>1. dbQueue' \in Seq(Queries) /\ QueryInv'  BY <1>3, <1>4, <1>5, <1>6, QueryPushed
  <2>2. ObjectsKept  BY <1>6, KeptBySame DEF IInv
  <2>3. now' \in 0 .. MaxTime /\ failures' \in 0 .. MaxFailures /\ batch' \in Seq(Queries)
        /\ csQueue' \in Seq(Answers) /\ toMain' \subseteq Queries /\ characters' \subseteq Rows
    BY <1>5, <1>6 DEF IInv, TypeInv
  <2>4. QED  BY <1>5, <2>1, <2>2, <2>3, Frame
<1>7. CASE DropAfter(1, o) /\ UNCHANGED dbQueue
  <2>1. dbQueue' \in Seq(Queries) /\ QueryInv'  BY <1>5, <1>7, QueriesSame
  <2>2. ObjectsKept /\ failures' \in 0 .. MaxFailures  BY <1>7, KeptByDrop DEF IInv
  <2>3. now' \in 0 .. MaxTime /\ batch' \in Seq(Queries)
        /\ csQueue' \in Seq(Answers) /\ toMain' \subseteq Queries /\ characters' \subseteq Rows
    BY <1>5 DEF IInv, TypeInv
  <2>4. QED  BY <1>5, <2>1, <2>2, <2>3, Frame
<1>8. QED  BY <1>1, <1>6, <1>7 DEF Request, Ask

\* OP_CS_Enter asks the main thread for a zone-in.
LEMMA OpEnterInv ==
  ASSUME IInv, NEW o \in Live, NEW name \in Names, OpEnter(o, name)
  PROVE  IInv'
<1>1. PICK q : q = Query("Zone", o, object[o].accountId, name)  OBVIOUS
<1>2. object[o] \in CharSelectClients /\ o \in Objects /\ object[o].authed
  BY DEF IInv, TypeInv, Live, OpEnter
<1>3. q \in Queries
  BY <1>1, <1>2 DEF Query, Queries, CharSelectClients, MaybeAccount, Zops
<1>4. q.account \in GrantedAccounts
  BY <1>1, <1>2 DEF Query, IInv, ClientInv, AccountInv
<1>5. /\ UNCHANGED <<lists, granted, admitted, again>>
      /\ now' = now /\ dbQueue' = dbQueue /\ batch' = batch /\ csQueue' = csQueue
      /\ characters' = characters /\ granted' = granted
  BY DEF OpEnter, db
<1>6. now' \in 0 .. MaxTime /\ batch' \in Seq(Queries) /\ dbQueue' \in Seq(Queries)
      /\ csQueue' \in Seq(Answers) /\ characters' \subseteq Rows
  BY <1>5 DEF IInv, TypeInv
<1>7. QueryInv /\ GrantedAccounts' = GrantedAccounts  BY <1>5 DEF IInv, GrantedAccounts
<1>8. CASE toMain' = toMain \cup {q} /\ object' = [object EXCEPT ![o].isZoning = TRUE] /\ failures' = failures
  <2>1. QueryInv'  BY <1>4, <1>5, <1>7, <1>8 DEF QueryInv
  <2>2. PICK c : c = [object[o] EXCEPT !.isZoning = TRUE]  OBVIOUS
  <2>3. c \in CharSelectClients /\ c.authed = object[o].authed /\ c.accountId = object[o].accountId
        /\ c.until = object[o].until
    BY <1>2, <2>2 DEF CharSelectClients
  <2>4. object' = [object EXCEPT ![o] = c]  BY <1>8, <2>2
  <2>5. ObjectsKept  BY <2>3, <2>4, KeptByWrite DEF IInv
  <2>6. toMain' \subseteq Queries /\ failures' \in 0 .. MaxFailures  BY <1>3, <1>8 DEF IInv, TypeInv
  <2>7. QED  BY <1>5, <1>6, <2>1, <2>5, <2>6, Frame
<1>9. CASE DropAfter(1, o) /\ toMain' = toMain
  <2>1. QueryInv'  BY <1>5, <1>7, <1>9 DEF QueryInv
  <2>2. ObjectsKept /\ failures' \in 0 .. MaxFailures  BY <1>9, KeptByDrop DEF IInv
  <2>3. toMain' \subseteq Queries  BY <1>9 DEF IInv, TypeInv
  <2>4. QED  BY <1>5, <1>6, <2>1, <2>2, <2>3, Frame
<1>10. QED  BY <1>1, <1>8, <1>9 DEF OpEnter

\* A packet that is refused drops its client.
LEMMA OpRefusedInv ==
  ASSUME IInv, NEW o, OpRefused(o)
  PROVE  IInv'
<1>1. /\ UNCHANGED <<lists, granted, admitted, again>> /\ UNCHANGED <<dbQueue, batch, toMain, characters, granted>>
      /\ now' = now /\ batch' = batch /\ csQueue' = csQueue /\ toMain' = toMain /\ characters' = characters
  BY DEF OpRefused, db
<1>2. PICK n \in Nat : n = 0  OBVIOUS
<1>3. DropAfter(n, o)  BY <1>2 DEF OpRefused, Drop
<1>4. ObjectsKept /\ failures' \in 0 .. MaxFailures  BY <1>3, KeptByDrop DEF IInv
<1>5. dbQueue' \in Seq(Queries) /\ QueryInv'  BY <1>1, QueriesSame
<1>6. now' \in 0 .. MaxTime /\ batch' \in Seq(Queries)
      /\ csQueue' \in Seq(Answers) /\ toMain' \subseteq Queries /\ characters' \subseteq Rows
  BY <1>1 DEF IInv, TypeInv
<1>7. QED  BY <1>1, <1>4, <1>5, <1>6, Frame

\* Time passes.
LEMMA TickInv ==
  ASSUME IInv, Tick
  PROVE  IInv'
<1>1. /\ UNCHANGED <<lists, granted, admitted, again>> /\ UNCHANGED <<dbQueue, batch, toMain, characters, granted>>
      /\ batch' = batch /\ csQueue' = csQueue /\ toMain' = toMain /\ characters' = characters
      /\ failures' = failures /\ object' = object
  BY DEF Tick, db
<1>2. ObjectsKept  BY <1>1, KeptBySame DEF IInv
<1>3. dbQueue' \in Seq(Queries) /\ QueryInv'  BY <1>1, QueriesSame
<1>4. now' \in 0 .. MaxTime  BY CharSelectAssumption DEF Tick, IInv, TypeInv
<1>5. batch' \in Seq(Queries) /\ failures' \in 0 .. MaxFailures
      /\ csQueue' \in Seq(Answers) /\ toMain' \subseteq Queries /\ characters' \subseteq Rows
  BY <1>1 DEF IInv, TypeInv
<1>6. QED  BY <1>1, <1>2, <1>3, <1>4, <1>5, Frame

\* The database thread takes all the queries that are queued.
LEMMA DbDrainInv ==
  ASSUME IInv, DbDrain
  PROVE  IInv'
<1>1. /\ UNCHANGED <<lists, granted, admitted, again>>
      /\ now' = now /\ batch' = dbQueue /\ dbQueue' = <<>> /\ csQueue' = csQueue /\ toMain' = toMain
      /\ characters' = characters /\ failures' = failures /\ object' = object /\ granted' = granted
  BY DEF DbDrain
<1>2. ObjectsKept  BY <1>1, KeptBySame DEF IInv
<1>3. QueryInv'
  <2>1. QueryInv /\ GrantedAccounts' = GrantedAccounts  BY <1>1 DEF IInv, GrantedAccounts
  <2>2. ToSet(batch') = ToSet(dbQueue) /\ ToSet(dbQueue') = {}  BY <1>1 DEF ToSet
  <2>3. QED  BY <1>1, <2>1, <2>2 DEF QueryInv
<1>4. now' \in 0 .. MaxTime /\ batch' \in Seq(Queries) /\ dbQueue' \in Seq(Queries)
      /\ failures' \in 0 .. MaxFailures
      /\ csQueue' \in Seq(Answers) /\ toMain' \subseteq Queries /\ characters' \subseteq Rows
  BY <1>1 DEF IInv, TypeInv
<1>5. QED  BY <1>1, <1>2, <1>3, <1>4, Frame

\* The query that is run next is one of those drained.
LEMMA NextInBatchIs ==
  ASSUME TypeInv, batch # <<>>
  PROVE  NextInBatch \in 1 .. Len(batch)
<1>1. PICK n \in Nat : n = Len(batch) /\ DOMAIN batch = 1 .. n  BY Members DEF TypeInv
<1>2. PICK W : W = {k \in DOMAIN batch : IsWrite(batch[k])}  OBVIOUS
<1>3. W \subseteq Nat /\ W \subseteq 1 .. n  BY <1>1, <1>2
<1>4. W # {} => Min(W) \in W  BY <1>3, LeastElement
<1>5. n # 0  BY <1>1 DEF TypeInv
<1>6. 1 \in 1 .. n  BY <1>1, <1>5
<1>7. NextInBatch = IF W = {} THEN 1 ELSE Min(W)  BY <1>2 DEF NextInBatch
<1>8. QED  BY <1>1, <1>3, <1>4, <1>6, <1>7

\* An answer names the client that asked.
LEMMA AnswerIs ==
  ASSUME NEW q \in Queries, NEW hadError \in BOOLEAN
  PROVE  Answer(q, hadError) \in Answers
<1>1. PICK b : b = (~hadError /\ q.zop = "NameAvailable" /\ \A row \in characters : row.name # q.name)
  OBVIOUS
<1>2. b \in BOOLEAN  BY <1>1
<1>3. q.zop \in Zops /\ q.client \in Objects /\ q.account \in MaybeAccount  BY DEF Queries
<1>4. Answer(q, hadError) = [zop |-> q.zop, client |-> q.client, account |-> q.account,
                             hadError |-> hadError, isNameAvailable |-> b]
  BY <1>1 DEF Answer
<1>5. QED  BY <1>2, <1>3, <1>4 DEF Answers

\* What a write does to the character table is done for the query's account.
LEMMA AfterWriteIs ==
  ASSUME NEW q \in Queries, characters \subseteq Rows, IsWrite(q) => q.name \in Names
  PROVE  /\ AfterWrite(q) \subseteq Rows
         /\ \A row \in AfterWrite(q) : row \in characters \/ (IsWrite(q) /\ row.account = q.account)
<1>1. q.account \in MaybeAccount  BY DEF Queries
<1>2. PICK row : row = [account |-> q.account, name |-> q.name]  OBVIOUS
<1>3. CASE q.zop = "CharacterCreate"
  <2>1. AfterWrite(q) = characters \cup {row} /\ IsWrite(q)  BY <1>2, <1>3 DEF AfterWrite, IsWrite
  <2>2. row \in Rows /\ row.account = q.account  BY <1>1, <1>2, <2>1 DEF Rows
  <2>3. QED  BY <2>1, <2>2
<1>4. CASE q.zop = "CharacterDelete"
  <2>1. AfterWrite(q) = characters \ {row}  BY <1>2, <1>4 DEF AfterWrite
  <2>2. QED  BY <2>1
<1>5. CASE q.zop # "CharacterCreate" /\ q.zop # "CharacterDelete"
  <2>1. AfterWrite(q) = characters  BY <1>5 DEF AfterWrite
  <2>2. QED  BY <2>1
<1>6. QED  BY <1>3, <1>4, <1>5

\* The database thread runs a query and answers it, or not.
LEMMA DbExecuteInv ==
  ASSUME IInv, DbExecute
  PROVE  IInv'
<1>1. TypeInv /\ QueryInv /\ batch # <<>>  BY DEF IInv, DbExecute
<1>2. PICK i, q : i = NextInBatch /\ q = batch[i]  OBVIOUS
<1>3. i \in 1 .. Len(batch) /\ batch \in Seq(Queries)  BY <1>1, <1>2, NextInBatchIs DEF TypeInv
<1>4. q \in Queries /\ q \in ToSet(batch)
  <2>1. \A k \in 1 .. Len(batch) : batch[k] \in Queries /\ batch[k] \in ToSet(batch)  BY <1>3, Members
  <2>2. QED  BY <1>2, <1>3, <2>1
<1>5. PICK r : r = RemoveAt(batch, i)  OBVIOUS
<1>6. r \in Seq(Queries) /\ ToSet(r) \subseteq ToSet(batch)
  <2>1. PICK z : z = batch  OBVIOUS
  <2>2. z \in Seq(Queries) /\ i \in 1 .. Len(z) /\ r = RemoveAt(z, i)  BY <1>3, <1>5, <2>1
  <2>3. r \in Seq(Queries) /\ ToSet(r) \subseteq ToSet(z)  BY <2>2, Removed
  <2>4. QED  BY <2>1, <2>3
<1>7. batch' = r  BY <1>2, <1>5 DEF DbExecute
<1>8. /\ UNCHANGED <<lists, granted, admitted, again>>
      /\ now' = now /\ dbQueue' = dbQueue /\ toMain' = toMain /\ object' = object /\ granted' = granted
  BY DEF DbExecute
<1>9. ObjectsKept  BY <1>1, <1>8, KeptBySame
<1>10. IsWrite(q) => q.account \in GrantedAccounts /\ q.name \in Names  BY <1>1, <1>4 DEF QueryInv
<1>11. characters \subseteq Rows /\ csQueue \in Seq(Answers) /\ failures \in 0 .. MaxFailures
       /\ MaxFailures \in Nat
  BY <1>1, CharSelectAssumption DEF TypeInv
<1>12. /\ AfterWrite(q) \subseteq Rows
       /\ \A row \in AfterWrite(q) : row \in characters \/ (IsWrite(q) /\ row.account = q.account)
  BY <1>4, <1>10, <1>11, AfterWriteIs
<1>13. characters' \in {characters, AfterWrite(q)}
  BY <1>2 DEF DbExecute
<1>14. characters' \subseteq Rows  BY <1>11, <1>12, <1>13
<1>15. QueryInv'
  <2>1. GrantedAccounts' = GrantedAccounts  BY <1>8 DEF GrantedAccounts
  <2>2. \A row \in characters' : row.account \in GrantedAccounts  BY <1>1, <1>10, <1>12, <1>13 DEF QueryInv
  <2>3. ToSet(batch') \subseteq ToSet(batch)
    <3>1. ToSet(batch') = ToSet(r)  BY <1>7
    <3>2. QED  BY <1>6, <3>1
  <2>4. ToSet(dbQueue') = ToSet(dbQueue)  BY <1>8
  <2>5. QED  BY <1>1, <1>8, <2>1, <2>2, <2>3, <2>4 DEF QueryInv
<1>16. csQueue' \in Seq(Answers)
  <2>1. csQueue' = csQueue \/ \E e \in BOOLEAN : csQueue' = Append(csQueue, Answer(q, e))
    BY <1>2 DEF DbExecute
  <2>2. ASSUME NEW e \in BOOLEAN PROVE Append(csQueue, Answer(q, e)) \in Seq(Answers)
    <3>1. PICK a : a = Answer(q, e)  OBVIOUS
    <3>2. a \in Answers  BY <1>4, <3>1, AnswerIs
    <3>3. Append(csQueue, a) \in Seq(Answers)  BY <1>11, <3>2
    <3>4. QED  BY <3>1, <3>3
  <2>3. QED  BY <1>11, <2>1, <2>2
<1>17. failures' \in 0 .. MaxFailures
  <2>1. failures' = failures \/ Spend(1)  BY DEF DbExecute
  <2>2. QED  BY <1>11, <2>1 DEF Spend
<1>18. now' \in 0 .. MaxTime /\ dbQueue' \in Seq(Queries) /\ batch' \in Seq(Queries) /\ toMain' \subseteq Queries
  BY <1>1, <1>6, <1>7, <1>8 DEF TypeInv
<1>19. QED  BY <1>8, <1>9, <1>14, <1>15, <1>16, <1>17, <1>18, Frame

\* The main thread answers a zone-in, or not.
LEMMA MainAnswersInv ==
  ASSUME IInv, MainAnswers
  PROVE  IInv'
<1>1. TypeInv /\ QueryInv  BY DEF IInv
<1>2. PICK q \in toMain :
        /\ toMain' = toMain \ {q}
        /\ \/ /\ \E hadError \in BOOLEAN : csQueue' = Append(csQueue, Answer(q, hadError))
              /\ UNCHANGED failures
           \/ Spend(1) /\ UNCHANGED csQueue
  BY DEF MainAnswers
<1>3. /\ UNCHANGED <<lists, granted, admitted, again>>
      /\ now' = now /\ dbQueue' = dbQueue /\ batch' = batch /\ characters' = characters
      /\ object' = object /\ granted' = granted
  BY DEF MainAnswers, db
<1>4. ObjectsKept  BY <1>1, <1>3, KeptBySame
<1>5. csQueue \in Seq(Answers) /\ failures \in 0 .. MaxFailures /\ MaxFailures \in Nat /\ toMain \subseteq Queries
  BY <1>1, CharSelectAssumption DEF TypeInv
<1>6. toMain' \subseteq Queries /\ toMain' \subseteq toMain /\ q \in Queries  BY <1>2, <1>5
<1>7. csQueue' \in Seq(Answers)
  <2>1. csQueue' = csQueue \/ \E e \in BOOLEAN : csQueue' = Append(csQueue, Answer(q, e))  BY <1>2
  <2>2. ASSUME NEW e \in BOOLEAN PROVE Append(csQueue, Answer(q, e)) \in Seq(Answers)
    <3>1. PICK a : a = Answer(q, e)  OBVIOUS
    <3>2. a \in Answers  BY <1>6, <3>1, AnswerIs
    <3>3. Append(csQueue, a) \in Seq(Answers)  BY <1>5, <3>2
    <3>4. QED  BY <3>1, <3>3
  <2>3. QED  BY <1>5, <2>1, <2>2
<1>8. failures' \in 0 .. MaxFailures
  <2>1. failures' = failures \/ Spend(1)  BY <1>2
  <2>2. QED  BY <1>5, <2>1 DEF Spend
<1>9. QueryInv'
  <2>1. GrantedAccounts' = GrantedAccounts  BY <1>3 DEF GrantedAccounts
  <2>2. QED  BY <1>1, <1>3, <1>6, <2>1 DEF QueryInv
<1>10. now' \in 0 .. MaxTime /\ dbQueue' \in Seq(Queries) /\ batch' \in Seq(Queries) /\ characters' \subseteq Rows
  BY <1>1, <1>3 DEF TypeInv
<1>11. QED  BY <1>3, <1>4, <1>6, <1>7, <1>8, <1>9, <1>10, Frame

-----------------------------------------------------------------------------
(* Answers.                                                                *)

\* What the handlers of answers do: they mark clients and ask for the list.
AnswerKeeps ==
  /\ ObjectsKept /\ failures' \in 0 .. MaxFailures
  /\ dbQueue' \in Seq(Queries) /\ QueryInv'

\* isNameApproved is set or reset.
LEMMA KeptByApproval ==
  ASSUME TypeInv, NEW o \in Objects, NEW b \in BOOLEAN,
         object' = Write(o, [object[o] EXCEPT !.isNameApproved = b])
  PROVE  ObjectsKept
<1>1. CASE o \in Live
  <2>1. object[o] \in CharSelectClients  BY <1>1 DEF TypeInv, Live
  <2>2. PICK c : c = [object[o] EXCEPT !.isNameApproved = b]  OBVIOUS
  <2>3. c \in CharSelectClients /\ c.authed = object[o].authed /\ c.accountId = object[o].accountId
        /\ c.until = object[o].until
    BY <2>1, <2>2 DEF CharSelectClients
  <2>4. object' = [object EXCEPT ![o] = c]  BY <1>1, <2>2 DEF Write
  <2>5. QED  BY <1>1, <2>3, <2>4, KeptByWrite
<1>2. CASE o \notin Live
  <2>1. object' = object  BY <1>2 DEF Write
  <2>2. QED  BY <2>1, KeptBySame
<1>3. QED  BY <1>1, <1>2

\* A client that fails is dropped, with no query.
LEMMA DropAnswer ==
  ASSUME IInv, NEW n \in Nat, NEW o, DropAfter(n, o), dbQueue' = dbQueue,
         UNCHANGED <<batch, toMain, characters, granted>>
  PROVE  AnswerKeeps
<1>1. ObjectsKept /\ failures' \in 0 .. MaxFailures  BY KeptByDrop DEF IInv
<1>2. dbQueue' \in Seq(Queries) /\ QueryInv'  BY QueriesSame
<1>3. QED  BY <1>1, <1>2 DEF AnswerKeeps

\* Nothing is done.
LEMMA SameAnswer ==
  ASSUME IInv, object' = object, failures' = failures, dbQueue' = dbQueue,
         UNCHANGED <<batch, toMain, characters, granted>>
  PROVE  AnswerKeeps
<1>1. ObjectsKept  BY KeptBySame DEF IInv
<1>2. dbQueue' \in Seq(Queries) /\ QueryInv'  BY QueriesSame
<1>3. failures' \in 0 .. MaxFailures  BY DEF IInv, TypeInv
<1>4. QED  BY <1>1, <1>2, <1>3 DEF AnswerKeeps

\* cs_thread_trigger_send_char_info asks for what changes nothing.
LEMMA InfoQueryIs ==
  ASSUME NEW o \in Objects, NEW q \in InfoQueries(o)
  PROVE  q \in Queries /\ ~IsWrite(q)
<1>1. PICK account \in MaybeAccount : q = Query("CharacterInfo", o, account, None)
  BY DEF InfoQueries, MaybeAccount
<1>2. QED  BY <1>1 DEF Query, Queries, Zops, IsWrite

\* cs_thread_handle_db_name_available.
LEMMA AnswerNameKeeps ==
  ASSUME IInv, NEW r \in Answers, AnswerName(r), UNCHANGED <<batch, toMain, characters, granted>>
  PROVE  AnswerKeeps
<1>1. r.client \in Objects /\ r.isNameAvailable \in BOOLEAN  BY DEF Answers
<1>2. dbQueue' = dbQueue  BY DEF AnswerName
<1>3. CASE object' = Write(r.client, [object[r.client] EXCEPT !.isNameApproved = r.isNameAvailable])
           /\ failures' = failures
  <2>1. PICK o \in Objects, b \in BOOLEAN : o = r.client /\ b = r.isNameAvailable  BY <1>1
  <2>2. object' = Write(o, [object[o] EXCEPT !.isNameApproved = b])  BY <1>3, <2>1
  <2>3. ObjectsKept  BY <2>2, KeptByApproval DEF IInv
  <2>4. dbQueue' \in Seq(Queries) /\ QueryInv'  BY <1>2, QueriesSame
  <2>5. failures' \in 0 .. MaxFailures  BY <1>3 DEF IInv, TypeInv
  <2>6. QED  BY <2>3, <2>4, <2>5 DEF AnswerKeeps
<1>4. CASE DropAfter(1, r.client)
  BY <1>2, <1>4, DropAnswer
<1>5. QED  BY <1>3, <1>4 DEF AnswerName

\* cs_thread_handle_db_character_create.
LEMMA AnswerCreatedKeeps ==
  ASSUME IInv, NEW r \in Answers, AnswerCreated(r), UNCHANGED <<batch, toMain, characters, granted>>
  PROVE  AnswerKeeps
<1>1. PICK o \in Objects : o = r.client  BY DEF Answers
<1>2. failures \in 0 .. MaxFailures /\ MaxFailures \in Nat /\ TypeInv
  BY CharSelectAssumption DEF IInv, TypeInv
<1>3. CASE /\ object' = Write(o, [object[o] EXCEPT !.isNameApproved = FALSE])
           /\ dbQueue' \in IF r.hadError THEN {dbQueue} ELSE {Append(dbQueue, q) : q \in InfoQueries(o)}
           /\ failures' = failures
  <2>1. ObjectsKept
    <3>1. PICK b \in BOOLEAN : b = FALSE  OBVIOUS
    <3>2. object' = Write(o, [object[o] EXCEPT !.isNameApproved = b])  BY <1>3, <3>1
    <3>3. QED  BY <1>2, <3>2, KeptByApproval
  <2>2. dbQueue' \in Seq(Queries) /\ QueryInv'
    <3>1. CASE dbQueue' = dbQueue  BY <3>1, QueriesSame
    <3>2. CASE dbQueue' # dbQueue
      <4>1. PICK q \in InfoQueries(o) : dbQueue' = Append(dbQueue, q)  BY <1>3, <3>2
      <4>2. q \in Queries /\ ~IsWrite(q)  BY InfoQueryIs
      <4>3. QED  BY <4>1, <4>2, QueryPushed
    <3>3. QED  BY <3>1, <3>2
  <2>3. QED  BY <1>2, <1>3, <2>1, <2>2 DEF AnswerKeeps
<1>4. CASE /\ dbQueue' = dbQueue
           /\ \E how \in {"pushed", "failed"} :
                /\ object' = Write(o, [object[o] EXCEPT !.isNameApproved = FALSE,
                                        !.drop = IF @ = "pushed" THEN @ ELSE how])
                /\ Spend(IF how = "failed" THEN 2 ELSE 1)
  <2>1. PICK how \in {"pushed", "failed"} :
          /\ object' = Write(o, [object[o] EXCEPT !.isNameApproved = FALSE,
                                  !.drop = IF @ = "pushed" THEN @ ELSE how])
          /\ Spend(IF how = "failed" THEN 2 ELSE 1)
    BY <1>4
  <2>2. failures' \in 0 .. MaxFailures
    <3>1. PICK m \in Nat : m = IF how = "failed" THEN 2 ELSE 1  OBVIOUS
    <3>2. Spend(m)  BY <2>1, <3>1
    <3>3. QED  BY <1>2, <3>2 DEF Spend
  <2>3. ObjectsKept
    <3>1. CASE o \in Live
      <4>1. object[o] \in CharSelectClients  BY <1>2, <3>1 DEF TypeInv, Live
      <4>2. PICK b : b = [object[o] EXCEPT !.isNameApproved = FALSE]  OBVIOUS
      <4>3. b \in CharSelectClients /\ b.authed = object[o].authed /\ b.accountId = object[o].accountId
            /\ b.until = object[o].until
        BY <4>1, <4>2 DEF CharSelectClients
      <4>4. PICK c : c = [b EXCEPT !.drop = IF @ = "pushed" THEN @ ELSE how]  OBVIOUS
      <4>5. c \in CharSelectClients /\ c.authed = b.authed /\ c.accountId = b.accountId
            /\ c.until = b.until
        BY <4>3, <4>4 DEF CharSelectClients
      <4>6. object' = [object EXCEPT ![o] = c]  BY <2>1, <3>1, <4>2, <4>4 DEF Write
      <4>7. c.authed = object[o].authed /\ c.accountId = object[o].accountId /\ c.until = object[o].until
        BY <4>3, <4>5
      <4>8. QED  BY <1>2, <3>1, <4>5, <4>6, <4>7, KeptByWrite
    <3>2. CASE o \notin Live
      <4>1. object' = object  BY <2>1, <3>2 DEF Write
      <4>2. QED  BY <1>2, <4>1, KeptBySame
    <3>3. QED  BY <3>1, <3>2
  <2>4. dbQueue' \in Seq(Queries) /\ QueryInv'  BY <1>4, QueriesSame
  <2>5. QED  BY <2>2, <2>3, <2>4 DEF AnswerKeeps
<1>5. QED  BY <1>1, <1>3, <1>4 DEF AnswerCreated

\* cs_thread_handle_db_character_delete.
LEMMA AnswerDeletedKeeps ==
  ASSUME IInv, NEW r \in Answers, AnswerDeleted(r), UNCHANGED <<batch, toMain, characters, granted>>
  PROVE  AnswerKeeps
<1>1. PICK o \in Objects : o = r.client  BY DEF Answers
<1>2. PICK q \in InfoQueries(o) : Ask(o, q)  BY <1>1 DEF AnswerDeleted
<1>3. CASE dbQueue' = Append(dbQueue, q) /\ UNCHANGED <<object, failures>>
  <2>1. q \in Queries /\ ~IsWrite(q)  BY InfoQueryIs
  <2>2. dbQueue' \in Seq(Queries) /\ QueryInv'  BY <1>3, <2>1, QueryPushed
  <2>3. ObjectsKept  BY <1>3, KeptBySame DEF IInv
  <2>4. failures' \in 0 .. MaxFailures  BY <1>3 DEF IInv, TypeInv
  <2>5. QED  BY <2>2, <2>3, <2>4 DEF AnswerKeeps
<1>4. CASE DropAfter(1, o) /\ dbQueue' = dbQueue
  BY <1>4, DropAnswer
<1>5. QED  BY <1>2, <1>3, <1>4 DEF Ask

\* The char select thread handles an answer.
LEMMA HandleAnswerInv ==
  ASSUME IInv, HandleAnswer
  PROVE  IInv'
<1>1. csQueue \in Seq(Answers) /\ csQueue # <<>>  BY DEF IInv, TypeInv, HandleAnswer
<1>2. PICK r \in Answers : r = Head(csQueue)  BY <1>1, Popped
<1>3. /\ UNCHANGED <<lists, granted, admitted, again>> /\ UNCHANGED <<batch, toMain, characters, granted>>
      /\ now' = now /\ batch' = batch /\ toMain' = toMain /\ characters' = characters
  BY DEF HandleAnswer
<1>4. AnswerKeeps
  <2>1. CASE AnswerUnclaimed(r)
    BY <1>3, <2>1, SameAnswer DEF AnswerUnclaimed
  <2>2. CASE AnswerDrops(r)
    <3>1. PICK n \in Nat : n = 0  OBVIOUS
    <3>2. DropAfter(n, r.client) /\ dbQueue' = dbQueue  BY <2>2, <3>1 DEF AnswerDrops, Drop
    <3>3. QED  BY <1>3, <3>2, DropAnswer
  <2>3. CASE Show(r.client)
    <3>1. dbQueue' = dbQueue  BY <2>3 DEF Show
    <3>2. CASE UNCHANGED <<object, failures>>  BY <1>3, <3>1, <3>2, SameAnswer
    <3>3. CASE DropAfter(1, r.client)  BY <1>3, <3>1, <3>3, DropAnswer
    <3>4. QED  BY <2>3, <3>2, <3>3 DEF Show
  <2>4. CASE AnswerName(r)  BY <1>3, <2>4, AnswerNameKeeps
  <2>5. CASE AnswerCreated(r)  BY <1>3, <2>5, AnswerCreatedKeeps
  <2>6. CASE AnswerDeleted(r)  BY <1>3, <2>6, AnswerDeletedKeeps
  <2>7. QED
    BY <1>2, <2>1, <2>2, <2>3, <2>4, <2>5, <2>6 DEF HandleAnswer, AnswerInfo, AnswerZone
<1>5. csQueue' \in Seq(Answers)
  <2>1. Tail(csQueue) \in Seq(Answers)  BY <1>1, Popped
  <2>2. QED  BY <2>1 DEF HandleAnswer
<1>6. now' \in 0 .. MaxTime /\ batch' \in Seq(Queries) /\ toMain' \subseteq Queries /\ characters' \subseteq Rows
  BY <1>3 DEF IInv, TypeInv
<1>7. QED  BY <1>3, <1>4, <1>5, <1>6, Frame DEF AnswerKeeps

-----------------------------------------------------------------------------
(* The lists: entries come and go.                                         *)

\* Every entry of the list r with the timeouts rt is one of s with ts.
EntriesOf(r, rt, s, ts) ==
  \A j \in 1 .. Len(r) : \E k \in 1 .. Len(s) : r[j] = s[k] /\ rt[j] = ts[k]

\* A list and its timeouts are rearranged alike.
LEMMA PoppedAlike ==
  ASSUME NEW S, NEW s \in Seq(S), NEW T, NEW ts \in Seq(T), Len(ts) = Len(s), NEW i \in 1 .. Len(s),
         NEW r, r = PopSwap(s, i), NEW rt, rt = PopSwap(ts, i)
  PROVE  rt \in Seq(T) /\ Len(rt) = Len(r) /\ EntriesOf(r, rt, s, ts)
<1>1. PICK n \in Nat : n = Len(s) /\ n = Len(ts)  BY LenProperties
<1>2. i \in 1 .. n /\ i \in 1 .. Len(ts)  BY <1>1
<1>3. Len(r) = n - 1 /\ \A j \in 1 .. n - 1 : r[j] = s[Moved(n, i, j)]
  <2>1. /\ r \in Seq(S) /\ Len(r) = Len(s) - 1
        /\ \A j \in 1 .. Len(s) - 1 : r[j] = s[Moved(Len(s), i, j)]
    BY PopSwapIs, ZenonT(60)
  <2>2. QED  BY <1>1, <2>1
<1>4. rt \in Seq(T) /\ Len(rt) = n - 1 /\ \A j \in 1 .. n - 1 : rt[j] = ts[Moved(n, i, j)]
  <2>1. /\ rt \in Seq(T) /\ Len(rt) = Len(ts) - 1
        /\ \A j \in 1 .. Len(ts) - 1 : rt[j] = ts[Moved(Len(ts), i, j)]
    BY <1>2, PopSwapIs
  <2>2. QED  BY <1>1, <2>1
<1>5. \A j \in 1 .. n - 1 : Moved(n, i, j) \in 1 .. n  BY <1>2, MovedIs
<1>6. \A j \in 1 .. n - 1 : \E k \in 1 .. n : r[j] = s[k] /\ rt[j] = ts[k]  BY <1>3, <1>4, <1>5
<1>7. QED  BY <1>1, <1>3, <1>4, <1>6 DEF EntriesOf

\* An entry is appended: the others are there as often as before.
LEMMA OnceAppended ==
  ASSUME NEW S, NEW s \in Seq(S), NEW a \in S, NEW t, t = Append(s, a)
  PROVE  /\ \A x : x # a /\ Once(s, x) => Once(t, x)
         /\ a \notin ToSet(s) => Once(t, a)
         /\ \A x : x # a => Occurs(t, x) <= Occurs(s, x)
         /\ Occurs(t, a) <= Occurs(s, a) + 1
<1>1. PICK n \in Nat : n = Len(s) /\ ToSet(s) = {s[k] : k \in 1 .. n}  BY Members
<1>2. t \in Seq(S) /\ Len(t) = n + 1 /\ (\A k \in 1 .. n : t[k] = s[k]) /\ t[n + 1] = a
  BY <1>1, AppendProperties
<1>3. \A k \in 1 .. n + 1 : k \in 1 .. n \/ k = n + 1  OBVIOUS
<1>4. ASSUME NEW x, x # a, Once(s, x) PROVE Once(t, x)
  <2>1. \A k \in 1 .. n + 1 : t[k] = x => k \in 1 .. n /\ s[k] = x  BY <1>2, <1>3, <1>4
  <2>2. \A j, k \in 1 .. n : s[j] = x /\ s[k] = x => j = k  BY <1>1, <1>4 DEF Once
  <2>3. \A j, k \in 1 .. n + 1 : t[j] = x /\ t[k] = x => j = k  BY <2>1, <2>2
  <2>4. QED  BY <1>2, <2>3 DEF Once
<1>5. ASSUME a \notin ToSet(s) PROVE Once(t, a)
  <2>1. \A k \in 1 .. n : t[k] # a  BY <1>1, <1>2, <1>5
  <2>2. \A k \in 1 .. n + 1 : t[k] = a => k = n + 1  BY <1>3, <2>1
  <2>3. QED  BY <1>2, <2>2 DEF Once
<1>6. ASSUME NEW x, x # a PROVE Occurs(t, x) <= Occurs(s, x)
  <2>1. At(t, x) \subseteq At(s, x)  BY <1>1, <1>2, <1>3, <1>6 DEF At
  <2>2. IsFiniteSet(At(s, x))  BY OccursIs
  <2>3. QED  BY <2>1, <2>2, FS_Subset DEF Occurs
<1>7. Occurs(t, a) <= Occurs(s, a) + 1
  <2>1. At(t, a) \subseteq At(s, a) \cup {n + 1}  BY <1>1, <1>2, <1>3 DEF At
  <2>2. IsFiniteSet(At(s, a)) /\ Cardinality(At(s, a)) \in Nat  BY OccursIs, FS_CardinalityType
  <2>3. n + 1 \notin At(s, a)  BY <1>1 DEF At
  <2>4. IsFiniteSet(At(s, a) \cup {n + 1})
        /\ Cardinality(At(s, a) \cup {n + 1}) = Cardinality(At(s, a)) + 1
    BY <2>2, <2>3, FS_AddElement
  <2>5. Cardinality(At(t, a)) <= Cardinality(At(s, a) \cup {n + 1})  BY <2>1, <2>4, FS_Subset
  <2>6. QED  BY <2>4, <2>5 DEF Occurs
<1>8. QED  BY <1>4, <1>5, <1>6, <1>7

\* The clients that wait keep their timeouts while others leave the list.
LEMMA WaitsLeft ==
  ASSUME TypeInv, WaitInv,
         EntriesOf(awaiting', awaitingTimeouts', awaiting, awaitingTimeouts),
         \A x \in ToSet(awaiting) : x \notin again' /\ x \in Live' =>
           /\ x \notin again /\ x \in Live
           /\ object'[x].until = object[x].until /\ object'[x].accountId = object[x].accountId
  PROVE  WaitInv'
<1>1. PICK n \in Nat : n = Len(awaiting) /\ \A k \in 1 .. n : awaiting[k] \in ToSet(awaiting)
  BY Members DEF TypeInv
<1>2. SUFFICES ASSUME NEW j \in 1 .. Len(awaiting'), awaiting'[j] \notin again', awaiting'[j] \in Live'
               PROVE  /\ awaitingTimeouts'[j] = object'[awaiting'[j]].until
                      /\ object'[awaiting'[j]].accountId = None
  BY DEF WaitInv
<1>3. PICK k \in 1 .. n : awaiting'[j] = awaiting[k] /\ awaitingTimeouts'[j] = awaitingTimeouts[k]
  BY <1>1 DEF EntriesOf
<1>4. PICK x : x = awaiting[k]  OBVIOUS
<1>5. x \in ToSet(awaiting) /\ x \notin again' /\ x \in Live'  BY <1>1, <1>2, <1>3, <1>4
<1>6. /\ x \notin again /\ x \in Live
      /\ object'[x].until = object[x].until /\ object'[x].accountId = object[x].accountId
  BY <1>5
<1>7. awaitingTimeouts[k] = object[x].until /\ object[x].accountId = None
  BY <1>1, <1>4, <1>6 DEF WaitInv
<1>8. QED  BY <1>3, <1>4, <1>6, <1>7

\* Client o is authorized by a, or marked: what cs_thread_add_authed_client does to it.
ObjectsAuthed(o, a) ==
  /\ object' \in [Objects -> CharSelectClients \cup {None}]
  /\ \A x \in Objects : object'[x] # None <=> object[x] # None
  /\ \A x \in Live :
       /\ object'[x].until = object[x].until
       /\ \/ object'[x].authed = object[x].authed /\ object'[x].accountId = object[x].accountId
          \/ x = o /\ o \in ToSet(clients') /\ object'[x].accountId = a.account

\* A client is listed as authorized, or a failure leaves it listed or not.
LEMMA AddAuthedIs ==
  ASSUME TypeInv, NEW o \in Objects, NEW a \in Auths, AddAuthed(o, a)
  PROVE  /\ clients' \in Seq(Objects)
         /\ ToSet(clients) \subseteq ToSet(clients') /\ ToSet(clients') \subseteq ToSet(clients) \cup {o}
         /\ \A x : x # o /\ Once(clients, x) => Once(clients', x)
         /\ o \notin ToSet(clients) => Once(clients', o)
         /\ ObjectsAuthed(o, a) /\ failures' \in 0 .. MaxFailures
         /\ dbQueue' \in Seq(Queries) /\ \A q \in ToSet(dbQueue') : IsWrite(q) => q \in ToSet(dbQueue)
         /\ admitted' \in {admitted, Count(admitted, a)}
<1>1. clients \in Seq(Objects) /\ dbQueue \in Seq(Queries) /\ failures \in 0 .. MaxFailures
      /\ object \in [Objects -> CharSelectClients \cup {None}]
  BY DEF TypeInv
<1>2. a.account \in Accounts /\ a.key \in Keys  BY DEF Auths
<1>3. PICK t : t = Append(clients, o)  OBVIOUS
<1>4. t \in Seq(Objects) /\ ToSet(t) = ToSet(clients) \cup {o}
  <2>1. Append(clients, o) \in Seq(Objects) /\ ToSet(Append(clients, o)) = ToSet(clients) \cup {o}
    BY <1>1, Pushed, ZenonT(60)
  <2>2. QED  BY <1>3, <2>1
<1>5. (\A x : x # o /\ Once(clients, x) => Once(t, x)) /\ (o \notin ToSet(clients) => Once(t, o))
  BY <1>1, <1>3, OnceAppended
<1>6. clients' \in {clients, t}  BY <1>3 DEF AddAuthed
<1>7. o \notin ToSet(clients) => Once(clients, o)
  <2>1. \A k \in 1 .. Len(clients) : clients[k] \in ToSet(clients)  BY <1>1, Members
  <2>2. QED  BY <2>1 DEF Once
<1>8. /\ clients' \in Seq(Objects)
      /\ ToSet(clients) \subseteq ToSet(clients') /\ ToSet(clients') \subseteq ToSet(clients) \cup {o}
      /\ \A x : x # o /\ Once(clients, x) => Once(clients', x)
      /\ o \notin ToSet(clients) => Once(clients', o)
  <2>1. CASE clients' = clients  BY <1>1, <1>7, <2>1
  <2>2. CASE clients' = t  BY <1>4, <1>5, <2>2
  <2>3. QED  BY <1>6, <2>1, <2>2
<1>9. CASE /\ clients' = Append(clients, o)
           /\ dbQueue' = Append(dbQueue, Query("CharacterInfo", o, a.account, None))
           /\ object' = Write(o, [object[o] EXCEPT !.authed = TRUE, !.accountId = a.account,
                                                   !.sessionKey = a.key])
           /\ admitted' = Count(admitted, a)
           /\ UNCHANGED failures
  <2>1. PICK q : q = Query("CharacterInfo", o, a.account, None)  OBVIOUS
  <2>2. q \in Queries /\ ~IsWrite(q)
    BY <1>2, <2>1 DEF Query, Queries, Zops, MaybeAccount, IsWrite
  <2>3. Append(dbQueue, q) \in Seq(Queries) /\ ToSet(Append(dbQueue, q)) = ToSet(dbQueue) \cup {q}
    BY <1>1, <2>2, Pushed, ZenonT(60)
  <2>4. dbQueue' = Append(dbQueue, q)  BY <1>9, <2>1
  <2>5. ToSet(dbQueue') = ToSet(Append(dbQueue, q))  BY <2>4
  <2>6. dbQueue' \in Seq(Queries) /\ \A z \in ToSet(dbQueue') : IsWrite(z) => z \in ToSet(dbQueue)
    BY <2>2, <2>3, <2>4, <2>5
  <2>7. o \in ToSet(clients')  BY <1>3, <1>4, <1>9
  <2>8. ObjectsAuthed(o, a)
    <3>1. CASE o \in Live
      <4>1. object[o] \in CharSelectClients  BY <1>1, <3>1 DEF Live
      <4>2. PICK b : b = [object[o] EXCEPT !.authed = TRUE]  OBVIOUS
      <4>3. b \in CharSelectClients /\ b.until = object[o].until  BY <4>1, <4>2 DEF CharSelectClients
      <4>4. PICK d : d = [b EXCEPT !.accountId = a.account]  OBVIOUS
      <4>5. d \in CharSelectClients /\ d.until = b.until /\ d.accountId = a.account
        BY <1>2, <4>3, <4>4 DEF CharSelectClients
      <4>6. PICK c : c = [d EXCEPT !.sessionKey = a.key]  OBVIOUS
      <4>7. c \in CharSelectClients /\ c.until = d.until /\ c.accountId = a.account
        BY <1>2, <4>5, <4>6 DEF CharSelectClients
      <4>8. object' = [object EXCEPT ![o] = c]  BY <1>9, <3>1, <4>2, <4>4, <4>6 DEF Write
      <4>9. object'[o] = c /\ (\A x \in Objects : x # o => object'[x] = object[x])
            /\ object' \in [Objects -> CharSelectClients \cup {None}]
        BY <1>1, <4>7, <4>8
      <4>10. c # None /\ c.until = object[o].until /\ object[o] # None
        BY <3>1, <4>3, <4>5, <4>7, NullAssumption DEF Live
      <4>11. QED  BY <2>7, <4>7, <4>9, <4>10 DEF ObjectsAuthed, Live
    <3>2. CASE o \notin Live
      <4>1. object' = object  BY <1>9, <3>2 DEF Write
      <4>2. QED  BY <1>1, <4>1 DEF ObjectsAuthed
    <3>3. QED  BY <3>1, <3>2
  <2>9. failures' \in 0 .. MaxFailures /\ admitted' \in {admitted, Count(admitted, a)}  BY <1>1, <1>9
  <2>10. QED  BY <1>8, <2>6, <2>8, <2>9
<1>10. CASE DropAfter(1, o) /\ UNCHANGED <<dbQueue, admitted>>
  <2>1. ObjectsKept /\ failures' \in 0 .. MaxFailures  BY <1>10, KeptByDrop
  <2>2. ObjectsAuthed(o, a)  BY <2>1 DEF ObjectsAuthed, ObjectsKept
  <2>3. dbQueue' \in Seq(Queries) /\ \A z \in ToSet(dbQueue') : IsWrite(z) => z \in ToSet(dbQueue)
    BY <1>1, <1>10
  <2>4. QED  BY <1>8, <1>10, <2>1, <2>2, <2>3
<1>11. QED  BY <1>9, <1>10 DEF AddAuthed

\* A client joins the authorized ones, of itself or from those waiting: either it
\* was in no list, or it sent OP_CS_LoginInfo again.
LEMMA ClientAdmitted ==
  ASSUME TypeInv, ClientInv, NEW o \in Objects, NEW a \in Auths, AddAuthed(o, a),
         awaiting' \in Seq(Objects), EntriesOf(awaiting', awaitingTimeouts', awaiting, awaitingTimeouts),
         ToSet(awaiting') \subseteq ToSet(awaiting), \A x : Once(awaiting, x) => Once(awaiting', x),
         again \subseteq again', GrantedAccounts \subseteq GrantedAccounts',
         a.account \in GrantedAccounts', o \in Live \/ o \in again',
         o \in again' \/ (o \notin ToSet(clients) /\ o \notin ToSet(awaiting))
  PROVE  ClientInv'
<1>1. /\ ToSet(clients) \subseteq ToSet(clients') /\ ToSet(clients') \subseteq ToSet(clients) \cup {o}
      /\ \A x : x # o /\ Once(clients, x) => Once(clients', x)
      /\ o \notin ToSet(clients) => Once(clients', o)
      /\ ObjectsAuthed(o, a)
  BY AddAuthedIs
<1>2. Live' = Live  BY <1>1 DEF ObjectsAuthed, Live
<1>3. AccountInv /\ OnceInv /\ WaitInv /\ ListedInv /\ ListedAreLive  BY DEF ClientInv
<1>4. AccountInv'
  <2>1. SUFFICES ASSUME NEW x \in Live, object'[x].authed PROVE object'[x].accountId \in GrantedAccounts'
    BY <1>2 DEF AccountInv
  <2>2. \/ object'[x].authed = object[x].authed /\ object'[x].accountId = object[x].accountId
        \/ object'[x].accountId = a.account
    BY <1>1 DEF ObjectsAuthed
  <2>3. QED  BY <1>3, <2>1, <2>2 DEF AccountInv
<1>5. OnceInv'
  <2>1. SUFFICES ASSUME NEW x \in Objects, x \notin again'
                 PROVE  /\ Once(clients', x) /\ Once(awaiting', x)
                        /\ ~(x \in ToSet(clients') /\ x \in ToSet(awaiting'))
    BY DEF OnceInv
  <2>2. x \notin again  BY <2>1
  <2>3. Once(clients, x) /\ Once(awaiting, x) /\ ~(x \in ToSet(clients) /\ x \in ToSet(awaiting))
    BY <1>3, <2>2 DEF OnceInv
  <2>4. Once(awaiting', x)  BY <2>3
  <2>5. CASE x = o
    <3>1. o \notin ToSet(clients) /\ o \notin ToSet(awaiting)  BY <2>1, <2>5
    <3>2. Once(clients', x) /\ x \notin ToSet(awaiting')  BY <1>1, <2>5, <3>1
    <3>3. QED  BY <2>4, <3>2
  <2>6. CASE x # o
    <3>1. Once(clients', x)  BY <1>1, <2>3, <2>6
    <3>2. x \in ToSet(clients') => x \in ToSet(clients)  BY <1>1, <2>6
    <3>3. QED  BY <2>3, <2>4, <3>1, <3>2
  <2>7. QED  BY <2>5, <2>6
<1>6. WaitInv'
  <2>1. ASSUME NEW x \in ToSet(awaiting), x \notin again', x \in Live'
        PROVE  /\ x \notin again /\ x \in Live
               /\ object'[x].until = object[x].until /\ object'[x].accountId = object[x].accountId
    <3>1. x # o  BY <2>1
    <3>2. QED  BY <1>1, <1>2, <2>1, <3>1 DEF ObjectsAuthed
  <2>2. QED  BY <1>3, <2>1, WaitsLeft
<1>7. ListedInv'
  <2>1. SUFFICES ASSUME NEW x \in Live, object'[x].accountId # None
                 PROVE  x \in ToSet(clients') \/ x \in again'
    BY <1>2 DEF ListedInv
  <2>2. CASE object'[x].accountId = object[x].accountId  BY <1>1, <1>3, <2>1, <2>2 DEF ListedInv
  <2>3. CASE x = o /\ o \in ToSet(clients')  BY <2>3
  <2>4. QED  BY <1>1, <2>2, <2>3 DEF ObjectsAuthed
<1>8. ListedAreLive'
  <2>1. \A x \in ToSet(clients') \cup ToSet(awaiting') :
          x \in ToSet(clients) \cup ToSet(awaiting) \/ x = o
    BY <1>1
  <2>2. QED  BY <1>2, <1>3, <2>1 DEF ListedAreLive
<1>9. QED  BY <1>4, <1>5, <1>6, <1>7, <1>8 DEF ClientInv

-----------------------------------------------------------------------------
(* The session.                                                            *)

\* An authorisation is counted once more.
LEMMA CountIs ==
  ASSUME NEW f \in [Auths -> Nat], NEW a \in Auths
  PROVE  /\ Count(f, a) \in [Auths -> Nat] /\ Count(f, a)[a] = f[a] + 1
         /\ \A x \in Auths : x # a => Count(f, a)[x] = f[x]
  BY DEF Count

\* What the authorisations say when none comes.
LEMMA GrantedSame ==
  ASSUME granted' = granted
  PROVE  GrantedAccounts' = GrantedAccounts
  BY DEF GrantedAccounts

\* An authorisation that waits is used: cs_thread_is_auth_awaiting_client.
LEMMA AuthUsedInv ==
  ASSUME TypeInv, GrantInv, NEW a \in Auths, NEW i \in 1 .. Len(auths), auths[i] = a, AuthUsed(i),
         admitted' \in {admitted, Count(admitted, a)}, granted' = granted
  PROVE  /\ auths' \in Seq(Auths) /\ authTimeouts' \in Seq(Nat) /\ Len(authTimeouts') = Len(auths')
         /\ admitted' \in [Auths -> Nat] /\ GrantInv' /\ a.account \in GrantedAccounts
<1>1. /\ auths \in Seq(Auths) /\ authTimeouts \in Seq(Nat) /\ Len(authTimeouts) = Len(auths)
      /\ admitted \in [Auths -> Nat] /\ granted \in [Auths -> Nat]
  BY DEF TypeInv
<1>2. PICK s, ts, N, r, rt : /\ s = auths /\ ts = authTimeouts /\ N = Nat
                             /\ r = PopSwap(s, i) /\ rt = PopSwap(ts, i)
  OBVIOUS
<1>3. s \in Seq(Auths) /\ ts \in Seq(N) /\ Len(ts) = Len(s) /\ i \in 1 .. Len(s) /\ s[i] = a
  BY <1>1, <1>2
<1>4. auths' = r /\ authTimeouts' = rt  BY <1>2 DEF AuthUsed
<1>5. r = PopSwap(s, i) /\ rt = PopSwap(ts, i)  BY <1>2
<1>6. /\ r \in Seq(Auths) /\ (\A x : Occurs(r, x) <= Occurs(s, x)) /\ Occurs(r, s[i]) + 1 <= Occurs(s, s[i])
  BY <1>3, <1>5, PopSwapped
<1>7. rt \in Seq(N) /\ Len(rt) = Len(r)  BY <1>3, <1>5, PoppedAlike
<1>8. \A x : Occurs(r, x) \in Nat /\ Occurs(s, x) \in Nat  BY <1>3, <1>6, OccursIs
<1>9. Count(admitted, a) \in [Auths -> Nat] /\ Count(admitted, a)[a] = admitted[a] + 1
      /\ \A x \in Auths : x # a => Count(admitted, a)[x] = admitted[x]
  BY <1>1, CountIs
<1>10. admitted' \in [Auths -> Nat]  BY <1>1, <1>9
<1>11. \A x \in Auths : admitted[x] + Occurs(s, x) <= granted[x]  BY <1>2 DEF GrantInv
<1>12. ASSUME NEW x \in Auths PROVE admitted'[x] + Occurs(r, x) <= granted[x]
  <2>1. admitted[x] \in Nat /\ granted[x] \in Nat /\ Occurs(r, x) \in Nat /\ Occurs(s, x) \in Nat
    BY <1>1, <1>8
  <2>2. admitted[x] + Occurs(s, x) <= granted[x] /\ Occurs(r, x) <= Occurs(s, x)  BY <1>6, <1>11
  <2>3. CASE x = a
    <3>1. Occurs(r, x) + 1 <= Occurs(s, x)  BY <1>3, <1>6, <2>3
    <3>2. admitted'[x] \in {admitted[x], admitted[x] + 1}  BY <1>9, <2>3
    <3>3. QED  BY <2>1, <2>2, <3>1, <3>2
  <2>4. CASE x # a
    <3>1. admitted'[x] = admitted[x]  BY <1>9, <2>4
    <3>2. QED  BY <2>1, <2>2, <3>1
  <2>5. QED  BY <2>3, <2>4
<1>13. GrantInv'
  <2>1. \A x \in Auths : Occurs(auths', x) = Occurs(r, x)  BY <1>4
  <2>2. QED  BY <1>12, <2>1 DEF GrantInv
<1>14. a.account \in GrantedAccounts
  <2>1. Occurs(r, a) \in Nat /\ Occurs(s, a) \in Nat /\ admitted[a] \in Nat /\ granted[a] \in Nat
    BY <1>1, <1>8
  <2>2. Occurs(r, a) + 1 <= Occurs(s, a) /\ admitted[a] + Occurs(s, a) <= granted[a]  BY <1>3, <1>6, <1>11
  <2>3. granted[a] > 0  BY <2>1, <2>2
  <2>4. QED  BY <2>3 DEF GrantedAccounts
<1>15. QED  BY <1>2, <1>4, <1>6, <1>7, <1>10, <1>13, <1>14

\* OP_CS_LoginInfo of a client whose authorisation came before it.
LEMMA LoginInfoAdmits ==
  ASSUME IInv, NEW o \in Live, NEW a \in Auths, NEW i \in 1 .. Len(auths), auths[i] = a,
         AuthUsed(i), AddAuthed(o, a),
         UNCHANGED <<awaiting, awaitingTimeouts, now, batch, characters, toMain, csQueue, granted>>,
         again' = again \cup ({o} \cap (ToSet(clients) \cup ToSet(awaiting)))
  PROVE  IInv'
<1>1. TypeInv /\ GrantInv /\ QueryInv /\ ClientInv /\ o \in Objects  BY DEF IInv, Live
<1>2. /\ clients' \in Seq(Objects) /\ ObjectsAuthed(o, a) /\ failures' \in 0 .. MaxFailures
      /\ dbQueue' \in Seq(Queries) /\ \A q \in ToSet(dbQueue') : IsWrite(q) => q \in ToSet(dbQueue)
      /\ admitted' \in {admitted, Count(admitted, a)}
  BY <1>1, AddAuthedIs
<1>3. granted' = granted /\ GrantedAccounts' = GrantedAccounts  BY GrantedSame
<1>4. /\ auths' \in Seq(Auths) /\ authTimeouts' \in Seq(Nat) /\ Len(authTimeouts') = Len(auths')
      /\ admitted' \in [Auths -> Nat] /\ GrantInv' /\ a.account \in GrantedAccounts
  BY <1>1, <1>2, <1>3, AuthUsedInv
<1>5. TypeInv'  BY <1>1, <1>2, <1>4 DEF TypeInv, ObjectsAuthed
<1>6. QueryInv'
  <2>1. ToSet(batch') = ToSet(batch) /\ toMain' = toMain /\ characters' = characters  OBVIOUS
  <2>2. QED  BY <1>1, <1>2, <1>3, <2>1 DEF QueryInv
<1>7. ClientInv'
  <2>1. awaiting' = awaiting /\ awaitingTimeouts' = awaitingTimeouts /\ awaiting \in Seq(Objects)
    BY <1>1 DEF TypeInv
  <2>2. EntriesOf(awaiting', awaitingTimeouts', awaiting, awaitingTimeouts)  BY <2>1 DEF EntriesOf
  <2>3. awaiting' \in Seq(Objects) /\ ToSet(awaiting') \subseteq ToSet(awaiting)
        /\ \A x : Once(awaiting, x) => Once(awaiting', x)
    BY <2>1
  <2>4. again \subseteq again' /\ (o \in again' \/ (o \notin ToSet(clients) /\ o \notin ToSet(awaiting)))
    OBVIOUS
  <2>5. QED  BY <1>1, <1>3, <1>4, <2>2, <2>3, <2>4, ClientAdmitted
<1>8. QED  BY <1>4, <1>5, <1>6, <1>7 DEF IInv

\* OP_CS_LoginInfo of a client that begins to wait: cs_thread_add_client_awaiting_auth.
LEMMA LoginInfoWaits ==
  ASSUME IInv, NEW o \in Live, CanWait, AddClientAwaitingAuth(o),
         UNCHANGED <<clients, auths, authTimeouts, dbQueue, admitted>>,
         UNCHANGED <<now, batch, characters, toMain, csQueue, granted>>,
         again' = again \cup ({o} \cap (ToSet(clients) \cup ToSet(awaiting)))
  PROVE  IInv'
<1>1. TypeInv /\ GrantInv /\ QueryInv /\ ClientInv /\ o \in Objects  BY DEF IInv, Live
<1>2. AccountInv /\ OnceInv /\ WaitInv /\ ListedInv /\ ListedAreLive  BY <1>1 DEF ClientInv
<1>3. granted' = granted /\ GrantedAccounts' = GrantedAccounts  BY GrantedSame
<1>4. GrantInv'  BY <1>1 DEF GrantInv
<1>5. QueryInv'  BY <1>1, <1>3 DEF QueryInv
<1>6. again \subseteq again' /\ (o \in again' \/ (o \notin ToSet(clients) /\ o \notin ToSet(awaiting)))
  OBVIOUS
<1>7. \A x : x # o => (x \in again' <=> x \in again)  OBVIOUS
<1>8. CASE /\ awaiting' = Append(awaiting, o)
           /\ awaitingTimeouts' = Append(awaitingTimeouts, now + Timeout)
           /\ object' = [object EXCEPT ![o].until = now + Timeout]
           /\ UNCHANGED failures
  <2>1. awaiting \in Seq(Objects) /\ awaitingTimeouts \in Seq(Nat) /\ Len(awaitingTimeouts) = Len(awaiting)
        /\ object \in [Objects -> CharSelectClients \cup {None}] /\ now \in 0 .. MaxTime
    BY <1>1 DEF TypeInv
  <2>2. PICK n \in Nat : n = Len(awaiting) /\ \A k \in 1 .. n : awaiting[k] \in ToSet(awaiting)
    BY <2>1, Members
  <2>3. PICK e \in Nat : e = now + Timeout /\ e \in 0 .. MaxTime
    BY <2>1, CharSelectAssumption DEF CanWait
  <2>4. PICK t, tt : t = Append(awaiting, o) /\ tt = Append(awaitingTimeouts, e)  OBVIOUS
  <2>5. awaiting' = t /\ awaitingTimeouts' = tt  BY <1>8, <2>3, <2>4
  <2>6. t \in Seq(Objects) /\ Len(t) = n + 1 /\ (\A k \in 1 .. n : t[k] = awaiting[k]) /\ t[n + 1] = o
    BY <1>1, <2>1, <2>2, <2>4, AppendProperties
  <2>7. tt \in Seq(Nat) /\ Len(tt) = n + 1 /\ (\A k \in 1 .. n : tt[k] = awaitingTimeouts[k]) /\ tt[n + 1] = e
    BY <2>1, <2>2, <2>4, AppendProperties
  <2>8. ToSet(t) = ToSet(awaiting) \cup {o}
    <3>1. ToSet(t) = {t[k] : k \in 1 .. n + 1}  BY <2>6, Members
    <3>2. ToSet(awaiting) = {awaiting[k] : k \in 1 .. n}  BY <2>1, <2>2, Members
    <3>3. \A k \in 1 .. n + 1 : k \in 1 .. n \/ k = n + 1  OBVIOUS
    <3>4. (\A k \in 1 .. n : k \in 1 .. n + 1) /\ n + 1 \in 1 .. n + 1  OBVIOUS
    <3>5. ToSet(t) \subseteq ToSet(awaiting) \cup {o}  BY <2>6, <3>1, <3>2, <3>3
    <3>6. ToSet(awaiting) \cup {o} \subseteq ToSet(t)  BY <2>6, <3>1, <3>2, <3>4
    <3>7. QED  BY <3>5, <3>6
  <2>9. (\A x : x # o /\ Once(awaiting, x) => Once(t, x)) /\ (o \notin ToSet(awaiting) => Once(t, o))
    <3>1. t = Append(awaiting, o)  BY <2>4
    <3>2. QED  BY <1>1, <2>1, <3>1, OnceAppended
  <2>10. object[o] \in CharSelectClients  BY <2>1 DEF Live
  <2>11. PICK c : c = [object[o] EXCEPT !.until = e]  OBVIOUS
  <2>12. c \in CharSelectClients /\ c.until = e /\ c.authed = object[o].authed
         /\ c.accountId = object[o].accountId
    BY <2>3, <2>10, <2>11 DEF CharSelectClients
  <2>13. object' = [object EXCEPT ![o] = c]  BY <1>8, <2>3, <2>11
  <2>14. object'[o] = c /\ (\A x \in Objects : x # o => object'[x] = object[x])
         /\ object' \in [Objects -> CharSelectClients \cup {None}] /\ c # None
    BY <1>1, <2>1, <2>12, <2>13, NullAssumption
  <2>15. Live' = Live  BY <2>14 DEF Live
  <2>16. TypeInv'
    <3>1. /\ awaiting' \in Seq(Objects) /\ awaitingTimeouts' \in Seq(Nat) /\ Len(awaitingTimeouts') = Len(awaiting')
      BY <2>5, <2>6, <2>7
    <3>2. failures' = failures  BY <1>8
    <3>3. QED  BY <1>1, <2>14, <3>1, <3>2 DEF TypeInv
  <2>17. AccountInv'
    BY <1>2, <1>3, <2>12, <2>14, <2>15 DEF AccountInv, Live
  <2>18. OnceInv'
    <3>1. SUFFICES ASSUME NEW x \in Objects, x \notin again'
                   PROVE  /\ Once(clients, x) /\ Once(t, x)
                          /\ ~(x \in ToSet(clients) /\ x \in ToSet(t))
      <4>1. clients' = clients /\ awaiting' = t  BY <2>5
      <4>2. QED  BY <4>1 DEF OnceInv
    <3>2. Once(clients, x) /\ Once(awaiting, x) /\ ~(x \in ToSet(clients) /\ x \in ToSet(awaiting))
      BY <1>2, <1>6, <3>1 DEF OnceInv
    <3>3. x = o => o \notin ToSet(clients) /\ o \notin ToSet(awaiting)  BY <1>6, <3>1
    <3>4. QED  BY <2>8, <2>9, <3>2, <3>3
  <2>19. WaitInv'
    <3>1. SUFFICES ASSUME NEW k \in 1 .. n + 1, t[k] \notin again', t[k] \in Live
                   PROVE  tt[k] = object'[t[k]].until /\ object'[t[k]].accountId = None
      <4>1. awaiting' = t /\ awaitingTimeouts' = tt /\ Len(t) = n + 1  BY <2>5, <2>6
      <4>2. QED  BY <2>15, <4>1 DEF WaitInv
    <3>2. CASE k \in 1 .. n
      <4>1. t[k] = awaiting[k] /\ tt[k] = awaitingTimeouts[k] /\ t[k] \in ToSet(awaiting)
        BY <2>2, <2>6, <2>7, <3>2
      <4>2. t[k] # o  BY <1>6, <3>1, <4>1
      <4>3. t[k] \notin again /\ t[k] \in Objects  BY <1>6, <3>1 DEF Live
      <4>4. tt[k] = object[t[k]].until /\ object[t[k]].accountId = None
        BY <1>2, <2>2, <3>1, <3>2, <4>1, <4>3 DEF WaitInv
      <4>5. QED  BY <2>14, <4>2, <4>3, <4>4
    <3>3. CASE k = n + 1
      <4>1. t[k] = o /\ tt[k] = e  BY <2>6, <2>7, <3>3
      <4>2. object[o].accountId = None
        <5>1. o \notin ToSet(clients) /\ o \notin again  BY <1>6, <3>1, <4>1
        <5>2. QED  BY <1>2, <5>1 DEF ListedInv
      <4>3. QED  BY <2>12, <2>14, <4>1, <4>2
    <3>4. QED  BY <3>2, <3>3
  <2>20. ListedInv'
    <3>1. \A x \in Live : object'[x].accountId = object[x].accountId  BY <2>12, <2>14 DEF Live
    <3>2. QED  BY <1>2, <1>6, <2>15, <3>1 DEF ListedInv
  <2>21. ListedAreLive'
    <3>1. ToSet(awaiting') = ToSet(awaiting) \cup {o} /\ clients' = clients
      <4>1. ToSet(awaiting') = ToSet(t)  BY <2>5
      <4>2. QED  BY <2>8, <4>1
    <3>2. QED  BY <1>2, <1>6, <2>15, <3>1 DEF ListedAreLive
  <2>22. ClientInv'  BY <2>17, <2>18, <2>19, <2>20, <2>21 DEF ClientInv
  <2>23. QED  BY <1>4, <1>5, <2>16, <2>22 DEF IInv
<1>9. CASE DropAfter(1, o) /\ UNCHANGED <<awaiting, awaitingTimeouts>>
  <2>1. ObjectsKept /\ failures' \in 0 .. MaxFailures  BY <1>1, <1>9, KeptByDrop
  <2>2. TypeInv'  BY <1>1, <1>9, <2>1 DEF TypeInv, ObjectsKept
  <2>3. Live' = Live  BY <2>1 DEF ObjectsKept, Live
  <2>4. AccountInv'  BY <1>2, <1>3, <2>1, <2>3 DEF AccountInv, ObjectsKept
  <2>5. OnceInv'  BY <1>2, <1>6, <1>9 DEF OnceInv
  <2>6. WaitInv'
    <3>1. SUFFICES ASSUME NEW k \in 1 .. Len(awaiting), awaiting[k] \notin again', awaiting[k] \in Live
                   PROVE  awaitingTimeouts[k] = object'[awaiting[k]].until
                          /\ object'[awaiting[k]].accountId = None
      BY <1>9, <2>3 DEF WaitInv
    <3>2. awaiting[k] \notin again  BY <1>6, <3>1
    <3>3. QED  BY <1>2, <2>1, <3>1, <3>2 DEF WaitInv, ObjectsKept
  <2>7. ListedInv'  BY <1>2, <1>6, <2>1, <2>3 DEF ListedInv, ObjectsKept
  <2>8. ListedAreLive'  BY <1>2, <1>6, <1>9, <2>3 DEF ListedAreLive
  <2>9. QED  BY <1>4, <1>5, <2>2, <2>4, <2>5, <2>6, <2>7, <2>8 DEF IInv, ClientInv
<1>10. QED  BY <1>8, <1>9 DEF AddClientAwaitingAuth

\* OP_CS_LoginInfo.
LEMMA OpLoginInfoInv ==
  ASSUME IInv, NEW o \in Live, NEW account \in Accounts, NEW key \in Keys, OpLoginInfo(o, account, key)
  PROVE  IInv'
<1>1. PICK a : a = [account |-> account, ip |-> object[o].ip, key |-> key]  OBVIOUS
<1>2. a \in Auths
  <2>1. object[o] \in CharSelectClients  BY DEF IInv, TypeInv, Live
  <2>2. QED  BY <1>1, <2>1 DEF Auths, CharSelectClients
<1>3. PICK i : i = SelectInSeq(auths, LAMBDA x : x = a)  OBVIOUS
<1>4. i # 0 => i \in 1 .. Len(auths) /\ auths[i] = a
  <2>1. auths \in Seq(Auths)  BY DEF IInv, TypeInv
  <2>2. PICK I : I = {k \in 1 .. Len(auths) : auths[k] = a}  OBVIOUS
  <2>3. i = IF I # {} THEN Min(I) ELSE 0  BY <1>3, <2>2 DEF SelectInSeq
  <2>4. QED  BY <2>1, <2>2, <2>3, FirstOf, ZenonT(60)
<1>5. /\ CanWait
      /\ \/ /\ i # 0 /\ AuthUsed(i) /\ AddAuthed(o, a)
            /\ UNCHANGED <<awaiting, awaitingTimeouts>>
         \/ /\ i = 0 /\ AddClientAwaitingAuth(o)
            /\ UNCHANGED <<clients, auths, authTimeouts, dbQueue, admitted>>
      /\ again' = again \cup ({o} \cap (ToSet(clients) \cup ToSet(awaiting)))
      /\ UNCHANGED <<now, batch, characters, toMain, csQueue, granted>>
  BY <1>1, <1>3 DEF OpLoginInfo
<1>6. CASE /\ i # 0 /\ AuthUsed(i) /\ AddAuthed(o, a)
           /\ UNCHANGED <<awaiting, awaitingTimeouts>>
  BY <1>2, <1>4, <1>5, <1>6, LoginInfoAdmits
<1>7. CASE /\ i = 0 /\ AddClientAwaitingAuth(o)
           /\ UNCHANGED <<clients, auths, authTimeouts, dbQueue, admitted>>
  BY <1>5, <1>7, LoginInfoWaits
<1>8. QED  BY <1>5, <1>6, <1>7

\* A further authorisation takes none away.
LEMMA GrantsGrow ==
  ASSUME TypeInv, NEW a \in Auths, granted' = Count(granted, a)
  PROVE  /\ granted' \in [Auths -> Nat] /\ GrantedAccounts \subseteq GrantedAccounts'
         /\ a.account \in GrantedAccounts'
         /\ granted'[a] = granted[a] + 1 /\ \A x \in Auths : x # a => granted'[x] = granted[x]
<1>1. granted \in [Auths -> Nat]  BY DEF TypeInv
<1>2. /\ Count(granted, a) \in [Auths -> Nat] /\ Count(granted, a)[a] = granted[a] + 1
      /\ \A x \in Auths : x # a => Count(granted, a)[x] = granted[x]
  BY <1>1, CountIs
<1>3. granted'[a] = granted[a] + 1 /\ \A x \in Auths : x # a => granted'[x] = granted[x]  BY <1>2
<1>4. granted'[a] > 0 /\ \A x \in Auths : granted[x] > 0 => granted'[x] > 0  BY <1>1, <1>3
<1>5. GrantedAccounts \subseteq GrantedAccounts' /\ a.account \in GrantedAccounts'
  BY <1>4 DEF GrantedAccounts
<1>6. QED  BY <1>2, <1>3, <1>5

\* Queries were asked for accounts that stay authorized.
LEMMA QueriesGrow ==
  ASSUME QueryInv, GrantedAccounts \subseteq GrantedAccounts',
         \A q \in ToSet(dbQueue') : IsWrite(q) => q \in ToSet(dbQueue),
         UNCHANGED <<batch, toMain, characters>>
  PROVE  QueryInv'
<1>1. ToSet(batch') = ToSet(batch) /\ toMain' = toMain /\ characters' = characters  OBVIOUS
<1>2. QED  BY <1>1 DEF QueryInv

\* An authorisation finds a client that waits only if that client sent
\* OP_CS_LoginInfo again: one that did not has account -1 (csc_check_auth).
LEMMA LoginAuthFinds ==
  ASSUME IInv, NEW a \in Auths, NEW garbage \in BOOLEAN, NEW i,
         i = SelectInSeq(awaiting, LAMBDA o : IF o \in Live THEN CheckAuth(object[o], a) ELSE garbage),
         i # 0
  PROVE  i \in 1 .. Len(awaiting) /\ awaiting[i] \in again /\ awaiting[i] \in Objects
<1>1. awaiting \in Seq(Objects)  BY DEF IInv, TypeInv
<1>2. PICK I : I = {k \in 1 .. Len(awaiting) :
                      IF awaiting[k] \in Live THEN CheckAuth(object[awaiting[k]], a) ELSE garbage}
  OBVIOUS
<1>3. i = IF I # {} THEN Min(I) ELSE 0  BY <1>2 DEF SelectInSeq
<1>4. I \subseteq Nat  BY <1>2
<1>5. i \in I  BY <1>3, <1>4, LeastElement
<1>6. i \in 1 .. Len(awaiting) /\ (awaiting[i] \in Live => CheckAuth(object[awaiting[i]], a))
  BY <1>2, <1>5
<1>7. awaiting[i] \in Objects /\ awaiting[i] \in ToSet(awaiting)  BY <1>1, <1>6, Members
<1>8. a.account \in Accounts /\ None \notin Accounts  BY CharSelectAssumption DEF Auths
<1>9. CASE awaiting[i] \in Live
  <2>1. object[awaiting[i]].accountId = a.account  BY <1>6, <1>9 DEF CheckAuth
  <2>2. object[awaiting[i]].accountId # None  BY <1>8, <2>1
  <2>3. awaiting[i] \in again  BY <1>6, <1>9, <2>2 DEF IInv, ClientInv, WaitInv
  <2>4. QED  BY <1>6, <1>7, <2>3
<1>10. CASE awaiting[i] \notin Live
  BY <1>6, <1>7, <1>10 DEF IInv, ClientInv, ListedAreLive
<1>11. QED  BY <1>9, <1>10

\* The authorisation lets a waiting client in.
LEMMA LoginAuthAdmits ==
  ASSUME IInv, NEW a \in Auths, NEW i \in 1 .. Len(awaiting), awaiting[i] \in again,
         AddAuthed(awaiting[i], a), granted' = Count(granted, a),
         awaiting' = PopSwap(awaiting, i), awaitingTimeouts' = PopSwap(awaitingTimeouts, i),
         UNCHANGED <<auths, authTimeouts, now, batch, characters, toMain, csQueue, again>>
  PROVE  IInv'
<1>1. TypeInv /\ GrantInv /\ QueryInv /\ ClientInv  BY DEF IInv
<1>2. awaiting \in Seq(Objects) /\ awaitingTimeouts \in Seq(Nat) /\ Len(awaitingTimeouts) = Len(awaiting)
  BY <1>1 DEF TypeInv
<1>3. PICK o : o = awaiting[i]  OBVIOUS
<1>4. o \in Objects /\ o \in ToSet(awaiting) /\ o \in again /\ o \in again'  BY <1>2, <1>3, Members
<1>5. AddAuthed(o, a)  BY <1>3
<1>6. /\ clients' \in Seq(Objects) /\ ObjectsAuthed(o, a) /\ failures' \in 0 .. MaxFailures
      /\ dbQueue' \in Seq(Queries) /\ \A q \in ToSet(dbQueue') : IsWrite(q) => q \in ToSet(dbQueue)
      /\ admitted' \in {admitted, Count(admitted, a)}
  BY <1>1, <1>4, <1>5, AddAuthedIs
<1>7. /\ granted' \in [Auths -> Nat] /\ GrantedAccounts \subseteq GrantedAccounts'
      /\ a.account \in GrantedAccounts'
      /\ granted'[a] = granted[a] + 1 /\ \A x \in Auths : x # a => granted'[x] = granted[x]
  BY <1>1, GrantsGrow
<1>8. /\ awaiting' \in Seq(Objects) /\ ToSet(awaiting') \subseteq ToSet(awaiting)
      /\ (\A x : Once(awaiting, x) => Once(awaiting', x))
      /\ awaitingTimeouts' \in Seq(Nat) /\ Len(awaitingTimeouts') = Len(awaiting')
      /\ EntriesOf(awaiting', awaitingTimeouts', awaiting, awaitingTimeouts)
  <2>1. PICK s, ts, N, r, rt : /\ s = awaiting /\ ts = awaitingTimeouts /\ N = Nat
                               /\ r = PopSwap(s, i) /\ rt = PopSwap(ts, i)
    OBVIOUS
  <2>2. s \in Seq(Objects) /\ ts \in Seq(N) /\ Len(ts) = Len(s) /\ i \in 1 .. Len(s)  BY <1>2, <2>1
  <2>3. r = PopSwap(s, i) /\ rt = PopSwap(ts, i)  BY <2>1
  <2>4. r \in Seq(Objects) /\ ToSet(r) \subseteq ToSet(s) /\ \A x : Once(s, x) => Once(r, x)
    BY <2>2, <2>3, PopSwapped
  <2>5. rt \in Seq(N) /\ Len(rt) = Len(r) /\ EntriesOf(r, rt, s, ts)  BY <2>2, <2>3, PoppedAlike
  <2>6. awaiting' = r /\ awaitingTimeouts' = rt  BY <2>1
  <2>7. QED  BY <2>1, <2>4, <2>5, <2>6
<1>9. /\ Count(admitted, a) \in [Auths -> Nat] /\ Count(admitted, a)[a] = admitted[a] + 1
      /\ \A x \in Auths : x # a => Count(admitted, a)[x] = admitted[x]
      /\ admitted \in [Auths -> Nat] /\ granted \in [Auths -> Nat]
  BY <1>1, CountIs DEF TypeInv
<1>10. TypeInv'  BY <1>1, <1>6, <1>7, <1>8, <1>9 DEF TypeInv, ObjectsAuthed
<1>11. QueryInv'  BY <1>1, <1>6, <1>7, QueriesGrow
<1>12. GrantInv'
  <2>1. ASSUME NEW x \in Auths PROVE admitted'[x] + Occurs(auths, x) <= granted'[x]
    <3>1. admitted[x] \in Nat /\ granted[x] \in Nat  BY <1>9
    <3>2. Occurs(auths, x) \in Nat
      <4>1. auths \in Seq(Auths)  BY <1>1 DEF TypeInv
      <4>2. QED  BY <4>1, OccursIs
    <3>3. admitted[x] + Occurs(auths, x) <= granted[x]  BY <1>1 DEF GrantInv
    <3>4. \/ admitted'[x] = admitted[x] /\ granted'[x] \in {granted[x], granted[x] + 1}
          \/ admitted'[x] = admitted[x] + 1 /\ granted'[x] = granted[x] + 1
      BY <1>6, <1>7, <1>9
    <3>5. QED  BY <3>1, <3>2, <3>3, <3>4
  <2>2. auths' = auths  OBVIOUS
  <2>3. QED  BY <2>1, <2>2 DEF GrantInv
<1>13. ClientInv'
  <2>1. again \subseteq again'  OBVIOUS
  <2>2. QED  BY <1>1, <1>4, <1>5, <1>7, <1>8, <2>1, ClientAdmitted
<1>14. QED  BY <1>10, <1>11, <1>12, <1>13 DEF IInv

\* The authorisation waits for its client, or is lost.
LEMMA LoginAuthWaits ==
  ASSUME IInv, NEW a \in Auths, granted' = Count(granted, a),
         UNCHANGED <<object, clients, awaiting, awaitingTimeouts, dbQueue, admitted>>,
         UNCHANGED <<now, batch, characters, toMain, csQueue, again>>,
         failures' \in 0 .. MaxFailures,
         \/ auths' = Append(auths, a) /\ authTimeouts' = Append(authTimeouts, now + Timeout)
         \/ UNCHANGED <<auths, authTimeouts>>
  PROVE  IInv'
<1>1. TypeInv /\ GrantInv /\ QueryInv /\ ClientInv  BY DEF IInv
<1>2. /\ granted' \in [Auths -> Nat] /\ GrantedAccounts \subseteq GrantedAccounts'
      /\ granted'[a] = granted[a] + 1 /\ \A x \in Auths : x # a => granted'[x] = granted[x]
  BY <1>1, GrantsGrow
<1>3. /\ auths \in Seq(Auths) /\ authTimeouts \in Seq(Nat) /\ Len(authTimeouts) = Len(auths)
      /\ admitted \in [Auths -> Nat] /\ granted \in [Auths -> Nat]
  BY <1>1 DEF TypeInv
<1>4. now + Timeout \in Nat  BY <1>1, CharSelectAssumption, SMTT(30) DEF TypeInv
<1>5. PICK s, t : s = auths /\ t = Append(s, a)  OBVIOUS
<1>6. s \in Seq(Auths) /\ t = Append(s, a)  BY <1>3, <1>5
<1>7. (\A x : x # a => Occurs(t, x) <= Occurs(s, x)) /\ Occurs(t, a) <= Occurs(s, a) + 1
  BY <1>6, OnceAppended
<1>8. t \in Seq(Auths) /\ Len(t) = Len(s) + 1  BY <1>6
<1>9. \A x : Occurs(t, x) \in Nat /\ Occurs(s, x) \in Nat  BY <1>6, <1>8, OccursIs
<1>10. auths' \in {s, t}  BY <1>5
<1>11. \A x \in Auths : admitted[x] + Occurs(s, x) <= granted[x]  BY <1>1, <1>5 DEF GrantInv
<1>12. ASSUME NEW x \in Auths
       PROVE  admitted[x] + Occurs(s, x) <= granted'[x] /\ admitted[x] + Occurs(t, x) <= granted'[x]
  <2>1. admitted[x] \in Nat /\ granted[x] \in Nat /\ Occurs(s, x) \in Nat /\ Occurs(t, x) \in Nat
    BY <1>3, <1>9
  <2>2. admitted[x] + Occurs(s, x) <= granted[x]  BY <1>11
  <2>3. CASE x = a
    <3>1. granted'[x] = granted[x] + 1 /\ Occurs(t, x) <= Occurs(s, x) + 1  BY <1>2, <1>7, <2>3
    <3>2. QED  BY <2>1, <2>2, <3>1
  <2>4. CASE x # a
    <3>1. granted'[x] = granted[x] /\ Occurs(t, x) <= Occurs(s, x)  BY <1>2, <1>7, <2>4
    <3>2. QED  BY <2>1, <2>2, <3>1
  <2>5. QED  BY <2>3, <2>4
<1>13. GrantInv'
  <2>1. admitted' = admitted  OBVIOUS
  <2>2. CASE auths' = s  BY <1>12, <2>1, <2>2 DEF GrantInv
  <2>3. CASE auths' = t  BY <1>12, <2>1, <2>3 DEF GrantInv
  <2>4. QED  BY <1>10, <2>2, <2>3
<1>14. auths' \in Seq(Auths) /\ authTimeouts' \in Seq(Nat) /\ Len(authTimeouts') = Len(auths')
  <2>1. CASE auths' = Append(auths, a) /\ authTimeouts' = Append(authTimeouts, now + Timeout)
    <3>1. PICK e \in Nat : e = now + Timeout  BY <1>4
    <3>2. Append(authTimeouts, e) \in Seq(Nat) /\ Len(Append(authTimeouts, e)) = Len(authTimeouts) + 1
      BY <1>3, SMTT(30)
    <3>3. QED  BY <1>3, <1>5, <1>8, <2>1, <3>1, <3>2
  <2>2. CASE UNCHANGED <<auths, authTimeouts>>  BY <1>3, <2>2
  <2>3. QED  BY <2>1, <2>2
<1>15. TypeInv'  BY <1>1, <1>2, <1>14 DEF TypeInv
<1>16. QueryInv'
  <2>1. \A q \in ToSet(dbQueue') : IsWrite(q) => q \in ToSet(dbQueue)  OBVIOUS
  <2>2. QED  BY <1>1, <1>2, <2>1, QueriesGrow
<1>17. ClientInv'
  <2>1. Live' = Live  BY DEF Live
  <2>2. AccountInv /\ OnceInv /\ WaitInv /\ ListedInv /\ ListedAreLive  BY <1>1 DEF ClientInv
  <2>3. AccountInv'  BY <1>2, <2>1, <2>2 DEF AccountInv
  <2>4. OnceInv' /\ ListedInv'  BY <2>1, <2>2 DEF OnceInv, ListedInv
  <2>5. WaitInv'  BY <2>1, <2>2 DEF WaitInv
  <2>6. ListedAreLive'  BY <2>1, <2>2 DEF ListedAreLive
  <2>7. QED  BY <2>3, <2>4, <2>5, <2>6 DEF ClientInv
<1>18. QED  BY <1>13, <1>15, <1>16, <1>17 DEF IInv

\* cs_thread_handle_login_auth.
LEMMA LoginAuthInv ==
  ASSUME IInv, NEW a \in Auths, LoginAuth(a)
  PROVE  IInv'
<1>1. PICK garbage \in BOOLEAN :
        LET i == SelectInSeq(awaiting, LAMBDA o : IF o \in Live THEN CheckAuth(object[o], a) ELSE garbage)
        IN
        /\ granted' = Count(granted, a)
        /\ \/ /\ i # 0
              /\ AddAuthed(awaiting[i], a)
              /\ awaiting' = PopSwap(awaiting, i)
              /\ awaitingTimeouts' = PopSwap(awaitingTimeouts, i)
              /\ UNCHANGED <<auths, authTimeouts>>
           \/ /\ i = 0
              /\ auths' = Append(auths, a)
              /\ authTimeouts' = Append(authTimeouts, now + Timeout)
              /\ UNCHANGED <<object, clients, awaiting, awaitingTimeouts, dbQueue, failures, admitted>>
           \/ /\ i = 0
              /\ Spend(1)
              /\ UNCHANGED <<object, lists, dbQueue, admitted>>
        /\ UNCHANGED <<now, batch, characters, toMain, csQueue, tally, again>>
  BY DEF LoginAuth
<1>2. PICK i : i = SelectInSeq(awaiting, LAMBDA o : IF o \in Live THEN CheckAuth(object[o], a) ELSE garbage)
  OBVIOUS
<1>3. /\ granted' = Count(granted, a)
      /\ UNCHANGED <<now, batch, characters, toMain, csQueue, again>>
  BY <1>1
<1>4. failures \in 0 .. MaxFailures /\ MaxFailures \in Nat  BY CharSelectAssumption DEF IInv, TypeInv
<1>5. CASE /\ i # 0
           /\ AddAuthed(awaiting[i], a)
           /\ awaiting' = PopSwap(awaiting, i)
           /\ awaitingTimeouts' = PopSwap(awaitingTimeouts, i)
           /\ UNCHANGED <<auths, authTimeouts>>
  <2>1. i \in 1 .. Len(awaiting) /\ awaiting[i] \in again  BY <1>2, <1>5, LoginAuthFinds
  <2>2. QED  BY <1>3, <1>5, <2>1, LoginAuthAdmits
<1>6. CASE /\ auths' = Append(auths, a)
           /\ authTimeouts' = Append(authTimeouts, now + Timeout)
           /\ UNCHANGED <<object, clients, awaiting, awaitingTimeouts, dbQueue, failures, admitted>>
  <2>1. failures' \in 0 .. MaxFailures  BY <1>4, <1>6
  <2>2. QED  BY <1>3, <1>6, <2>1, LoginAuthWaits
<1>7. CASE Spend(1) /\ UNCHANGED <<object, lists, dbQueue, admitted>>
  <2>1. failures' \in 0 .. MaxFailures  BY <1>4, <1>7 DEF Spend
  <2>2. UNCHANGED <<auths, authTimeouts>>
        /\ UNCHANGED <<object, clients, awaiting, awaitingTimeouts, dbQueue, admitted>>
    BY <1>7 DEF lists
  <2>3. QED  BY <1>3, <2>1, <2>2, LoginAuthWaits
<1>8. QED  BY <1>1, <1>2, <1>5, <1>6, <1>7

-----------------------------------------------------------------------------
(* Clients come and go, and waits end.                                     *)

\* csc_init in memory that no list names, unless its last client logged in twice.
LEMMA NewClientInv ==
  ASSUME IInv, NEW ip \in Ips, NewClient(ip)
  PROVE  IInv'
<1>1. TypeInv /\ GrantInv /\ QueryInv /\ ClientInv  BY DEF IInv
<1>2. AccountInv /\ OnceInv /\ WaitInv /\ ListedInv /\ ListedAreLive  BY <1>1 DEF ClientInv
<1>3. PICK o \in Objects \ Live : object' = [object EXCEPT ![o] = NewCharSelectClient(ip)]
  <2>1. PICK free : free = {x \in Objects \ Live : x \notin Outstanding}  OBVIOUS
  <2>2. free # {} /\ object' = [object EXCEPT ![CHOOSE x \in free : TRUE] = NewCharSelectClient(ip)]
    BY <2>1 DEF NewClient
  <2>3. (CHOOSE x \in free : TRUE) \in free  BY <2>2
  <2>4. QED  BY <2>1, <2>2, <2>3
<1>4. PICK c : c = NewCharSelectClient(ip)  OBVIOUS
<1>5. c \in CharSelectClients /\ ~c.authed /\ c.accountId = None
  <2>1. 0 \in 0 .. MaxTime  BY CharSelectAssumption
  <2>2. QED  BY <1>4, <2>1 DEF NewCharSelectClient, CharSelectClients
<1>6. object \in [Objects -> CharSelectClients \cup {None}]  BY <1>1 DEF TypeInv
<1>7. object'[o] = c /\ (\A x \in Objects : x # o => object'[x] = object[x])
      /\ object' \in [Objects -> CharSelectClients \cup {None}] /\ c # None
  BY <1>3, <1>4, <1>5, <1>6, NullAssumption
<1>8. /\ clients' = clients /\ awaiting' = awaiting /\ awaitingTimeouts' = awaitingTimeouts
      /\ auths' = auths /\ authTimeouts' = authTimeouts /\ now' = now /\ dbQueue' = dbQueue
      /\ batch' = batch /\ characters' = characters /\ toMain' = toMain /\ csQueue' = csQueue
      /\ failures' = failures /\ granted' = granted /\ admitted' = admitted /\ again' = again
  BY DEF NewClient, lists, db
<1>9. Live' = Live \cup {o}  BY <1>3, <1>7 DEF Live
<1>10. TypeInv'  BY <1>1, <1>7, <1>8 DEF TypeInv
<1>11. GrantedAccounts' = GrantedAccounts  BY <1>8, GrantedSame
<1>12. GrantInv' /\ QueryInv'  BY <1>1, <1>8, <1>11 DEF GrantInv, QueryInv
<1>13. AccountInv'  BY <1>2, <1>5, <1>7, <1>9, <1>11 DEF AccountInv, Live
<1>14. OnceInv'  BY <1>2, <1>8 DEF OnceInv
<1>15. WaitInv'
  <2>1. SUFFICES ASSUME NEW k \in 1 .. Len(awaiting), awaiting[k] \notin again, awaiting[k] \in Live'
                 PROVE  awaitingTimeouts[k] = object'[awaiting[k]].until
                        /\ object'[awaiting[k]].accountId = None
    BY <1>8 DEF WaitInv
  <2>2. awaiting[k] \in ToSet(awaiting) /\ awaiting[k] \in Objects  BY <1>1, Members DEF TypeInv
  <2>3. awaiting[k] \in Live  BY <1>2, <2>1, <2>2 DEF ListedAreLive
  <2>4. awaiting[k] # o  BY <1>3, <2>3
  <2>5. QED  BY <1>2, <1>7, <2>1, <2>2, <2>3, <2>4 DEF WaitInv
<1>16. ListedInv'  BY <1>2, <1>5, <1>7, <1>8, <1>9 DEF ListedInv, Live
<1>17. ListedAreLive'  BY <1>2, <1>8, <1>9 DEF ListedAreLive
<1>18. QED  BY <1>10, <1>12, <1>13, <1>14, <1>15, <1>16, <1>17 DEF IInv, ClientInv

\* What cs_thread_remove_client_object leaves: one entry fewer at most, and of a
\* client that is listed once, none.
LEMMA RemoveClientIs ==
  ASSUME TypeInv, ClientInv, NEW o \in Objects, RemoveClient(o)
  PROVE  /\ clients' \in Seq(Objects) /\ awaiting' \in Seq(Objects)
         /\ awaitingTimeouts' \in Seq(Nat) /\ Len(awaitingTimeouts') = Len(awaiting')
         /\ EntriesOf(awaiting', awaitingTimeouts', awaiting, awaitingTimeouts)
         /\ ToSet(clients') \subseteq ToSet(clients) /\ ToSet(clients) \subseteq ToSet(clients') \cup {o}
         /\ ToSet(awaiting') \subseteq ToSet(awaiting) /\ ToSet(awaiting) \subseteq ToSet(awaiting') \cup {o}
         /\ \A x : (Once(clients, x) => Once(clients', x)) /\ (Once(awaiting, x) => Once(awaiting', x))
         /\ o \notin again => o \notin ToSet(clients') \cup ToSet(awaiting')
<1>1. /\ clients \in Seq(Objects) /\ awaiting \in Seq(Objects)
      /\ awaitingTimeouts \in Seq(Nat) /\ Len(awaitingTimeouts) = Len(awaiting)
  BY DEF TypeInv
<1>2. EntriesOf(awaiting, awaitingTimeouts, awaiting, awaitingTimeouts)  BY DEF EntriesOf
<1>3. o \notin again => /\ Once(clients, o) /\ Once(awaiting, o)
                        /\ ~(o \in ToSet(clients) /\ o \in ToSet(awaiting))
  BY DEF ClientInv, OnceInv
<1>4. PICK i, j : i = SelectInSeq(clients, LAMBDA x : x = o) /\ j = SelectInSeq(awaiting, LAMBDA x : x = o)
  OBVIOUS
<1>5. (i = 0 => o \notin ToSet(clients)) /\ (i # 0 => i \in 1 .. Len(clients) /\ clients[i] = o)
  <2>1. PICK I : I = {k \in 1 .. Len(clients) : clients[k] = o}  OBVIOUS
  <2>2. i = IF I # {} THEN Min(I) ELSE 0  BY <1>4, <2>1 DEF SelectInSeq
  <2>3. clients \in Seq(Objects)  BY <1>1
  <2>4. QED  BY <2>1, <2>2, <2>3, FirstOf, ZenonT(60)
<1>6. (j = 0 => o \notin ToSet(awaiting)) /\ (j # 0 => j \in 1 .. Len(awaiting) /\ awaiting[j] = o)
  <2>1. PICK I : I = {k \in 1 .. Len(awaiting) : awaiting[k] = o}  OBVIOUS
  <2>2. j = IF I # {} THEN Min(I) ELSE 0  BY <1>4, <2>1 DEF SelectInSeq
  <2>3. awaiting \in Seq(Objects)  BY <1>1
  <2>4. QED  BY <2>1, <2>2, <2>3, FirstOf, ZenonT(60)
<1>7. CASE i # 0 /\ clients' = PopSwap(clients, i) /\ UNCHANGED <<awaiting, awaitingTimeouts>>
  <2>1. PICK s, r : s = clients /\ r = PopSwap(s, i)  OBVIOUS
  <2>2. s \in Seq(Objects) /\ i \in 1 .. Len(s) /\ s[i] = o /\ r = PopSwap(s, i)  BY <1>1, <1>5, <1>7, <2>1
  <2>3. /\ r \in Seq(Objects) /\ ToSet(r) \subseteq ToSet(s) /\ ToSet(s) \subseteq ToSet(r) \cup {s[i]}
        /\ (\A x : Once(s, x) => Once(r, x)) /\ (Once(s, s[i]) => s[i] \notin ToSet(r))
    BY <2>2, PopSwapped
  <2>4. clients' = r /\ awaiting' = awaiting /\ awaitingTimeouts' = awaitingTimeouts  BY <1>7, <2>1
  <2>5. o \in ToSet(clients)
    <3>1. s[i] \in ToSet(s)  BY <2>2, Members
    <3>2. QED  BY <2>1, <2>2, <3>1
  <2>6. o \notin again => o \notin ToSet(r) \cup ToSet(awaiting)  BY <1>3, <2>1, <2>2, <2>3, <2>5
  <2>7. QED  BY <1>1, <1>2, <2>1, <2>2, <2>3, <2>4, <2>6
<1>8. CASE i = 0 /\ j # 0 /\ awaiting' = PopSwap(awaiting, j)
           /\ awaitingTimeouts' = PopSwap(awaitingTimeouts, j) /\ UNCHANGED clients
  <2>1. PICK s, ts, N, r, rt : /\ s = awaiting /\ ts = awaitingTimeouts /\ N = Nat
                               /\ r = PopSwap(s, j) /\ rt = PopSwap(ts, j)
    OBVIOUS
  <2>2. s \in Seq(Objects) /\ ts \in Seq(N) /\ Len(ts) = Len(s) /\ j \in 1 .. Len(s) /\ s[j] = o
    BY <1>1, <1>6, <1>8, <2>1
  <2>3. r = PopSwap(s, j) /\ rt = PopSwap(ts, j)  BY <2>1
  <2>4. /\ r \in Seq(Objects) /\ ToSet(r) \subseteq ToSet(s) /\ ToSet(s) \subseteq ToSet(r) \cup {s[j]}
        /\ (\A x : Once(s, x) => Once(r, x)) /\ (Once(s, s[j]) => s[j] \notin ToSet(r))
    BY <2>2, <2>3, PopSwapped
  <2>5. rt \in Seq(N) /\ Len(rt) = Len(r) /\ EntriesOf(r, rt, s, ts)  BY <2>2, <2>3, PoppedAlike
  <2>6. awaiting' = r /\ awaitingTimeouts' = rt /\ clients' = clients  BY <1>8, <2>1
  <2>7. o \notin again => o \notin ToSet(clients) \cup ToSet(r)  BY <1>3, <1>5, <1>8, <2>1, <2>2, <2>4
  <2>8. QED  BY <1>1, <2>1, <2>2, <2>4, <2>5, <2>6, <2>7
<1>9. CASE i = 0 /\ j = 0 /\ UNCHANGED <<clients, awaiting, awaitingTimeouts>>
  BY <1>1, <1>2, <1>5, <1>6, <1>9
<1>10. QED  BY <1>4, <1>7, <1>8, <1>9 DEF RemoveClient

\* The client is freed (UdpClients reports the disconnect last).
LEMMA DisconnectInv ==
  ASSUME IInv, NEW o \in Live, Disconnect(o)
  PROVE  IInv'
<1>1. TypeInv /\ GrantInv /\ QueryInv /\ ClientInv /\ o \in Objects  BY DEF IInv, Live
<1>2. AccountInv /\ OnceInv /\ WaitInv /\ ListedInv /\ ListedAreLive  BY <1>1 DEF ClientInv
<1>3. RemoveClient(o) /\ object' = [object EXCEPT ![o] = None]  BY DEF Disconnect
<1>4. /\ clients' \in Seq(Objects) /\ awaiting' \in Seq(Objects)
      /\ awaitingTimeouts' \in Seq(Nat) /\ Len(awaitingTimeouts') = Len(awaiting')
      /\ EntriesOf(awaiting', awaitingTimeouts', awaiting, awaitingTimeouts)
      /\ ToSet(clients') \subseteq ToSet(clients) /\ ToSet(clients) \subseteq ToSet(clients') \cup {o}
      /\ ToSet(awaiting') \subseteq ToSet(awaiting) /\ ToSet(awaiting) \subseteq ToSet(awaiting') \cup {o}
      /\ \A x : (Once(clients, x) => Once(clients', x)) /\ (Once(awaiting, x) => Once(awaiting', x))
      /\ o \notin again => o \notin ToSet(clients') \cup ToSet(awaiting')
  BY <1>1, <1>3, RemoveClientIs
<1>5. /\ auths' = auths /\ authTimeouts' = authTimeouts /\ now' = now /\ dbQueue' = dbQueue
      /\ batch' = batch /\ characters' = characters /\ toMain' = toMain /\ csQueue' = csQueue
      /\ failures' = failures /\ granted' = granted /\ admitted' = admitted /\ again' = again
  BY DEF Disconnect, db
<1>6. object'[o] = None /\ (\A x \in Objects : x # o => object'[x] = object[x])
      /\ object' \in [Objects -> CharSelectClients \cup {None}]
  BY <1>1, <1>3 DEF TypeInv
<1>7. Live' = Live \ {o}  BY <1>6 DEF Live
<1>8. TypeInv'  BY <1>1, <1>4, <1>5, <1>6 DEF TypeInv
<1>9. GrantedAccounts' = GrantedAccounts  BY <1>5, GrantedSame
<1>10. GrantInv' /\ QueryInv'  BY <1>1, <1>5, <1>9 DEF GrantInv, QueryInv
<1>11. AccountInv'  BY <1>2, <1>6, <1>7, <1>9 DEF AccountInv, Live
<1>12. OnceInv'  BY <1>2, <1>4, <1>5 DEF OnceInv
<1>13. WaitInv'
  <2>1. ASSUME NEW x \in ToSet(awaiting), x \notin again', x \in Live'
        PROVE  /\ x \notin again /\ x \in Live
               /\ object'[x].until = object[x].until /\ object'[x].accountId = object[x].accountId
    <3>1. x \in Live /\ x # o /\ x \in Objects  BY <1>7, <2>1 DEF Live
    <3>2. QED  BY <1>5, <1>6, <2>1, <3>1
  <2>2. QED  BY <1>1, <1>2, <1>4, <2>1, WaitsLeft
<1>14. ListedInv'  BY <1>2, <1>4, <1>5, <1>6, <1>7 DEF ListedInv, Live
<1>15. ListedAreLive'
  <2>1. SUFFICES ASSUME NEW x \in ToSet(clients') \cup ToSet(awaiting'), x \notin again
                 PROVE  x \in Live'
    BY <1>5 DEF ListedAreLive
  <2>2. x # o  BY <1>4, <2>1
  <2>3. x \in Live  BY <1>2, <1>4, <2>1 DEF ListedAreLive
  <2>4. QED  BY <1>7, <2>2, <2>3
<1>16. QED  BY <1>8, <1>10, <1>11, <1>12, <1>13, <1>14, <1>15 DEF IInv, ClientInv

\* The clients whose waits are over are dropped.
LEMMA KeptByExpiry ==
  ASSUME TypeInv, NEW expired, DropExpired(expired)
  PROVE  ObjectsKept /\ failures' \in 0 .. MaxFailures
<1>1. PICK wrong \in IF expired \subseteq Live THEN {{}} ELSE SUBSET Live :
        \E lost \in SUBSET ((expired \cap Live) \cup wrong) :
          /\ object' = [o \in Objects |->
               IF o \in (expired \cap Live) \cup wrong /\ object[o].drop # "pushed"
               THEN [object[o] EXCEPT !.drop = IF o \in lost THEN "failed" ELSE "pushed"]
               ELSE object[o]]
          /\ Spend(Cardinality(lost))
  BY DEF DropExpired
<1>2. PICK victims : victims = (expired \cap Live) \cup wrong  OBVIOUS
<1>3. victims \subseteq Live  BY <1>1, <1>2
<1>4. PICK lost \in SUBSET victims :
        /\ object' = [o \in Objects |->
             IF o \in victims /\ object[o].drop # "pushed"
             THEN [object[o] EXCEPT !.drop = IF o \in lost THEN "failed" ELSE "pushed"]
             ELSE object[o]]
        /\ Spend(Cardinality(lost))
  BY <1>1, <1>2
<1>5. object \in [Objects -> CharSelectClients \cup {None}]  BY DEF TypeInv
<1>6. ASSUME NEW o \in Objects
      PROVE  /\ object'[o] \in CharSelectClients \cup {None}
             /\ object'[o] # None <=> object[o] # None
             /\ o \in Live => /\ object'[o].authed = object[o].authed
                              /\ object'[o].accountId = object[o].accountId
                              /\ object'[o].until = object[o].until
  <2>1. CASE o \in victims /\ object[o].drop # "pushed"
    <3>1. object[o] \in CharSelectClients /\ object[o] # None  BY <1>3, <1>5, <2>1 DEF Live
    <3>2. PICK how \in {"failed", "pushed"} : how = IF o \in lost THEN "failed" ELSE "pushed"  OBVIOUS
    <3>3. object'[o] = [object[o] EXCEPT !.drop = how]  BY <1>4, <2>1, <3>2
    <3>4. PICK c : c = [object[o] EXCEPT !.drop = how]  OBVIOUS
    <3>5. c \in CharSelectClients /\ c.authed = object[o].authed /\ c.accountId = object[o].accountId
          /\ c.until = object[o].until
      BY <3>1, <3>4 DEF CharSelectClients
    <3>6. object'[o] = c /\ c # None  BY <3>3, <3>4, <3>5, NullAssumption
    <3>7. QED  BY <3>1, <3>5, <3>6
  <2>2. CASE ~(o \in victims /\ object[o].drop # "pushed")
    <3>1. object'[o] = object[o]  BY <1>4, <2>2
    <3>2. QED  BY <1>5, <3>1
  <2>3. QED  BY <2>1, <2>2
<1>7. object' \in [Objects -> CharSelectClients \cup {None}]
  <2>1. PICK f : f = [o \in Objects |->
             IF o \in victims /\ object[o].drop # "pushed"
             THEN [object[o] EXCEPT !.drop = IF o \in lost THEN "failed" ELSE "pushed"]
             ELSE object[o]]
    OBVIOUS
  <2>2. object' = f  BY <1>4, <2>1
  <2>3. \A o \in Objects : f[o] \in CharSelectClients \cup {None}  BY <1>6, <2>2
  <2>4. DOMAIN f = Objects /\ f = [o \in Objects |-> f[o]]  BY <2>1
  <2>5. f \in [Objects -> CharSelectClients \cup {None}]  BY <2>3, <2>4
  <2>6. QED  BY <2>2, <2>5
<1>8. ObjectsKept  BY <1>6, <1>7 DEF ObjectsKept, Live
<1>9. failures' \in 0 .. MaxFailures
  <2>1. lost \subseteq Objects  BY <1>3 DEF Live
  <2>2. IsFiniteSet(lost)  BY <2>1, CharSelectAssumption, FS_Subset
  <2>3. PICK m \in Nat : m = Cardinality(lost)  BY <2>2, FS_CardinalityType
  <2>4. failures \in 0 .. MaxFailures /\ MaxFailures \in Nat  BY CharSelectAssumption DEF TypeInv
  <2>5. Spend(m)  BY <1>4, <2>3
  <2>6. QED  BY <2>4, <2>5 DEF Spend
<1>10. QED  BY <1>8, <1>9

\* What a sweep leaves of the clients that wait or of the authorisations.
LEMMA SweptIs ==
  ASSUME NEW S, NEW s \in Seq(S), NEW ts \in Seq(Nat), Len(ts) = Len(s), NEW w, w = Sweep(s, ts)
  PROVE  /\ w.items \in Seq(S) /\ w.timeouts \in Seq(Nat) /\ Len(w.timeouts) = Len(w.items)
         /\ EntriesOf(w.items, w.timeouts, s, ts) /\ ToSet(w.items) \subseteq ToSet(s)
         /\ \A m \in 1 .. Len(s) : ~Expired(ts[m]) => s[m] \in ToSet(w.items)
         /\ \A x : Once(s, x) => Once(w.items, x)
         /\ \A x : Occurs(w.items, x) <= Occurs(s, x)
<1>1. \E v : v = Sweep(s, ts) /\ SweptFrom(v, S, s, ts, Len(s))  BY SweepLeaves
<1>2. SweptFrom(w, S, s, ts, Len(s))  BY <1>1
<1>3. PICK q, qt : q = w.items /\ qt = w.timeouts  OBVIOUS
<1>4. q \in Seq(S) /\ qt \in Seq(Nat) /\ Len(qt) = Len(q)
  BY <1>2, <1>3 DEF SweptFrom
<1>5. /\ \A j \in 1 .. Len(q) : \E m \in 1 .. Len(s) : q[j] = s[m] /\ qt[j] = ts[m]
      /\ \A m \in 1 .. Len(s) : ~Expired(ts[m]) => \E j \in 1 .. Len(q) : q[j] = s[m] /\ qt[j] = ts[m]
      /\ \A x : Once(s, x) => Once(q, x)
      /\ \A x : Occurs(q, x) <= Occurs(s, x)
  BY <1>2, <1>3 DEF SweptFrom
<1>6. ToSet(q) = {q[j] : j \in 1 .. Len(q)}  BY <1>4, Members
<1>7. ToSet(s) = {s[m] : m \in 1 .. Len(s)}  BY Members
<1>8. ToSet(q) \subseteq ToSet(s)  BY <1>5, <1>6, <1>7
<1>9. \A m \in 1 .. Len(s) : ~Expired(ts[m]) => s[m] \in ToSet(q)  BY <1>5, <1>6
<1>10. EntriesOf(q, qt, s, ts)  BY <1>5 DEF EntriesOf
<1>11. QED  BY <1>3, <1>4, <1>5, <1>8, <1>9, <1>10

\* cs_thread_check_auth_timeouts.
LEMMA CheckAuthTimeoutsInv ==
  ASSUME IInv, CheckAuthTimeouts
  PROVE  IInv'
<1>1. TypeInv /\ GrantInv /\ QueryInv /\ ClientInv  BY DEF IInv
<1>2. AccountInv /\ OnceInv /\ WaitInv /\ ListedInv /\ ListedAreLive  BY <1>1 DEF ClientInv
<1>3. /\ auths \in Seq(Auths) /\ authTimeouts \in Seq(Nat) /\ Len(authTimeouts) = Len(auths)
      /\ awaiting \in Seq(Objects) /\ awaitingTimeouts \in Seq(Nat) /\ Len(awaitingTimeouts) = Len(awaiting)
  BY <1>1 DEF TypeInv
<1>4. PICK w, v : w = Sweep(auths, authTimeouts) /\ v = Sweep(awaiting, awaitingTimeouts)  OBVIOUS
<1>5. w.items \in Seq(Auths) /\ w.timeouts \in Seq(Nat) /\ Len(w.timeouts) = Len(w.items)
      /\ \A x : Occurs(w.items, x) <= Occurs(auths, x)
  BY <1>3, <1>4, SweptIs
<1>6. /\ v.items \in Seq(Objects) /\ v.timeouts \in Seq(Nat) /\ Len(v.timeouts) = Len(v.items)
      /\ EntriesOf(v.items, v.timeouts, awaiting, awaitingTimeouts) /\ ToSet(v.items) \subseteq ToSet(awaiting)
      /\ \A x : Once(awaiting, x) => Once(v.items, x)
  BY <1>3, <1>4, SweptIs
<1>7. auths' = w.items /\ authTimeouts' = w.timeouts /\ awaiting' = v.items /\ awaitingTimeouts' = v.timeouts
  BY <1>4 DEF CheckAuthTimeouts
<1>8. ObjectsKept /\ failures' \in 0 .. MaxFailures
  <2>1. PICK expired : DropExpired(expired)  BY DEF CheckAuthTimeouts
  <2>2. QED  BY <1>1, <2>1, KeptByExpiry
<1>9. /\ clients' = clients /\ now' = now /\ dbQueue' = dbQueue
      /\ batch' = batch /\ characters' = characters /\ toMain' = toMain /\ csQueue' = csQueue
      /\ granted' = granted /\ admitted' = admitted /\ again' = again
  BY DEF CheckAuthTimeouts, db
<1>10. TypeInv'
  <2>1. auths' \in Seq(Auths) /\ authTimeouts' \in Seq(Nat) /\ Len(authTimeouts') = Len(auths')
    BY <1>5, <1>7
  <2>2. awaiting' \in Seq(Objects) /\ awaitingTimeouts' \in Seq(Nat) /\ Len(awaitingTimeouts') = Len(awaiting')
    BY <1>6, <1>7
  <2>3. QED  BY <1>1, <1>8, <1>9, <2>1, <2>2 DEF TypeInv, ObjectsKept
<1>11. GrantedAccounts' = GrantedAccounts  BY <1>9, GrantedSame
<1>12. QueryInv'  BY <1>1, <1>9, <1>11 DEF QueryInv
<1>13. GrantInv'
  <2>1. PICK q \in Seq(Auths) : q = w.items  BY <1>5
  <2>2. ASSUME NEW x \in Auths PROVE admitted[x] + Occurs(q, x) <= granted[x]
    <3>1. Occurs(q, x) \in Nat /\ Occurs(auths, x) \in Nat  BY <1>3, OccursIs
    <3>2. admitted[x] \in Nat /\ granted[x] \in Nat  BY <1>1 DEF TypeInv
    <3>3. Occurs(q, x) <= Occurs(auths, x) /\ admitted[x] + Occurs(auths, x) <= granted[x]
      BY <1>1, <1>5, <2>1 DEF GrantInv
    <3>4. QED  BY <3>1, <3>2, <3>3
  <2>3. auths' = q  BY <1>7, <2>1
  <2>4. QED  BY <1>9, <2>2, <2>3 DEF GrantInv
<1>14. Live' = Live  BY <1>8 DEF ObjectsKept, Live
<1>15. /\ EntriesOf(awaiting', awaitingTimeouts', awaiting, awaitingTimeouts)
       /\ ToSet(awaiting') \subseteq ToSet(awaiting) /\ \A x : Once(awaiting, x) => Once(awaiting', x)
  BY <1>6, <1>7
<1>16. AccountInv'  BY <1>2, <1>8, <1>11, <1>14 DEF AccountInv, ObjectsKept
<1>17. OnceInv'  BY <1>2, <1>9, <1>15 DEF OnceInv
<1>18. WaitInv'
  <2>1. \A x \in ToSet(awaiting) : x \notin again' /\ x \in Live' =>
          /\ x \notin again /\ x \in Live
          /\ object'[x].until = object[x].until /\ object'[x].accountId = object[x].accountId
    BY <1>8, <1>9, <1>14 DEF ObjectsKept
  <2>2. QED  BY <1>1, <1>2, <1>15, <2>1, WaitsLeft
<1>19. ListedInv'  BY <1>2, <1>8, <1>9, <1>14 DEF ListedInv, ObjectsKept
<1>20. ListedAreLive'  BY <1>2, <1>9, <1>14, <1>15 DEF ListedAreLive
<1>21. QED  BY <1>10, <1>12, <1>13, <1>16, <1>17, <1>18, <1>19, <1>20 DEF IInv, ClientInv

-----------------------------------------------------------------------------
(* The theorems.                                                           *)

\* The thread starts with empty lists.
LEMMA InitInv ==
  ASSUME Init
  PROVE  IInv
<1>1. Live = {}  BY DEF Init, Live
<1>2. TypeInv
  <2>1. 0 \in 0 .. MaxTime /\ 0 \in 0 .. MaxFailures  BY CharSelectAssumption
  <2>2. clients = <<>> /\ awaiting = <<>> /\ awaitingTimeouts = <<>> /\ auths = <<>> /\ authTimeouts = <<>>
        /\ dbQueue = <<>> /\ batch = <<>> /\ csQueue = <<>>
    BY DEF Init
  <2>3. object \in [Objects -> CharSelectClients \cup {None}] /\ granted \in [Auths -> Nat]
        /\ admitted \in [Auths -> Nat] /\ toMain = {} /\ characters = {} /\ now = 0 /\ failures = 0
    BY DEF Init
  <2>4. QED  BY <2>1, <2>2, <2>3 DEF TypeInv
<1>3. ToSet(clients) = {} /\ ToSet(awaiting) = {} /\ ToSet(dbQueue) = {} /\ ToSet(batch) = {}
      /\ Len(awaiting) = 0 /\ Len(clients) = 0 /\ Len(auths) = 0
  BY DEF Init, ToSet
<1>4. GrantInv
  <2>1. \A a \in Auths : At(auths, a) = {}  BY <1>3 DEF At
  <2>2. \A a \in Auths : Occurs(auths, a) = 0  BY <2>1, FS_EmptySet DEF Occurs
  <2>3. \A a \in Auths : granted[a] = 0 /\ admitted[a] = 0  BY DEF Init
  <2>4. QED  BY <2>2, <2>3 DEF GrantInv
<1>5. QueryInv  BY <1>3 DEF QueryInv, Init
<1>6. OnceInv  BY <1>3 DEF OnceInv, Once
<1>7. WaitInv  BY <1>3 DEF WaitInv
<1>8. AccountInv /\ ListedInv  BY <1>1 DEF AccountInv, ListedInv
<1>9. ListedAreLive  BY <1>3 DEF ListedAreLive
<1>10. QED  BY <1>2, <1>4, <1>5, <1>6, <1>7, <1>8, <1>9 DEF IInv, ClientInv

\* A stuttering step.
LEMMA StutterInv ==
  ASSUME IInv, UNCHANGED vars
  PROVE  IInv'
<1>1. /\ UNCHANGED <<lists, granted, admitted, again>> /\ UNCHANGED <<dbQueue, batch, toMain, characters, granted>>
      /\ now' = now /\ batch' = batch /\ csQueue' = csQueue /\ toMain' = toMain /\ characters' = characters
      /\ failures' = failures /\ object' = object
  BY DEF vars, db
<1>2. ObjectsKept  BY <1>1, KeptBySame DEF IInv
<1>3. dbQueue' \in Seq(Queries) /\ QueryInv'  BY <1>1, QueriesSame
<1>4. now' \in 0 .. MaxTime /\ batch' \in Seq(Queries) /\ failures' \in 0 .. MaxFailures
      /\ csQueue' \in Seq(Answers) /\ toMain' \subseteq Queries /\ characters' \subseteq Rows
  BY <1>1 DEF IInv, TypeInv
<1>5. QED  BY <1>1, <1>2, <1>3, <1>4, Frame

\* Every step keeps the invariant.
LEMMA NextInv ==
  ASSUME IInv, [Next]_vars
  PROVE  IInv'
<1>1. CASE \E ip \in Ips : NewClient(ip)  BY <1>1, NewClientInv
<1>2. ASSUME NEW o \in Live, Packet(o) PROVE IInv'
  <2>1. CASE \E account \in Accounts, key \in Keys : OpLoginInfo(o, account, key)  BY <2>1, OpLoginInfoInv
  <2>2. ASSUME NEW name \in Names, OpNameApproval(o, name) PROVE IInv'
    <3>1. PICK zop \in Zops : zop = "NameAvailable"  BY DEF Zops
    <3>2. object[o].authed /\ Request(o, zop, name)  BY <2>2, <3>1 DEF OpNameApproval
    <3>3. QED  BY <3>2, RequestInv
  <2>3. ASSUME NEW name \in Names, OpCreateCharacter(o, name) PROVE IInv'
    <3>1. PICK zop \in Zops : zop = "CharacterCreate"  BY DEF Zops
    <3>2. object[o].authed /\ Request(o, zop, name)  BY <2>3, <3>1 DEF OpCreateCharacter, MayCreate
    <3>3. QED  BY <3>2, RequestInv
  <2>4. ASSUME NEW name \in Names, OpDeleteCharacter(o, name) PROVE IInv'
    <3>1. PICK zop \in Zops : zop = "CharacterDelete"  BY DEF Zops
    <3>2. object[o].authed /\ Request(o, zop, name)  BY <2>4, <3>1 DEF OpDeleteCharacter
    <3>3. QED  BY <3>2, RequestInv
  <2>5. CASE \E name \in Names : OpEnter(o, name)  BY <2>5, OpEnterInv
  <2>6. CASE OpRefused(o)  BY <2>6, OpRefusedInv
  <2>7. QED  BY <1>2, <2>1, <2>2, <2>3, <2>4, <2>5, <2>6 DEF Packet
<1>3. CASE \E o \in Live : Disconnect(o)  BY <1>3, DisconnectInv
<1>4. CASE \E a \in Auths : LoginAuth(a)  BY <1>4, LoginAuthInv
<1>5. CASE CheckAuthTimeouts  BY <1>5, CheckAuthTimeoutsInv
<1>6. CASE Tick  BY <1>6, TickInv
<1>7. CASE DbDrain  BY <1>7, DbDrainInv
<1>8. CASE DbExecute  BY <1>8, DbExecuteInv
<1>9. CASE MainAnswers  BY <1>9, MainAnswersInv
<1>10. CASE HandleAnswer  BY <1>10, HandleAnswerInv
<1>11. CASE UNCHANGED vars  BY <1>11, StutterInv
<1>12. QED
  BY <1>1, <1>2, <1>3, <1>4, <1>5, <1>6, <1>7, <1>8, <1>9, <1>10, <1>11 DEF Next

\* The invariant holds in every state the threads reach.
THEOREM InductiveInvariant == Spec => []IInv
<1>1. Init => IInv  BY InitInv
<1>2. IInv /\ [Next]_vars => IInv'  BY NextInv
<1>3. QED  BY <1>1, <1>2, PTL DEF Spec

\* Every object is a CharSelectClient, and each list has as many timeouts as entries.
THEOREM TypeCorrect == Spec => []TypeOK
<1>1. IInv => TypeOK
  <2>1. SUFFICES ASSUME IInv PROVE TypeOK  OBVIOUS
  <2>2. TypeInv  BY <2>1 DEF IInv
  <2>3. \A o \in Live : object[o] \in CharSelectClients  BY <2>2 DEF TypeInv, Live
  <2>4. QED  BY <2>2, <2>3 DEF TypeInv, TypeOK, Rows, MaybeAccount
<1>2. QED  BY <1>1, InductiveInvariant, PTL

\* An authorisation of the login thread lets in at most one client
\* (cs_thread_is_auth_awaiting_client), and whatever is done to the character
\* table or asked of the main thread is done for an account it named.
THEOREM GrantsOnly == Spec => []ActsOnGrants
<1>1. IInv => ActsOnGrants
  <2>1. SUFFICES ASSUME IInv PROVE ActsOnGrants  OBVIOUS
  <2>2. TypeInv /\ GrantInv /\ QueryInv /\ AccountInv  BY <2>1 DEF IInv, ClientInv
  <2>3. ASSUME NEW a \in Auths PROVE admitted[a] <= granted[a]
    <3>1. Occurs(auths, a) \in Nat
      <4>1. auths \in Seq(Auths)  BY <2>2 DEF TypeInv
      <4>2. QED  BY <4>1, OccursIs
    <3>2. admitted[a] \in Nat /\ granted[a] \in Nat  BY <2>2 DEF TypeInv
    <3>3. admitted[a] + Occurs(auths, a) <= granted[a]  BY <2>2 DEF GrantInv
    <3>4. QED  BY <3>1, <3>2, <3>3
  <2>4. QED  BY <2>2, <2>3 DEF ActsOnGrants, AccountInv, QueryInv
<1>2. QED  BY <1>1, InductiveInvariant, PTL

\* The lists hold no freed object (cs_thread_remove_client_object), unless its
\* client sent OP_CS_LoginInfo again while it was listed.
THEOREM ListsAreLive == Spec => []ListedAreLive
<1>1. IInv => ListedAreLive  BY DEF IInv, ClientInv
<1>2. QED  BY <1>1, InductiveInvariant, PTL

\* Who may leave the list of those waiting in a step.
MayLeave(o) == o \in again \/ o \notin Live' \/ LetIn(o) \/ now > object[o].until

\* The swap of cs_thread_handle_login_auth takes one entry.
LEMMA LoginAuthLeaves ==
  ASSUME IInv, NEW a \in Auths, LoginAuth(a), NEW x \in ToSet(awaiting), x \notin ToSet(awaiting')
  PROVE  x \in again
<1>1. PICK garbage \in BOOLEAN :
        LET i == SelectInSeq(awaiting, LAMBDA o : IF o \in Live THEN CheckAuth(object[o], a) ELSE garbage)
        IN i # 0 /\ awaiting' = PopSwap(awaiting, i)
  BY DEF LoginAuth, lists
<1>2. PICK i : i = SelectInSeq(awaiting, LAMBDA o : IF o \in Live THEN CheckAuth(object[o], a) ELSE garbage)
  OBVIOUS
<1>3. i # 0 /\ awaiting' = PopSwap(awaiting, i)  BY <1>1, <1>2
<1>4. i \in 1 .. Len(awaiting) /\ awaiting[i] \in again  BY <1>2, <1>3, LoginAuthFinds
<1>5. ToSet(awaiting) \subseteq ToSet(awaiting') \cup {awaiting[i]}
  <2>1. PICK s, r : s = awaiting /\ r = PopSwap(s, i)  OBVIOUS
  <2>2. s \in Seq(Objects) /\ i \in 1 .. Len(s) /\ r = PopSwap(s, i)  BY <1>4, <2>1 DEF IInv, TypeInv
  <2>3. ToSet(s) \subseteq ToSet(r) \cup {s[i]}  BY <2>2, PopSwapped
  <2>4. awaiting' = r  BY <1>3, <2>1
  <2>5. QED  BY <2>1, <2>3, <2>4
<1>6. QED  BY <1>4, <1>5

\* cs_thread_check_auth_timeouts takes those whose timeouts are over.
LEMMA SweepTakesExpired ==
  ASSUME IInv, CheckAuthTimeouts, NEW x \in ToSet(awaiting), x \notin ToSet(awaiting')
  PROVE  x \in again \/ now > object[x].until
<1>1. TypeInv /\ WaitInv /\ ListedAreLive  BY DEF IInv, ClientInv
<1>2. awaiting \in Seq(Objects) /\ awaitingTimeouts \in Seq(Nat) /\ Len(awaitingTimeouts) = Len(awaiting)
  BY <1>1 DEF TypeInv
<1>3. PICK v : v = Sweep(awaiting, awaitingTimeouts)  OBVIOUS
<1>4. \A m \in 1 .. Len(awaiting) : ~Expired(awaitingTimeouts[m]) => awaiting[m] \in ToSet(v.items)
  BY <1>2, <1>3, SweptIs
<1>5. awaiting' = v.items  BY <1>3 DEF CheckAuthTimeouts
<1>6. PICK m \in 1 .. Len(awaiting) : awaiting[m] = x
  <2>1. ToSet(awaiting) = {awaiting[k] : k \in 1 .. Len(awaiting)}  BY <1>2, Members
  <2>2. QED  BY <2>1
<1>7. awaitingTimeouts[m] < now  BY <1>4, <1>5, <1>6 DEF Expired
<1>8. ASSUME x \notin again PROVE now > object[x].until
  <2>1. x \in Live  BY <1>1, <1>8 DEF ListedAreLive
  <2>2. awaitingTimeouts[m] = object[x].until  BY <1>1, <1>6, <1>8, <2>1 DEF WaitInv
  <2>3. awaitingTimeouts[m] \in Nat /\ now \in Nat
    <3>1. m \in 1 .. Len(awaitingTimeouts)  BY <1>2
    <3>2. awaitingTimeouts[m] \in Nat  BY <1>2, <3>1, ElementOfSeq
    <3>3. QED  BY <1>1, <3>2 DEF TypeInv
  <2>4. QED  BY <1>7, <2>2, <2>3
<1>9. QED  BY <1>8

\* Only a client that leaves, is let in, whose time is over, or that has several waits
\* stops waiting.
LEMMA WaitStep ==
  ASSUME IInv, [Next]_vars, NEW x \in ToSet(awaiting), x \notin ToSet(awaiting')
  PROVE  MayLeave(x)
<1>1. awaiting' # awaiting  OBVIOUS
<1>2. CASE \E ip \in Ips : NewClient(ip)  BY <1>1, <1>2 DEF NewClient, lists
<1>3. ASSUME NEW o \in Live, Packet(o) PROVE FALSE
  <2>1. CASE \E account \in Accounts, key \in Keys : OpLoginInfo(o, account, key)
    <3>1. awaiting' = awaiting \/ awaiting' = Append(awaiting, o)
      BY <2>1 DEF OpLoginInfo, AddClientAwaitingAuth
    <3>2. awaiting' = Append(awaiting, o)  BY <1>1, <3>1
    <3>3. awaiting \in Seq(Objects) /\ o \in Objects  BY DEF IInv, TypeInv, Live
    <3>4. PICK n \in Nat : n = Len(awaiting) /\ ToSet(awaiting) = {awaiting[k] : k \in 1 .. n}
      BY <3>3, Members
    <3>5. PICK t : t = Append(awaiting, o)  OBVIOUS
    <3>6. t \in Seq(Objects) /\ Len(t) = n + 1 /\ \A k \in 1 .. n : t[k] = awaiting[k]
      BY <3>3, <3>4, <3>5, AppendProperties
    <3>7. ToSet(t) = {t[k] : k \in 1 .. n + 1}  BY <3>6, Members
    <3>8. \A k \in 1 .. n : k \in 1 .. n + 1  OBVIOUS
    <3>9. ToSet(awaiting) \subseteq ToSet(t)  BY <3>4, <3>6, <3>7, <3>8
    <3>10. awaiting' = t  BY <3>2, <3>5
    <3>11. QED  BY <3>9, <3>10
  <2>2. CASE \E name \in Names : \/ OpNameApproval(o, name) \/ OpCreateCharacter(o, name)
                                 \/ OpDeleteCharacter(o, name)
    BY <1>1, <2>2 DEF OpNameApproval, OpCreateCharacter, OpDeleteCharacter, Request, lists
  <2>3. CASE (\E name \in Names : OpEnter(o, name)) \/ OpRefused(o)
    BY <1>1, <2>3 DEF OpEnter, OpRefused, lists
  <2>4. QED  BY <1>3, <2>1, <2>2, <2>3 DEF Packet
<1>4. ASSUME NEW o \in Live, Disconnect(o) PROVE MayLeave(x)
  <2>1. o \in Objects /\ TypeInv /\ ClientInv  BY DEF IInv, Live
  <2>2. RemoveClient(o) /\ object' = [object EXCEPT ![o] = None]  BY <1>4 DEF Disconnect
  <2>3. ToSet(awaiting) \subseteq ToSet(awaiting') \cup {o}  BY <2>1, <2>2, RemoveClientIs
  <2>4. object'[o] = None  BY <2>1, <2>2 DEF TypeInv
  <2>5. QED  BY <2>3, <2>4 DEF MayLeave, Live
<1>5. CASE \E a \in Auths : LoginAuth(a)  BY <1>5, LoginAuthLeaves DEF MayLeave
<1>6. CASE CheckAuthTimeouts  BY <1>6, SweepTakesExpired DEF MayLeave
<1>7. CASE Tick \/ DbDrain \/ DbExecute \/ MainAnswers \/ HandleAnswer \/ UNCHANGED vars
  BY <1>1, <1>7 DEF Tick, DbDrain, DbExecute, MainAnswers, HandleAnswer, lists, vars
<1>8. QED  BY <1>2, <1>3, <1>4, <1>5, <1>6, <1>7 DEF Next

\* A client stops waiting only by leaving, when an authorisation lets it in, or when its own
\* 10 s are over (cs_thread_remove_client_object, cs_thread_handle_login_auth,
\* cs_thread_check_auth_timeouts), unless it has several waits.
THEOREM WaitsInFull == Spec => NoneExpiredEarly
<1>1. IInv /\ [Next]_vars =>
        [\A o \in ToSet(awaiting) \ ToSet(awaiting') :
           o \in again \/ o \notin Live' \/ LetIn(o) \/ now > object[o].until]_vars
  BY WaitStep DEF MayLeave
<1>2. QED  BY <1>1, InductiveInvariant, PTL DEF Spec, NoneExpiredEarly
=============================================================================
