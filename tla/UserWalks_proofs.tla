-------------------------- MODULE UserWalks_proofs --------------------------
(***************************************************************************)
(* Proofs about UserWalks, for every number of threads and players and     *)
(* every set of walks.  What a broadcast promises when it returns it keeps *)
(* all along for the users it has passed.  A page is compared with the     *)
(* list of the server's users in order, which therefore has to exist: the  *)
(* lemmas on InOrder say so, by induction over the size of the set.        *)
(***************************************************************************)
EXTENDS UserWalks, FiniteSetTheorems, SequenceTheorems, WellFoundedInduction, TLAPS

\* A set of numbers has a least.
LEMMA Least ==
  ASSUME NEW T, T \subseteq Nat, T # {}
  PROVE  \E m \in T : \A k \in T : m <= k
  <1>1. PICK m \in T : \A k \in T : ~(<<k, m>> \in OpToRel(<, Nat))
    BY NatLessThanWellFounded, WFMin
  <1>2. \A k \in T : k < m => <<k, m>> \in OpToRel(<, Nat)
    BY DEF OpToRel
  <1>3. \A k \in T : ~(k < m)
    BY <1>1, <1>2, Zenon
  <1> QED
    BY <1>3

\* A finite set of numbers can be listed in order, and InOrder does it.
Lists(f, S) ==
  /\ f \in [1..Cardinality(S) -> S]
  /\ \A a, b \in 1..Cardinality(S) : a < b => f[a] < f[b]

LEMMA Prepend ==
  ASSUME NEW n \in Nat \ {0}, NEW S \in SUBSET Nat, IsFiniteSet(S), Cardinality(S) = n,
         \A T \in SUBSET Nat : IsFiniteSet(T) /\ Cardinality(T) = n - 1 => \E g : Lists(g, T)
  PROVE  \E f : Lists(f, S)
  <1>1. PICK m \in S : \A k \in S : m <= k
    BY FS_EmptySet, Least
  <1>2. PICK T : T = S \ {m}
    OBVIOUS
  <1>3. T \in SUBSET Nat /\ IsFiniteSet(T) /\ Cardinality(T) = n - 1
    BY <1>2, FS_RemoveElement
  <1>4. PICK g : Lists(g, T)
    BY <1>3
  <1>5. /\ g \in [1..(n - 1) -> T]
        /\ \A a, b \in 1..(n - 1) : a < b => g[a] < g[b]
    BY <1>3, <1>4 DEF Lists
  <1>6. \A a \in 1..(n - 1) : g[a] \in S /\ g[a] > m
    <2>1. \A k \in T : k \in S /\ k > m
      BY <1>1, <1>2
    <2> QED
      BY <1>5, <2>1
  <1> DEFINE f == [x \in 1..n |-> IF x = 1 THEN m ELSE g[x - 1]]
  <1>7. f \in [1..n -> S]
    BY <1>6
  <1>8. ASSUME NEW a \in 1..n, NEW b \in 1..n, a < b PROVE f[a] < f[b]
    <2>1. b # 1 /\ b - 1 \in 1..(n - 1) /\ f[b] = g[b - 1]
      BY <1>8
    <2>2. CASE a = 1
      BY <1>6, <2>1, <2>2
    <2>3. CASE a # 1
      <3>1. a - 1 \in 1..(n - 1) /\ f[a] = g[a - 1] /\ a - 1 < b - 1
        BY <1>8, <2>3
      <3> QED
        BY <1>5, <2>1, <3>1
    <2> QED
      BY <2>2, <2>3
  <1>9. Lists(f, S)
    BY <1>7, <1>8 DEF Lists
  <1> QED
    BY <1>9

LEMMA Listable ==
  ASSUME NEW S \in SUBSET Nat, IsFiniteSet(S)
  PROVE  \E f : Lists(f, S)
  <1> DEFINE Bad == {n \in Nat : \E T \in SUBSET Nat :
                       IsFiniteSet(T) /\ Cardinality(T) = n /\ ~\E g : Lists(g, T)}
  <1>1. ASSUME Bad # {} PROVE FALSE
    <2>1. PICK n \in Bad : \A k \in Bad : n <= k
      BY <1>1, Least
    <2>2. PICK T \in SUBSET Nat : IsFiniteSet(T) /\ Cardinality(T) = n /\ ~\E g : Lists(g, T)
      BY <2>1
    <2>3. CASE n = 0
      <3>1. T = {} /\ Cardinality(T) = 0
        BY <2>2, <2>3, FS_EmptySet
      <3>2. Lists([x \in 1..0 |-> x], T)
        BY <3>1 DEF Lists
      <3> QED
        BY <2>2, <3>2
    <2>4. CASE n # 0
      <3>1. n - 1 \in Nat /\ n - 1 \notin Bad
        BY <2>1, <2>4
      <3> QED
        BY <2>2, <2>4, <3>1, Prepend
    <2> QED
      BY <2>3, <2>4
  <1>2. Cardinality(S) \in Nat
    BY FS_CardinalityType
  <1> QED
    BY <1>1, <1>2

LEMMA InOrderLists ==
  ASSUME NEW S \in SUBSET Nat, IsFiniteSet(S)
  PROVE  /\ Lists(InOrder(S), S) /\ Cardinality(S) \in Nat
         /\ InOrder(S) \in Seq(S) /\ Len(InOrder(S)) = Cardinality(S)
         /\ \A k \in S : \E n \in 1..Cardinality(S) : InOrder(S)[n] = k
  <1>1. PICK c : c = Cardinality(S)
    OBVIOUS
  <1>2. c \in Nat
    BY <1>1, FS_CardinalityType
  <1>3. PICK f : f \in [1..c -> S] /\ \A a, b \in DOMAIN f : a < b => f[a] < f[b]
    BY <1>1, Listable DEF Lists
  <1>4. InOrder(S) \in [1..c -> S]
        /\ \A a, b \in DOMAIN InOrder(S) : a < b => InOrder(S)[a] < InOrder(S)[b]
    BY <1>1, <1>3 DEF InOrder
  <1>5. PICK g : g = InOrder(S)
    OBVIOUS
  <1>6. g \in Seq(S) /\ Len(g) = c
    BY <1>2, <1>4, <1>5
  <1>7. g \in Injection(1..c, S)
    <2>1. \A a, b \in 1..c : a < b => g[a] < g[b]
      BY <1>4, <1>5
    <2>2. g \in [1..c -> S] /\ \A a \in 1..c : g[a] \in Nat
      BY <1>4, <1>5
    <2>3. \A a, b \in 1..c : g[a] = g[b] => a = b
      BY <1>2, <2>1, <2>2
    <2> QED
      BY <2>2, <2>3 DEF Injection, IsInjective
  <1>8. Cardinality(1..c) = Cardinality(S)
    BY <1>1, <1>2, FS_Interval
  <1>9. g \in Surjection(1..c, S)
    BY <1>7, <1>8, FS_Injection
  <1>10. \A k \in S : \E n \in 1..c : g[n] = k
    BY <1>9 DEF Surjection
  <1> QED
    BY <1>1, <1>2, <1>4, <1>5, <1>6, <1>10 DEF Lists

-----------------------------------------------------------------------------
\* The registered users a walk has dealt with.
Passed(t) == {k \in Registered : k < at[t] \/ (k = at[t] /\ pc[t] # "use")}

Known(t, k) == job[t].kind = "global" \/ k \notin changed[t]
Meant(t, k) == job[t].kind = "global" \/ users[k].server = job[t].server

\* A broadcast has reached whom it was to reach among those it has passed.
CastInv(t) ==
  /\ pc[t] = "done" => Ahead(t) = {}
  /\ \A n \in 1..Len(out[t]) : out[t][n] \in Passed(t)
  /\ \A m, n \in 1..Len(out[t]) : m < n => out[t][m] < out[t][n]
  /\ \A k \in Passed(t) :
       Known(t, k) => (Meant(t, k) /\ users[k].live => Contains(out[t], k))
                      /\ (Contains(out[t], k) => Meant(t, k))
  /\ pc[t] = "use" /\ Known(t, at[t]) => Meant(t, at[t])

\* The users a page is about, and how many they are.
Listed(t) == {k \in Registered : users[k].server = job[t].server}
Total(t) == Cardinality(Listed(t))

\* The ids listed are in order; i counts the places before the iterator.
ListInv(t) ==
  /\ \A n \in 1..Len(out[t]) : out[t][n] = 0 \/ out[t][n] \in Passed(t)
  /\ \A m, n \in 1..Len(out[t]) :
       m < n /\ out[t][m] # 0 /\ out[t][n] # 0 => out[t][m] < out[t][n]
  /\ i[t] <= job[t].to
  /\ pc[t] = "use" => i[t] > job[t].from
  /\ Len(out[t]) = IF i[t] <= job[t].from THEN 0
                   ELSE IF pc[t] = "use" THEN i[t] - job[t].from - 1 ELSE i[t] - job[t].from

\* While no user has changed, the iterator is past exactly i of the users of
\* the server, in order.
ExactInv(t) ==
  /\ i[t] <= Total(t)
  /\ \A n \in 1..Total(t) : n <= i[t] => InOrder(Listed(t))[n] <= at[t]
  /\ \A n \in 1..Total(t) : n > i[t] /\ pc[t] # "done" => InOrder(Listed(t))[n] > at[t]
  /\ pc[t] = "use" => i[t] > 0 /\ InOrder(Listed(t))[i[t]] = at[t]
  /\ pc[t] = "done" =>
       i[t] >= job[t].to \/ i[t] = Total(t) \/ job[t].from >= job[t].to
  /\ \A n \in 1..Len(out[t]) : out[t][n] = users[InOrder(Listed(t))[job[t].from + n]].id

Walk == [kind : {"server", "global", "page"}, server : Servers, from : Nat, to : Nat]

WalkInv(t) ==
  /\ pc[t] = "idle" => at[t] = 0 /\ i[t] = 0 /\ out[t] = <<>> /\ changed[t] = {}
  /\ pc[t] # "idle" => job[t] \in Walk
  /\ pc[t] = "use" => at[t] \in Registered
  /\ pc[t] # "idle" /\ job[t].kind # "page" => CastInv(t)
  /\ pc[t] # "idle" /\ job[t].kind = "page" =>
       ListInv(t) /\ (changed[t] = {} => ExactInv(t))

Behind(t) == {k \in Players : k <= at[t]}

\* No more users are counted than were passed, and an id is cleared but not changed.
CountInv ==
  /\ \A t \in Threads : i[t] <= Cardinality(Behind(t))
  /\ \A k \in Registered : users[k].id \in {k, 0}

IInv == TypeOK /\ CountInv /\ \A t \in Threads : WalkInv(t)

-----------------------------------------------------------------------------
\* The keys of the map are numbers from 1 on, and finitely many.
LEMMA Keys ==
  /\ Players \subseteq Nat \ {0} /\ Registered \subseteq Players
  /\ IsFiniteSet(Registered) /\ Cardinality(Registered) \in Nat
  /\ IsFiniteSet(Players) /\ Cardinality(Players) \in Nat
  <1>1. Players \subseteq Nat \ {0} /\ Registered \subseteq Players /\ IsFiniteSet(Players)
    BY UserWalksAssumption DEF Registered
  <1> QED
    BY <1>1, FS_Subset, FS_CardinalityType

\* Where an iterator goes next.
LEMMA NextKey ==
  ASSUME TypeOK, NEW t \in Threads, Ahead(t) # {}
  PROVE  /\ MinKey(Ahead(t)) \in Registered /\ MinKey(Ahead(t)) \in Nat
         /\ MinKey(Ahead(t)) > at[t] /\ at[t] \in Nat
         /\ \A k \in Registered : k > at[t] => MinKey(Ahead(t)) <= k
  <1>1. Ahead(t) \subseteq Nat
    BY Keys DEF Ahead
  <1>2. MinKey(Ahead(t)) \in Ahead(t) /\ \A k \in Ahead(t) : MinKey(Ahead(t)) <= k
    BY <1>1, Least DEF MinKey
  <1>3. at[t] \in Players \cup {0}
    BY DEF TypeOK
  <1> QED
    <2>1. PICK a, m, A, R : a = at[t] /\ m = MinKey(Ahead(t)) /\ A = Ahead(t) /\ R = Registered
      OBVIOUS
    <2>2. Players \subseteq Nat /\ R \subseteq Players /\ a \in Players \cup {0}
      BY <1>3, <2>1, Keys
    <2>5. A = {k \in R : k > a}
      BY <2>1 DEF Ahead
    <2>6. a \in Nat /\ R \subseteq Nat
      BY <2>2
    <2>3. m \in A /\ \A k \in A : m <= k
      BY <1>2, <2>1
    <2>4. m \in R /\ m \in Nat /\ m > a /\ \A k \in R : k > a => m <= k
      BY <2>3, <2>5, <2>6
    <2> QED
      BY <2>1, <2>4, <2>6

LEMMA CountBound ==
  ASSUME TypeOK, NEW t \in Threads
  PROVE  /\ IsFiniteSet(Behind(t)) /\ Cardinality(Behind(t)) \in Nat
         /\ Cardinality(Behind(t)) <= Cardinality(Players)
  BY Keys, FS_Subset, FS_CardinalityType DEF Behind

LEMMA CountNext ==
  ASSUME TypeOK, NEW t \in Threads, Ahead(t) # {},
         at' = [at EXCEPT ![t] = MinKey(Ahead(t))]
  PROVE  /\ Cardinality(Behind(t)') \in Nat
         /\ Cardinality(Behind(t)') > Cardinality(Behind(t))
         /\ Cardinality(Behind(t)') <= Cardinality(Players)
  <1>1. PICK k, a, A, B : k = MinKey(Ahead(t)) /\ a = at[t] /\ A = Behind(t) /\ B = Behind(t)'
    OBVIOUS
  <1>2. k \in Players /\ k \in Nat /\ k > a /\ a \in Nat
    BY <1>1, NextKey, Keys
  <1>3. at'[t] = k
    BY <1>1 DEF TypeOK
  <1>4. k \notin A /\ A \cup {k} \subseteq B /\ B \subseteq Players
    <2>1. \A q \in Players : q \in Nat
      BY Keys
    <2>2. A = {q \in Players : q <= a} /\ B = {q \in Players : q <= k}
      BY <1>1, <1>3 DEF Behind
    <2>3. \A q \in Players : q <= a => q <= k
      BY <1>2, <2>1
    <2>4. ~(k <= a) /\ k <= k
      BY <1>2
    <2> QED
      BY <1>2, <2>2, <2>3, <2>4
  <1>6. IsFiniteSet(B) /\ Cardinality(B) \in Nat /\ Cardinality(B) <= Cardinality(Players)
    BY <1>4, Keys, FS_Subset, FS_CardinalityType
  <1>7. Cardinality(A \cup {k}) = Cardinality(A) + 1
    BY <1>1, <1>4, CountBound, FS_AddElement
  <1>8. Cardinality(A \cup {k}) <= Cardinality(B)
    BY <1>4, <1>6, FS_Subset
  <1> QED
    BY <1>1, <1>6, <1>7, <1>8, CountBound

LEMMA InitIInv == Init => IInv
  <1> SUFFICES ASSUME Init PROVE IInv
    OBVIOUS
  <1>1. TypeOK
    BY Keys DEF Init, TypeOK
  <1>2. CountInv
    BY <1>1, CountBound DEF Init, CountInv, Registered
  <1>3. ASSUME NEW t \in Threads PROVE WalkInv(t)
    BY DEF Init, WalkInv
  <1> QED
    BY <1>1, <1>2, <1>3 DEF IInv

\* What the steps are, for a thread and for a user.
Updates(k) ==
  \/ \E s \in Servers : SetServerID(k, s)
  \/ ClosePlayerID(k) \/ CloseServerID(k) \/ CloseState(k)

LEMMA UpdateIs ==
  ASSUME TypeOK, NEW k \in Players, Updates(k)
  PROVE  \E user \in [id : Players \cup {0}, server : Servers \cup {0}, live : BOOLEAN] :
           /\ Update(k, user) /\ users[k] # NoUser
           /\ user.id \in {users[k].id, 0}
           /\ user.live => users[k].live
  <1> DEFINE U == [id : Players \cup {0}, server : Servers \cup {0}, live : BOOLEAN]
  <1>1. PICK u : u = users[k]
    OBVIOUS
  <1>2. u # NoUser => u \in U
    BY <1>1 DEF TypeOK
  <1>3. CASE \E s \in Servers : SetServerID(k, s)
    <2>1. PICK s \in Servers : SetServerID(k, s)
      BY <1>3
    <2>2. u # NoUser /\ Update(k, [u EXCEPT !.server = s])
      BY <1>1, <2>1 DEF SetServerID
    <2>3. [u EXCEPT !.server = s] = [id |-> u.id, server |-> s, live |-> u.live]
      BY <1>2, <2>2
    <2>4. PICK v : v = [id |-> u.id, server |-> s, live |-> u.live]
      OBVIOUS
    <2>5. v \in U /\ v.id = u.id /\ (v.live => u.live)
      BY <1>2, <2>2, <2>4
    <2> QED
      BY <1>1, <2>2, <2>3, <2>4, <2>5
  <1>4. CASE ClosePlayerID(k)
    <2>1. u # NoUser /\ Update(k, [u EXCEPT !.id = 0])
      BY <1>1, <1>4 DEF ClosePlayerID
    <2>2. [u EXCEPT !.id = 0] = [id |-> 0, server |-> u.server, live |-> u.live]
      BY <1>2, <2>1
    <2>3. PICK v : v = [id |-> 0, server |-> u.server, live |-> u.live]
      OBVIOUS
    <2>4. v \in U /\ v.id = 0 /\ (v.live => u.live)
      BY <1>2, <2>1, <2>3
    <2> QED
      BY <1>1, <2>1, <2>2, <2>3, <2>4
  <1>5. CASE CloseServerID(k)
    <2>1. u # NoUser /\ Update(k, [u EXCEPT !.server = 0])
      BY <1>1, <1>5 DEF CloseServerID
    <2>2. [u EXCEPT !.server = 0] = [id |-> u.id, server |-> 0, live |-> u.live]
      BY <1>2, <2>1
    <2>3. PICK v : v = [id |-> u.id, server |-> 0, live |-> u.live]
      OBVIOUS
    <2>4. v \in U /\ v.id = u.id /\ (v.live => u.live)
      BY <1>2, <2>1, <2>3
    <2> QED
      BY <1>1, <2>1, <2>2, <2>3, <2>4
  <1>6. CASE CloseState(k)
    <2>1. u # NoUser /\ Update(k, [u EXCEPT !.live = FALSE])
      BY <1>1, <1>6 DEF CloseState
    <2>2. PICK v : v = [u EXCEPT !.live = FALSE]
      OBVIOUS
    <2>3. v \in U /\ v.id = u.id /\ v.live = FALSE
      BY <1>2, <2>1, <2>2
    <2> QED
      BY <1>1, <2>1, <2>2, <2>3
  <1> QED
    BY <1>3, <1>4, <1>5, <1>6 DEF Updates

\* What a walk begins with.
LEMMA BeginIs ==
  ASSUME TypeOK, NEW t \in Threads, NEW j \in Jobs, Begin(t, j)
  PROVE  /\ \E w \in Walk : job' = [job EXCEPT ![t] = w]
         /\ UNCHANGED <<users, at, i, out, changed>>
         /\ \/ pc' = [pc EXCEPT ![t] = "test"]
            \/ /\ pc' = [pc EXCEPT ![t] = "done"]
               /\ job'[t].kind = "page" /\ job'[t].from >= job'[t].to
  <1>1. PICK to : to = IF j.to < 0 THEN Cardinality(Registered) ELSE j.to
    OBVIOUS
  <1>2. j = [kind |-> j.kind, server |-> j.server, from |-> j.from, to |-> j.to]
        /\ j.kind \in {"server", "global", "page"} /\ j.server \in Servers
        /\ j.from \in Nat /\ j.to \in Int
    BY UserWalksAssumption
  <1>3. to \in Nat
    BY <1>1, <1>2, Keys
  <1>4. PICK w : w = [kind |-> j.kind, server |-> j.server, from |-> j.from, to |-> to]
    OBVIOUS
  <1>5. w = [j EXCEPT !.to = to] /\ w \in Walk
    BY <1>2, <1>3, <1>4 DEF Walk
  <1>6. job' = [job EXCEPT ![t] = w]
        /\ pc' = [pc EXCEPT ![t] = IF j.kind = "page" /\ j.from >= to THEN "done" ELSE "test"]
    BY <1>1, <1>5 DEF Begin
  <1>7. job'[t] = w
    BY <1>6 DEF TypeOK
  <1> QED
    BY <1>4, <1>5, <1>6, <1>7, ZenonT(30) DEF Begin

\* What an entry does to the counter and the program counter.
LEMMA VisitIs ==
  ASSUME TypeOK, NEW t \in Threads, Visit(t), job[t] \in Walk
  PROVE  \E k, c, p :
           /\ k = MinKey(Ahead(t)) /\ at' = [at EXCEPT ![t] = k]
           /\ pc' = [pc EXCEPT ![t] = p] /\ i' = [i EXCEPT ![t] = c]
           /\ UNCHANGED <<users, job, out, changed>>
           /\ job[t].kind # "page" => c = i[t] /\ p = IF Meant(t, k) THEN "use" ELSE "test"
           /\ job[t].kind = "page" =>
                \/ users[k].server # job[t].server /\ p = "test" /\ c = i[t]
                \/ /\ users[k].server = job[t].server /\ i[t] >= job[t].to
                   /\ p = "done" /\ c = i[t]
                \/ /\ users[k].server = job[t].server /\ ~(i[t] >= job[t].to)
                   /\ c = i[t] + 1 /\ p = IF i[t] >= job[t].from THEN "use" ELSE "test"
  <1>1. PICK k : k = MinKey(Ahead(t))
    OBVIOUS
  <1>2. /\ at' = [at EXCEPT ![t] = k] /\ pc[t] = "test"
        /\ VisitPage(t, k) \/ VisitServer(t, k) \/ VisitGlobal(t, k)
        /\ UNCHANGED <<users, job, out, changed>>
    BY <1>1 DEF Visit
  <1>3. i = [i EXCEPT ![t] = i[t]] /\ pc = [pc EXCEPT ![t] = "test"]
    BY <1>2 DEF TypeOK
  <1>4. PICK n, lo, hi : n = i[t] /\ lo = job[t].from /\ hi = job[t].to
    OBVIOUS
  <1>5. n \in Nat /\ lo \in Nat /\ hi \in Nat
    BY <1>4, Keys DEF Walk, TypeOK
  <1>6. n < hi <=> ~(n >= hi)
    BY <1>5
  <1>7. CASE VisitPage(t, k)
    <2>1. CASE users[k].server # job[t].server
      BY <1>1, <1>2, <1>3, <1>7, <2>1 DEF VisitPage
    <2>2. CASE users[k].server = job[t].server /\ n >= hi
      <3>1. pc' = [pc EXCEPT ![t] = "done"] /\ i' = i
        BY <1>4, <1>6, <1>7, <2>2 DEF VisitPage
      <3> QED
        BY <1>1, <1>2, <1>3, <1>4, <1>7, <2>2, <3>1 DEF VisitPage
    <2>3. CASE users[k].server = job[t].server /\ ~(n >= hi)
      <3>1. /\ i' = [i EXCEPT ![t] = n + 1]
            /\ pc' = [pc EXCEPT ![t] = IF n >= lo THEN "use" ELSE "test"]
        BY <1>2, <1>4, <1>7, <2>3 DEF VisitPage
      <3> QED
        BY <1>1, <1>2, <1>4, <1>7, <2>3, <3>1 DEF VisitPage
    <2> QED
      BY <2>1, <2>2, <2>3
  <1>8. CASE VisitServer(t, k)
    BY <1>1, <1>2, <1>3, <1>8 DEF VisitServer, Meant
  <1>9. CASE VisitGlobal(t, k)
    BY <1>1, <1>2, <1>3, <1>9 DEF VisitGlobal, Meant
  <1> QED
    BY <1>2, <1>7, <1>8, <1>9

LEMMA TypeStep ==
  ASSUME IInv, Next
  PROVE  TypeOK' /\ CountInv'
  <1> USE DEF TypeOK
  <1>0. TypeOK /\ CountInv /\ \A t \in Threads : WalkInv(t)
    BY DEF IInv
  <1>1. ASSUME NEW t \in Threads, NEW j \in Jobs, Begin(t, j)
        PROVE  TypeOK' /\ CountInv'
    <2>1. PICK w \in Walk : job' = [job EXCEPT ![t] = w]
      BY <1>0, <1>1, BeginIs
    <2>4. PICK p \in {"test", "done"} : pc' = [pc EXCEPT ![t] = p]
      BY <1>0, <1>1, BeginIs
    <2>5. UNCHANGED <<users, at, i, out, changed>>
      BY <1>0, <1>1, BeginIs
    <2>2. TypeOK'
      BY <1>0, <2>1, <2>4, <2>5 DEF Walk
    <2>3. CountInv'
      BY <1>0, <2>5 DEF CountInv, Behind, Registered
    <2> QED
      BY <2>2, <2>3
  <1>2. ASSUME NEW t \in Threads, Visit(t) PROVE TypeOK' /\ CountInv'
    <2>1. pc[t] = "test" /\ Ahead(t) # {} /\ job[t] \in Walk
      BY <1>0, <1>2 DEF Visit, WalkInv
    <2>2. PICK k, c, p :
            /\ k = MinKey(Ahead(t)) /\ at' = [at EXCEPT ![t] = k]
            /\ pc' = [pc EXCEPT ![t] = p] /\ i' = [i EXCEPT ![t] = c]
            /\ UNCHANGED <<users, job, out, changed>>
            /\ p \in {"test", "use", "done"} /\ c \in {i[t], i[t] + 1}
      <3>1. CASE job[t].kind = "page"
        BY <1>0, <1>2, <2>1, <3>1, VisitIs
      <3>2. CASE job[t].kind # "page"
        BY <1>0, <1>2, <2>1, <3>2, VisitIs
      <3> QED
        BY <3>1, <3>2
    <2>3. k \in Players
      BY <1>0, <2>1, <2>2, NextKey, Keys
    <2>4. PICK n, m : n = Cardinality(Behind(t)) /\ m = Cardinality(Behind(t)')
      OBVIOUS
    <2>5. n \in Nat /\ m \in Nat /\ m > n /\ m <= Cardinality(Players)
      BY <1>0, <2>1, <2>2, <2>4, CountBound, CountNext
    <2>6. PICK b : b = i[t]
      OBVIOUS
    <2>7. b \in Nat /\ b <= n /\ c \in {b, b + 1}
      BY <1>0, <2>2, <2>4, <2>6, Keys DEF CountInv
    <2>8. c \in Nat /\ c <= m /\ c <= Cardinality(Players)
      BY <2>5, <2>7, Keys
    <2>9. TypeOK'
      BY <1>0, <2>2, <2>3, <2>8, Keys
    <2>10. \A u \in Threads : i'[u] <= Cardinality(Behind(u)')
      <3>1. i'[t] = c
        BY <1>0, <2>2
      <3>2. ASSUME NEW u \in Threads, u # t PROVE i'[u] = i[u] /\ Behind(u)' = Behind(u)
        BY <1>0, <2>2, <3>2 DEF Behind
      <3> QED
        BY <1>0, <2>4, <2>8, <3>1, <3>2 DEF CountInv
    <2> QED
      BY <1>0, <2>2, <2>9, <2>10 DEF CountInv, Registered
  <1>3. ASSUME NEW t \in Threads, ListUser(t) \/ SendBufferPtr(t) \/ End(t)
        PROVE  TypeOK' /\ CountInv'
    <2>1. CASE ListUser(t)
      <3>1. at[t] \in Registered
        BY <1>0, <2>1 DEF ListUser, WalkInv
      <3>2. users[at[t]].id \in Players \cup {0}
        BY <1>0, <3>1, Keys DEF Registered
      <3> QED
        BY <1>0, <2>1, <3>2 DEF ListUser, CountInv, Behind, Registered
    <2>2. CASE SendBufferPtr(t)
      BY <1>0, <2>2 DEF SendBufferPtr, CountInv, Behind, Registered
    <2>3. CASE End(t)
      BY <1>0, <2>3 DEF End, CountInv, Behind, Registered
    <2> QED
      BY <1>3, <2>1, <2>2, <2>3
  <1>4. ASSUME NEW t \in Threads, Return(t) PROVE TypeOK' /\ CountInv'
    <2>1. TypeOK'
      BY <1>0, <1>4, Keys DEF Return
    <2>2. \A u \in Threads : i'[u] <= Cardinality(Behind(u)')
      <3>1. i'[t] = 0 /\ Cardinality(Behind(t)') \in Nat
        <4>1. Behind(t)' \subseteq Players
          BY DEF Behind
        <4> QED
          BY <1>0, <1>4, <4>1, Keys, FS_Subset, FS_CardinalityType DEF Return
      <3>2. ASSUME NEW u \in Threads, u # t PROVE i'[u] = i[u] /\ Behind(u)' = Behind(u)
        BY <1>0, <1>4, <3>2 DEF Behind, Return
      <3>3. i'[t] <= Cardinality(Behind(t)')
        <4>1. PICK m, c : m = Cardinality(Behind(t)') /\ c = i'[t]
          OBVIOUS
        <4>2. c = 0 /\ m \in Nat
          BY <3>1, <4>1
        <4> QED
          BY <4>1, <4>2
      <3>4. \A u \in Threads : i[u] <= Cardinality(Behind(u))
        BY <1>0 DEF CountInv
      <3> QED
        BY <3>2, <3>3, <3>4
    <2> QED
      BY <1>0, <1>4, <2>1, <2>2 DEF CountInv, Return, Registered
  <1>5. ASSUME NEW k \in Players, AddUser(k) \/ RemoveUser(k) PROVE TypeOK' /\ CountInv'
    <2>1. CASE AddUser(k)
      <3>1. [id |-> k, server |-> 0, live |-> TRUE] \in
              [id : Players \cup {0}, server : Servers \cup {0}, live : BOOLEAN]
        OBVIOUS
      <3> QED
        BY <1>0, <2>1, <3>1 DEF AddUser, CountInv, Behind, Registered
    <2>2. CASE RemoveUser(k)
      BY <1>0, <2>2 DEF RemoveUser, CountInv, Behind, Registered
    <2> QED
      BY <1>5, <2>1, <2>2
  <1>6. ASSUME NEW k \in Players, Updates(k) PROVE TypeOK' /\ CountInv'
    <2>1. PICK user \in [id : Players \cup {0}, server : Servers \cup {0}, live : BOOLEAN] :
            /\ Update(k, user) /\ users[k] # NoUser
            /\ user.id \in {users[k].id, 0}
      BY <1>0, <1>6, UpdateIs
    <2> QED
      BY <1>0, <2>1 DEF Update, CountInv, Behind, Registered
  <1> QED
    BY <1>1, <1>2, <1>3, <1>4, <1>5, <1>6 DEF Next, Updates

-----------------------------------------------------------------------------
\* A walk is not disturbed by a step that changes neither it nor the users.
LEMMA OtherWalk ==
  ASSUME NEW t \in Threads, WalkInv(t), users' = users, job'[t] = job[t], pc'[t] = pc[t],
         at'[t] = at[t], i'[t] = i[t], out'[t] = out[t], changed'[t] = changed[t]
  PROVE  WalkInv(t)'
  <1>1. /\ Registered' = Registered /\ Passed(t)' = Passed(t) /\ Ahead(t)' = Ahead(t)
        /\ Listed(t)' = Listed(t) /\ Total(t)' = Total(t)
    BY DEF Registered, Passed, Ahead, Listed, Total
  <1>2. CastInv(t) => CastInv(t)'
    BY <1>1 DEF CastInv, Known, Meant
  <1>3. ListInv(t) => ListInv(t)'
    BY <1>1 DEF ListInv
  <1>4. ExactInv(t) => ExactInv(t)'
    BY <1>1 DEF ExactInv
  <1> QED
    BY <1>1, <1>2, <1>3, <1>4 DEF WalkInv

\* Where a walk is when its iterator moves on, and when it is through with an entry.
LEMMA PassedMove ==
  ASSUME TypeOK, NEW t \in Threads, pc[t] = "test", Ahead(t) # {}, users' = users,
         at' = [at EXCEPT ![t] = MinKey(Ahead(t))]
  PROVE  /\ Passed(t) = {k \in Registered : k <= at[t]}
         /\ pc'[t] = "use" => Passed(t)' = Passed(t)
         /\ pc'[t] # "use" => Passed(t)' = Passed(t) \cup {MinKey(Ahead(t))}
         /\ MinKey(Ahead(t)) \notin Passed(t) /\ \A k \in Passed(t) : k < MinKey(Ahead(t))
  <1>1. PICK k, a, R : k = MinKey(Ahead(t)) /\ a = at[t] /\ R = Registered
    OBVIOUS
  <1>2. R \subseteq Nat /\ a \in Nat /\ k \in R /\ k > a /\ \A q \in R : q > a => k <= q
    <2>1. R \subseteq Nat
      BY <1>1, Keys
    <2> QED
      BY <1>1, <2>1, NextKey
  <1>3. at'[t] = k /\ Registered' = R
    BY <1>1 DEF TypeOK, Registered
  <1>4. Passed(t) = {q \in R : q < a \/ q = a}
    BY <1>1 DEF Passed
  <1>5. Passed(t)' = {q \in R : q < k \/ (q = k /\ pc'[t] # "use")}
    BY <1>3 DEF Passed
  <1>6. \A q \in R : (q < a \/ q = a <=> q <= a) /\ (q <= a <=> q < k)
    BY <1>2
  <1>7. Passed(t) = {q \in R : q <= a} /\ Passed(t) = {q \in R : q < k}
    BY <1>4, <1>6
  <1>8. ~(k <= a) /\ ~(k < k)
    BY <1>2
  <1> QED
    BY <1>1, <1>2, <1>5, <1>7, <1>8

LEMMA PassedUse ==
  ASSUME TypeOK, NEW t \in Threads, pc[t] = "use", pc' = [pc EXCEPT ![t] = "test"],
         at[t] \in Registered, users' = users, at' = at
  PROVE  /\ Passed(t)' = Passed(t) \cup {at[t]}
         /\ at[t] \notin Passed(t) /\ \A k \in Passed(t) : k < at[t]
  <1>1. PICK a, R : a = at[t] /\ R = Registered
    OBVIOUS
  <1>2. R \subseteq Nat /\ a \in R /\ ~(a < a)
    <2>1. R \subseteq Nat
      BY <1>1, Keys
    <2>2. a \in R
      BY <1>1
    <2>3. a \in Nat
      BY <2>1, <2>2
    <2> QED
      BY <2>1, <2>2, <2>3
  <1>3. at'[t] = a /\ Registered' = R /\ pc'[t] = "test"
    BY <1>1 DEF TypeOK, Registered
  <1>4. Passed(t) = {q \in R : q < a} /\ Passed(t)' = {q \in R : q < a \/ q = a}
    BY <1>1, <1>3 DEF Passed
  <1> QED
    BY <1>1, <1>2, <1>4

\* One more entry in a list.
LEMMA AppendIs ==
  ASSUME NEW S, NEW s \in Seq(S), NEW e \in S
  PROVE  /\ Append(s, e) \in Seq(S) /\ Len(s) \in Nat /\ Len(Append(s, e)) = Len(s) + 1
         /\ \A n \in 1..Len(s) : Append(s, e)[n] = s[n]
         /\ Append(s, e)[Len(s) + 1] = e
         /\ \A x : Contains(Append(s, e), x) <=> Contains(s, x) \/ x = e
  <1>1. PICK r, l : r = Append(s, e) /\ l = Len(s)
    OBVIOUS
  <1>2. /\ r \in Seq(S) /\ l \in Nat /\ Len(r) = l + 1
        /\ \A n \in 1..l : r[n] = s[n]
        /\ r[l + 1] = e
    BY <1>1, AppendProperties, LenProperties
  <1>3. ASSUME NEW x PROVE Contains(r, x) <=> Contains(s, x) \/ x = e
    <2>1. \A n \in 1..(l + 1) : n \in 1..l \/ n = l + 1
      BY <1>2
    <2>2. \A n \in 1..l : n \in 1..(l + 1)
      BY <1>2
    <2>3. l + 1 \in 1..(l + 1)
      BY <1>2
    <2> QED
      BY <1>1, <1>2, <2>1, <2>2, <2>3 DEF Contains
  <1> QED
    BY <1>1, <1>2, <1>3

-----------------------------------------------------------------------------
\* Broadcasts.

LEMMA CastVisit ==
  ASSUME TypeOK, NEW t \in Threads, Visit(t), job[t] \in Walk, job[t].kind # "page", CastInv(t)
  PROVE  CastInv(t)'
  <1>1. pc[t] = "test" /\ Ahead(t) # {}
    BY DEF Visit
  <1>2. PICK k, c, p :
          /\ k = MinKey(Ahead(t)) /\ at' = [at EXCEPT ![t] = k]
          /\ pc' = [pc EXCEPT ![t] = p] /\ i' = [i EXCEPT ![t] = c]
          /\ UNCHANGED <<users, job, out, changed>>
          /\ p = IF Meant(t, k) THEN "use" ELSE "test"
    BY VisitIs
  <1>3. pc'[t] = p /\ at'[t] = k
    BY <1>2 DEF TypeOK
  <1>4. /\ pc'[t] = "use" => Passed(t)' = Passed(t)
        /\ pc'[t] # "use" => Passed(t)' = Passed(t) \cup {k}
        /\ k \notin Passed(t)
    BY <1>1, <1>2, PassedMove
  <1>5. \A q : (Known(t, q)' <=> Known(t, q)) /\ (Meant(t, q)' <=> Meant(t, q))
    BY <1>2 DEF Known, Meant
  <1>6. ~Contains(out[t], k)
    BY <1>4 DEF CastInv, Contains
  <1>7. /\ \A n \in 1..Len(out'[t]) : out'[t][n] \in Passed(t)'
        /\ \A m, n \in 1..Len(out'[t]) : m < n => out'[t][m] < out'[t][n]
    BY <1>2, <1>4 DEF CastInv
  <1>8. ASSUME NEW q \in Passed(t)', Known(t, q)'
        PROVE  (Meant(t, q)' /\ users'[q].live => Contains(out'[t], q))
               /\ (Contains(out'[t], q) => Meant(t, q)')
    <2>1. CASE q \in Passed(t)
      BY <1>2, <1>5, <1>8, <2>1 DEF CastInv
    <2>2. CASE q = k /\ ~Meant(t, k)
      BY <1>2, <1>5, <1>6, <2>2
    <2> QED
      BY <1>2, <1>3, <1>4, <1>8, <2>1, <2>2
  <1>9. pc'[t] # "done" /\ (pc'[t] = "use" => Meant(t, k)')
    BY <1>2, <1>3, <1>5
  <1> QED
    BY <1>3, <1>7, <1>8, <1>9 DEF CastInv

LEMMA CastSend ==
  ASSUME TypeOK, NEW t \in Threads, SendBufferPtr(t), at[t] \in Registered, CastInv(t)
  PROVE  CastInv(t)'
  <1>1. PICK k, s : k = at[t] /\ s = out[t]
    OBVIOUS
  <1>2. s \in Seq(Players \cup {0}) /\ k \in Players \cup {0} /\ Len(s) \in Nat
    BY <1>1 DEF TypeOK
  <1>3. /\ pc[t] = "use" /\ pc' = [pc EXCEPT ![t] = "test"] /\ pc'[t] = "test"
        /\ UNCHANGED <<users, job, at, i, changed>>
        /\ out'[t] = IF users[k].live THEN Append(s, k) ELSE s
    BY <1>1 DEF SendBufferPtr, TypeOK
  <1>4. /\ Passed(t)' = Passed(t) \cup {k} /\ k \notin Passed(t)
        /\ \A q \in Passed(t) : q < k
    BY <1>1, <1>3, PassedUse
  <1>5. \A q : (Known(t, q)' <=> Known(t, q)) /\ (Meant(t, q)' <=> Meant(t, q))
    BY <1>3 DEF Known, Meant
  <1>6. /\ \A n \in 1..Len(s) : s[n] \in Passed(t)
        /\ \A m, n \in 1..Len(s) : m < n => s[m] < s[n]
        /\ ~Contains(s, k)
        /\ Known(t, k) => Meant(t, k)
    BY <1>1, <1>3, <1>4 DEF CastInv, Contains
  <1>7. PICK r : r = out'[t]
    OBVIOUS
  <1>8. CASE users[k].live
    <2>1. r = Append(s, k)
      BY <1>3, <1>7, <1>8
    <2>2. /\ Len(r) = Len(s) + 1 /\ \A n \in 1..Len(s) : r[n] = s[n]
          /\ r[Len(s) + 1] = k /\ \A x : Contains(r, x) <=> Contains(s, x) \/ x = k
      BY <1>2, <2>1, AppendIs
    <2>3. \A n \in 1..Len(r) : n \in 1..Len(s) \/ n = Len(s) + 1
      BY <1>2, <2>2
    <2>4. \A n \in 1..Len(r) : r[n] \in Passed(t)'
      BY <1>4, <1>6, <2>2, <2>3
    <2>5. ASSUME NEW m \in 1..Len(r), NEW n \in 1..Len(r), m < n PROVE r[m] < r[n]
      <3>1. m \in 1..Len(s)
        BY <1>2, <2>2, <2>5
      <3>2. CASE n \in 1..Len(s)
        BY <1>6, <2>2, <2>5, <3>1, <3>2
      <3>3. CASE n = Len(s) + 1
        BY <1>4, <1>6, <2>2, <3>1, <3>3
      <3> QED
        BY <2>3, <3>2, <3>3
    <2>6. ASSUME NEW q \in Passed(t)', Known(t, q)'
          PROVE  (Meant(t, q)' /\ users'[q].live => Contains(r, q)) /\ (Contains(r, q) => Meant(t, q)')
      <3>1. CASE q = k
        BY <1>5, <1>6, <2>2, <2>6, <3>1
      <3>2. CASE q \in Passed(t) /\ q # k
        BY <1>1, <1>3, <1>5, <2>2, <2>6, <3>2 DEF CastInv
      <3> QED
        BY <1>4, <2>6, <3>1, <3>2
    <2> QED
      BY <1>3, <1>7, <2>4, <2>5, <2>6 DEF CastInv
  <1>9. CASE ~users[k].live
    <2>1. r = s
      BY <1>3, <1>7, <1>9
    <2>2. ASSUME NEW q \in Passed(t)', Known(t, q)'
          PROVE  (Meant(t, q)' /\ users'[q].live => Contains(r, q)) /\ (Contains(r, q) => Meant(t, q)')
      <3>1. CASE q = k
        BY <1>3, <1>6, <1>9, <2>1, <3>1
      <3>2. CASE q \in Passed(t)
        BY <1>1, <1>3, <1>5, <2>1, <2>2, <3>2 DEF CastInv
      <3> QED
        BY <1>4, <2>2, <3>1, <3>2
    <2> QED
      BY <1>3, <1>4, <1>6, <1>7, <2>1, <2>2 DEF CastInv
  <1> QED
    BY <1>8, <1>9

LEMMA CastEnd ==
  ASSUME TypeOK, NEW t \in Threads, End(t), CastInv(t)
  PROVE  CastInv(t)'
  <1>1. /\ pc[t] = "test" /\ pc'[t] = "done" /\ Ahead(t)' = {}
        /\ UNCHANGED <<users, job, at, i, out, changed>>
    BY DEF End, TypeOK, Ahead, Registered
  <1>2. Passed(t)' = Passed(t)
    BY <1>1 DEF Passed, Registered
  <1> QED
    BY <1>1, <1>2 DEF CastInv, Known, Meant

-----------------------------------------------------------------------------
\* A user changes under a walk.

LEMMA UpdateLeaves ==
  ASSUME TypeOK, NEW k \in Players, Updates(k), NEW t \in Threads
  PROVE  /\ Registered' = Registered /\ Passed(t)' = Passed(t) /\ Ahead(t)' = Ahead(t)
         /\ UNCHANGED <<job, pc, at, i, out>>
         /\ \A q \in Registered : (q # k => users'[q] = users[q]) /\ (users'[q].live => users[q].live)
         /\ changed'[t] = IF pc[t] # "idle" THEN changed[t] \cup {k} ELSE {}
  <1>1. PICK user \in [id : Players \cup {0}, server : Servers \cup {0}, live : BOOLEAN] :
          /\ Update(k, user) /\ users[k] # NoUser
          /\ user.live => users[k].live
    BY UpdateIs
  <1>2. user # NoUser
    BY UserWalksAssumption
  <1>3. /\ users' = [users EXCEPT ![k] = user]
        /\ changed' = [q \in Threads |-> IF q \in Walking THEN changed[q] \cup {k} ELSE {}]
        /\ UNCHANGED <<job, pc, at, i, out>>
    BY <1>1 DEF Update
  <1>4. \A q \in Players : users'[q] = IF q = k THEN user ELSE users[q]
    BY <1>3 DEF TypeOK
  <1>5. Registered' = Registered
    BY <1>1, <1>2, <1>4 DEF Registered
  <1>6. Passed(t)' = Passed(t) /\ Ahead(t)' = Ahead(t)
    BY <1>3, <1>5 DEF Passed, Ahead
  <1>7. changed'[t] = IF pc[t] # "idle" THEN changed[t] \cup {k} ELSE {}
    BY <1>3 DEF Walking
  <1>8. \A q \in Registered : q \in Players
    BY DEF Registered
  <1> QED
    BY <1>1, <1>3, <1>4, <1>5, <1>6, <1>7, <1>8

LEMMA CastUpdate ==
  ASSUME TypeOK, NEW k \in Players, Updates(k), NEW t \in Threads, pc[t] # "idle", CastInv(t),
         pc[t] = "use" => at[t] \in Registered
  PROVE  CastInv(t)'
  <1> USE UpdateLeaves
  <1>1. \A q \in Registered : Known(t, q)' => Known(t, q) /\ (Meant(t, q)' <=> Meant(t, q))
    BY DEF Known, Meant
  <1>2. Passed(t) \subseteq Registered
    BY DEF Passed
  <1>3. ASSUME NEW q \in Passed(t)', Known(t, q)'
        PROVE  (Meant(t, q)' /\ users'[q].live => Contains(out'[t], q))
               /\ (Contains(out'[t], q) => Meant(t, q)')
    <2>1. q \in Registered /\ q \in Passed(t)
      BY <1>2
    <2>2. Known(t, q) /\ (Meant(t, q)' <=> Meant(t, q)) /\ (users'[q].live => users[q].live)
      BY <1>1, <1>3, <2>1
    <2> QED
      BY <2>1, <2>2 DEF CastInv
  <1>4. pc'[t] = "use" /\ Known(t, at[t])' => Meant(t, at[t])'
    BY <1>1 DEF CastInv
  <1> QED
    BY <1>3, <1>4 DEF CastInv

LEMMA ListUpdate ==
  ASSUME TypeOK, NEW k \in Players, Updates(k), NEW t \in Threads, ListInv(t)
  PROVE  ListInv(t)'
  BY UpdateLeaves DEF ListInv

-----------------------------------------------------------------------------
\* Pages.

LEMMA ListVisit ==
  ASSUME TypeOK, NEW t \in Threads, Visit(t), job[t] \in Walk, job[t].kind = "page", ListInv(t)
  PROVE  ListInv(t)'
  <1>1. pc[t] = "test" /\ Ahead(t) # {}
    BY DEF Visit
  <1>2. PICK k, c, p :
          /\ k = MinKey(Ahead(t)) /\ at' = [at EXCEPT ![t] = k]
          /\ pc' = [pc EXCEPT ![t] = p] /\ i' = [i EXCEPT ![t] = c]
          /\ UNCHANGED <<users, job, out, changed>>
          /\ \/ p \in {"test", "done"} /\ c = i[t]
             \/ ~(i[t] >= job[t].to) /\ c = i[t] + 1
                /\ p = IF i[t] >= job[t].from THEN "use" ELSE "test"
    BY VisitIs
  <1>3. pc'[t] = p /\ at'[t] = k /\ i'[t] = c
    BY <1>2 DEF TypeOK
  <1>4. Passed(t) \subseteq Passed(t)'
    BY <1>1, <1>2, PassedMove
  <1>5. PICK n, lo, hi, l : n = i[t] /\ lo = job[t].from /\ hi = job[t].to /\ l = Len(out[t])
    OBVIOUS
  <1>6. n \in Nat /\ lo \in Nat /\ hi \in Nat
    BY <1>5, Keys DEF Walk, TypeOK
  <1>7. n <= hi /\ l = IF n <= lo THEN 0 ELSE n - lo
    BY <1>1, <1>5 DEF ListInv
  <1>8. /\ c <= hi /\ (p = "use" => c > lo)
        /\ l = IF c <= lo THEN 0 ELSE IF p = "use" THEN c - lo - 1 ELSE c - lo
    <2>1. CASE p \in {"test", "done"} /\ c = n
      BY <1>6, <1>7, <2>1
    <2>2. CASE ~(n >= hi) /\ c = n + 1 /\ p = IF n >= lo THEN "use" ELSE "test"
      BY <1>6, <1>7, <2>2
    <2> QED
      BY <1>2, <1>5, <2>1, <2>2
  <1>9. \A m \in 1..Len(out'[t]) : out'[t][m] = 0 \/ out'[t][m] \in Passed(t)'
    BY <1>2, <1>4 DEF ListInv
  <1> QED
    BY <1>2, <1>3, <1>5, <1>8, <1>9 DEF ListInv

LEMMA ListEnd ==
  ASSUME TypeOK, NEW t \in Threads, End(t), ListInv(t)
  PROVE  ListInv(t)'
  <1>1. pc[t] = "test" /\ pc'[t] = "done" /\ UNCHANGED <<users, job, at, i, out, changed>>
    BY DEF End, TypeOK
  <1>2. Passed(t)' = Passed(t)
    BY <1>1 DEF Passed, Registered
  <1> QED
    BY <1>1, <1>2 DEF ListInv

LEMMA ListUserStep ==
  ASSUME TypeOK, CountInv, NEW t \in Threads, ListUser(t), job[t] \in Walk,
         at[t] \in Registered, ListInv(t)
  PROVE  ListInv(t)'
  <1>1. PICK k, s, e : k = at[t] /\ s = out[t] /\ e = users[at[t]].id
    OBVIOUS
  <1>2. s \in Seq(Players \cup {0}) /\ k \in Players /\ e \in {k, 0} /\ Len(s) \in Nat
    BY <1>1, Keys DEF TypeOK, CountInv
  <1>3. /\ pc[t] = "use" /\ pc' = [pc EXCEPT ![t] = "test"] /\ pc'[t] = "test"
        /\ UNCHANGED <<users, job, at, i, changed>>
        /\ out'[t] = Append(s, e)
    BY <1>1 DEF ListUser, TypeOK
  <1>4. /\ Passed(t)' = Passed(t) \cup {k} /\ \A q \in Passed(t) : q < k
    BY <1>1, <1>3, PassedUse
  <1>5. PICK r : r = out'[t]
    OBVIOUS
  <1>6. /\ Len(r) = Len(s) + 1 /\ \A n \in 1..Len(s) : r[n] = s[n]
        /\ r[Len(s) + 1] = e
    BY <1>2, <1>3, <1>5, AppendIs
  <1>7. \A n \in 1..Len(r) : n \in 1..Len(s) \/ n = Len(s) + 1
    BY <1>2, <1>6
  <1>8. \A n \in 1..Len(s) : s[n] = 0 \/ s[n] \in Passed(t)
    BY <1>1 DEF ListInv
  <1>9. \A n \in 1..Len(r) : r[n] = 0 \/ r[n] \in Passed(t)'
    BY <1>2, <1>4, <1>6, <1>7, <1>8
  <1>10. ASSUME NEW m \in 1..Len(r), NEW n \in 1..Len(r), m < n, r[m] # 0, r[n] # 0
         PROVE  r[m] < r[n]
    <2>1. m \in 1..Len(s)
      BY <1>2, <1>6, <1>10
    <2>2. CASE n \in 1..Len(s)
      BY <1>1, <1>6, <1>10, <2>1, <2>2 DEF ListInv
    <2>3. CASE n = Len(s) + 1
      BY <1>2, <1>4, <1>6, <1>8, <1>10, <2>1, <2>3
    <2> QED
      BY <1>7, <2>2, <2>3
  <1>11. PICK c, lo, hi, l : c = i[t] /\ lo = job[t].from /\ hi = job[t].to /\ l = Len(s)
    OBVIOUS
  <1>12. c \in Nat /\ lo \in Nat /\ hi \in Nat
    BY <1>11, Keys DEF Walk, TypeOK
  <1>13. c <= hi /\ c > lo /\ l = IF c <= lo THEN 0 ELSE c - lo - 1
    BY <1>1, <1>3, <1>11 DEF ListInv
  <1>14. c <= hi /\ Len(r) = IF c <= lo THEN 0 ELSE c - lo
    BY <1>6, <1>11, <1>12, <1>13
  <1> QED
    BY <1>3, <1>5, <1>9, <1>10, <1>11, <1>14 DEF ListInv

\* The users of the server, in order.
LEMMA ListingIs ==
  ASSUME NEW t
  PROVE  /\ Total(t) \in Nat /\ Listed(t) \subseteq Registered
         /\ \A n \in 1..Total(t) : InOrder(Listed(t))[n] \in Listed(t)
         /\ \A m, n \in 1..Total(t) : m < n => InOrder(Listed(t))[m] < InOrder(Listed(t))[n]
         /\ \A k \in Listed(t) : \E n \in 1..Total(t) : InOrder(Listed(t))[n] = k
         /\ InOrder(Listed(t)) \in Seq(Listed(t)) /\ Len(InOrder(Listed(t))) = Total(t)
  <1>1. Listed(t) \in SUBSET Nat /\ IsFiniteSet(Listed(t)) /\ Listed(t) \subseteq Registered
    BY Keys, FS_Subset DEF Listed
  <1> QED
    BY <1>1, InOrderLists DEF Total, Lists

\* At an entry of the server the walk counts the place it is at, and at any
\* other entry it passes none.
LEMMA ExactVisit ==
  ASSUME TypeOK, NEW t \in Threads, Visit(t), job[t] \in Walk, job[t].kind = "page", ExactInv(t)
  PROVE  ExactInv(t)'
  <1>1. pc[t] = "test" /\ Ahead(t) # {}
    BY DEF Visit
  <1>2. PICK k, c, p :
          /\ k = MinKey(Ahead(t)) /\ at' = [at EXCEPT ![t] = k]
          /\ pc' = [pc EXCEPT ![t] = p] /\ i' = [i EXCEPT ![t] = c]
          /\ UNCHANGED <<users, job, out, changed>>
          /\ \/ users[k].server # job[t].server /\ p = "test" /\ c = i[t]
             \/ users[k].server = job[t].server /\ i[t] >= job[t].to /\ p = "done" /\ c = i[t]
             \/ /\ users[k].server = job[t].server /\ ~(i[t] >= job[t].to)
                /\ c = i[t] + 1 /\ p = IF i[t] >= job[t].from THEN "use" ELSE "test"
    BY VisitIs, SMTT(20)
  <1>3. pc'[t] = p /\ at'[t] = k /\ i'[t] = c
    BY <1>2 DEF TypeOK
  <1>4. PICK K, S, N, a, n : K = InOrder(Listed(t)) /\ S = Listed(t) /\ N = Total(t)
                             /\ a = at[t] /\ n = i[t]
    OBVIOUS
  <1>5. InOrder(Listed(t))' = K /\ Total(t)' = N
    BY <1>2, <1>4 DEF Listed, Total, Registered
  <1>6. /\ N \in Nat /\ n \in Nat /\ a \in Nat /\ k \in Nat /\ k > a
        /\ \A q \in S : q > a => k <= q
    <2>1. n \in Nat
      BY <1>4, Keys DEF TypeOK
    <2> QED
      BY <1>1, <1>2, <1>4, <2>1, NextKey, ListingIs
  <1>7. /\ n <= N
        /\ \A m \in 1..N : m <= n => K[m] <= a
        /\ \A m \in 1..N : m > n => K[m] > a
        /\ \A m \in 1..Len(out[t]) : out[t][m] = users[K[job[t].from + m]].id
    BY <1>1, <1>4 DEF ExactInv
  <1>8. /\ \A m \in 1..N : K[m] \in S /\ K[m] \in Nat
        /\ \A l, m \in 1..N : l < m => K[l] < K[m]
        /\ \A q \in S : \E m \in 1..N : K[m] = q
    BY <1>4, ListingIs, Keys
  <1>9. k \in S <=> users[k].server = job[t].server
    BY <1>1, <1>2, <1>4, NextKey DEF Listed
  <1>10. \A m \in 1..N : (m <= n => K[m] <= k) /\ (m > n => K[m] >= k)
    BY <1>6, <1>7, <1>8
  <1>11. CASE users[k].server # job[t].server
    <2>1. p = "test" /\ c = n
      BY <1>2, <1>4, <1>11
    <2>2. \A m \in 1..N : m > n => K[m] > k
      <3>1. \A m \in 1..N : K[m] # k
        BY <1>8, <1>9, <1>11
      <3> QED
        BY <1>6, <1>8, <1>10, <3>1
    <2> QED
      BY <1>2, <1>3, <1>5, <1>7, <1>10, <2>1, <2>2 DEF ExactInv
  <1>12. CASE users[k].server = job[t].server /\ i[t] >= job[t].to
    <2>1. p = "done" /\ c = n
      BY <1>2, <1>4, <1>12
    <2> QED
      BY <1>2, <1>3, <1>4, <1>5, <1>7, <1>10, <1>12, <2>1 DEF ExactInv
  <1>13. CASE users[k].server = job[t].server /\ ~(i[t] >= job[t].to)
    <2>1. c = n + 1 /\ p \in {"use", "test"}
      BY <1>2, <1>4, <1>13
    <2>2. PICK m \in 1..N : K[m] = k
      BY <1>8, <1>9, <1>13
    <2>3. m > n /\ n + 1 \in 1..N
      BY <1>6, <1>7, <1>8, <2>2
    <2>4. K[n + 1] = k
      <3>1. K[n + 1] >= k /\ (n + 1 < m => K[n + 1] < k)
        BY <1>6, <1>8, <1>10, <2>2, <2>3
      <3>2. K[n + 1] \in Nat
        BY <1>8, <2>3
      <3>3. ~(n + 1 < m)
        BY <1>6, <3>1, <3>2
      <3>4. n + 1 = m
        BY <1>6, <2>3, <3>3
      <3> QED
        BY <2>2, <3>4
    <2>5. \A l \in 1..N : (l <= n + 1 => K[l] <= k) /\ (l > n + 1 => K[l] > k)
      <3>1. ASSUME NEW l \in 1..N PROVE l <= n + 1 => K[l] <= k
        BY <1>6, <1>8, <1>10, <2>3, <2>4
      <3>2. ASSUME NEW l \in 1..N, l > n + 1 PROVE K[l] > k
        BY <1>6, <1>8, <2>3, <2>4, <3>2
      <3> QED
        BY <3>1, <3>2
    <2>6. c <= N /\ c > 0 /\ K[c] = k
      BY <1>6, <2>1, <2>3, <2>4
    <2> QED
      BY <1>2, <1>3, <1>5, <1>7, <2>1, <2>5, <2>6 DEF ExactInv
  <1> QED
    BY <1>2, <1>11, <1>12, <1>13

LEMMA ExactEnd ==
  ASSUME TypeOK, NEW t \in Threads, End(t), ExactInv(t)
  PROVE  ExactInv(t)'
  <1>1. /\ pc[t] = "test" /\ pc'[t] = "done" /\ Ahead(t) = {}
        /\ UNCHANGED <<users, job, at, i, out, changed>>
    BY DEF End, TypeOK
  <1>2. InOrder(Listed(t))' = InOrder(Listed(t)) /\ Total(t)' = Total(t)
    BY <1>1 DEF Listed, Total, Registered
  <1>3. i[t] = Total(t)
    <2>1. PICK N, n : N = Total(t) /\ n = i[t]
      OBVIOUS
    <2>2. N \in Nat /\ n \in Nat
      BY <2>1, ListingIs, Keys DEF TypeOK
    <2>3. n <= N /\ \A m \in 1..N : m > n => InOrder(Listed(t))[m] > at[t]
      BY <1>1, <2>1 DEF ExactInv
    <2>4. \A m \in 1..N : ~(InOrder(Listed(t))[m] > at[t])
      BY <1>1, <2>1, ListingIs DEF Ahead
    <2> QED
      BY <2>1, <2>2, <2>3, <2>4
  <1> QED
    BY <1>1, <1>2, <1>3 DEF ExactInv

LEMMA ExactList ==
  ASSUME TypeOK, NEW t \in Threads, ListUser(t), job[t] \in Walk, at[t] \in Registered,
         ListInv(t), ExactInv(t)
  PROVE  ExactInv(t)'
  <1>1. PICK s, e, K : s = out[t] /\ e = users[at[t]].id /\ K = InOrder(Listed(t))
    OBVIOUS
  <1>2. s \in Seq(Players \cup {0}) /\ e \in Players \cup {0} /\ Len(s) \in Nat
    <2>1. users[at[t]] # NoUser /\ at[t] \in Players
      BY DEF Registered
    <2>2. users[at[t]] \in [id : Players \cup {0}, server : Servers \cup {0}, live : BOOLEAN]
      BY <2>1 DEF TypeOK
    <2> QED
      BY <1>1, <2>2 DEF TypeOK
  <1>3. /\ pc[t] = "use" /\ pc'[t] = "test" /\ UNCHANGED <<users, job, at, i, changed>>
        /\ out'[t] = Append(s, e)
    BY <1>1 DEF ListUser, TypeOK
  <1>4. InOrder(Listed(t))' = K /\ Total(t)' = Total(t)
    BY <1>1, <1>3 DEF Listed, Total, Registered
  <1>5. PICK r : r = out'[t]
    OBVIOUS
  <1>6. /\ Len(r) = Len(s) + 1 /\ \A n \in 1..Len(s) : r[n] = s[n]
        /\ r[Len(s) + 1] = e
    BY <1>2, <1>3, <1>5, AppendIs
  <1>7. PICK c, lo, l : c = i[t] /\ lo = job[t].from /\ l = Len(s)
    OBVIOUS
  <1>8. c \in Nat /\ lo \in Nat /\ l \in Nat
    BY <1>2, <1>7, Keys DEF Walk, TypeOK
  <1>9. c > lo /\ l = IF c <= lo THEN 0 ELSE c - lo - 1
    BY <1>1, <1>3, <1>7 DEF ListInv
  <1>10. c = lo + (l + 1)
    BY <1>8, <1>9
  <1>11. /\ \A n \in 1..l : s[n] = users[K[lo + n]].id
         /\ K[c] = at[t]
    BY <1>1, <1>3, <1>7 DEF ExactInv
  <1>12. ASSUME NEW n \in 1..Len(r) PROVE r[n] = users[K[lo + n]].id
    <2>1. n \in 1..l \/ n = l + 1
      BY <1>6, <1>7, <1>8
    <2>2. CASE n \in 1..l
      BY <1>6, <1>7, <1>11, <2>2
    <2>3. CASE n = l + 1
      BY <1>1, <1>6, <1>7, <1>10, <1>11, <2>3
    <2> QED
      BY <2>1, <2>2, <2>3
  <1> QED
    BY <1>1, <1>3, <1>4, <1>5, <1>7, <1>12 DEF ExactInv

-----------------------------------------------------------------------------
\* Every step.

LEMMA WalkBegins ==
  ASSUME TypeOK, NEW t \in Threads, WalkInv(t), NEW j \in Jobs, Begin(t, j)
  PROVE  WalkInv(t)'
  <1>1. pc[t] = "idle"
    BY DEF Begin
  <1>2. /\ job'[t] \in Walk /\ pc'[t] \in {"test", "done"}
        /\ pc'[t] = "done" => job'[t].kind = "page" /\ job'[t].from >= job'[t].to
        /\ UNCHANGED <<users, at, i, out, changed>>
    BY BeginIs DEF TypeOK
  <1>3. at'[t] = 0 /\ i'[t] = 0 /\ out'[t] = <<>> /\ changed'[t] = {} /\ Len(out'[t]) = 0
    BY <1>1, <1>2 DEF WalkInv
  <1>4. Passed(t)' = {}
    <2>1. \A k \in Registered' : k \in Nat /\ k # 0
      BY <1>2, Keys DEF Registered
    <2>2. \A k \in Registered' : ~(k < 0) /\ k # 0
      BY <2>1
    <2> QED
      BY <1>3, <2>2 DEF Passed
  <1>5. job'[t].kind # "page" => CastInv(t)'
    BY <1>2, <1>3, <1>4 DEF CastInv
  <1>6. PICK lo, hi : lo = job'[t].from /\ hi = job'[t].to
    OBVIOUS
  <1>7. lo \in Nat /\ hi \in Nat
    BY <1>2, <1>6 DEF Walk
  <1>8. ListInv(t)'
    BY <1>2, <1>3, <1>6, <1>7 DEF ListInv
  <1>9. ExactInv(t)'
    <2>1. PICK S, N, K : S = Listed(t)' /\ N = Total(t)' /\ K = InOrder(Listed(t))'
      OBVIOUS
    <2>2. S \subseteq Registered /\ S \in SUBSET Nat /\ IsFiniteSet(S)
      BY <1>2, <2>1, Keys, FS_Subset DEF Listed, Registered
    <2>3. N \in Nat /\ \A n \in 1..N : K[n] \in S
      BY <2>1, <2>2, InOrderLists DEF Total, Lists
    <2>4. \A q \in S : q \in Nat /\ q # 0
      BY <2>2, Keys
    <2>5. \A q \in S : q > 0
      BY <2>4
    <2>6. \A n \in 1..N : K[n] > 0 /\ ~(n <= 0)
      BY <2>3, <2>5
    <2> QED
      BY <1>2, <1>3, <2>1, <2>3, <2>6 DEF ExactInv
  <1> QED
    BY <1>2, <1>5, <1>8, <1>9 DEF WalkInv

LEMMA WalkGoesOn ==
  ASSUME TypeOK, CountInv, NEW t \in Threads, WalkInv(t),
         Visit(t) \/ ListUser(t) \/ SendBufferPtr(t) \/ End(t)
  PROVE  WalkInv(t)'
  <1>1. pc[t] # "idle" /\ pc'[t] # "idle" /\ UNCHANGED <<users, job, changed>>
        /\ (pc'[t] = "use" => Visit(t))
    <2>1. CASE Visit(t)
      <3>1. pc[t] = "test" /\ job[t] \in Walk
        BY <2>1 DEF Visit, WalkInv
      <3>2. PICK p \in {"test", "use", "done"} : pc' = [pc EXCEPT ![t] = p]
        <4>1. CASE job[t].kind = "page"
          BY <2>1, <3>1, <4>1, VisitIs
        <4>2. CASE job[t].kind # "page"
          BY <2>1, <3>1, <4>2, VisitIs
        <4> QED
          BY <4>1, <4>2
      <3> QED
        BY <2>1, <3>1, <3>2 DEF TypeOK, Visit
    <2>2. CASE ListUser(t) \/ SendBufferPtr(t) \/ End(t)
      BY <2>2 DEF ListUser, SendBufferPtr, End, TypeOK
    <2> QED
      BY <2>1, <2>2
  <1>2. job[t] \in Walk /\ job'[t] = job[t] /\ (pc[t] = "use" => at[t] \in Registered)
    BY <1>1 DEF WalkInv
  <1>3. ASSUME job[t].kind # "page" PROVE CastInv(t)'
    <2>1. CastInv(t)
      BY <1>1, <1>3 DEF WalkInv
    <2>2. ~ListUser(t) /\ (SendBufferPtr(t) => pc[t] = "use")
      BY <1>3 DEF ListUser, SendBufferPtr
    <2> QED
      BY <1>2, <1>3, <2>1, <2>2, CastVisit, CastSend, CastEnd
  <1>4. ASSUME job[t].kind = "page" PROVE ListInv(t)' /\ (changed'[t] = {} => ExactInv(t)')
    <2>1. ListInv(t) /\ (changed'[t] = {} => ExactInv(t))
      BY <1>1, <1>4 DEF WalkInv
    <2>2. ~SendBufferPtr(t) /\ (ListUser(t) => pc[t] = "use")
      BY <1>4 DEF ListUser, SendBufferPtr
    <2>3. ListInv(t)'
      BY <1>2, <1>4, <2>1, <2>2, ListVisit, ListUserStep, ListEnd
    <2>4. changed'[t] = {} => ExactInv(t)'
      BY <1>2, <1>4, <2>1, <2>2, ExactVisit, ExactList, ExactEnd
    <2> QED
      BY <2>3, <2>4
  <1>5. pc'[t] = "use" => at'[t] \in Registered'
    <2>1. CASE Visit(t)
      <3>1. Ahead(t) # {} /\ at' = [at EXCEPT ![t] = MinKey(Ahead(t))]
        BY <2>1 DEF Visit
      <3> QED
        BY <1>1, <3>1, NextKey DEF TypeOK, Registered
    <2> QED
      BY <1>1, <2>1
  <1> QED
    BY <1>1, <1>2, <1>3, <1>4, <1>5 DEF WalkInv

LEMMA WalkStep ==
  ASSUME IInv, Next, NEW t \in Threads
  PROVE  WalkInv(t)'
  <1>0. TypeOK /\ CountInv /\ \A u \in Threads : WalkInv(u)
    BY DEF IInv
  <1>1. ASSUME NEW u \in Threads, NEW j \in Jobs, Begin(u, j) PROVE WalkInv(t)'
    <2>1. CASE u = t
      BY <1>0, <1>1, <2>1, WalkBegins
    <2>2. CASE u # t
      BY <1>0, <1>1, <2>2, OtherWalk DEF Begin, TypeOK
    <2> QED
      BY <2>1, <2>2
  <1>2. ASSUME NEW u \in Threads, Visit(u) PROVE WalkInv(t)'
    <2>1. CASE u = t
      BY <1>0, <1>2, <2>1, WalkGoesOn
    <2>2. CASE u # t
      <3>1. pc[u] = "test" /\ job[u] \in Walk
        BY <1>0, <1>2 DEF Visit, WalkInv
      <3>2. PICK k, c, p : /\ at' = [at EXCEPT ![u] = k]
                           /\ pc' = [pc EXCEPT ![u] = p] /\ i' = [i EXCEPT ![u] = c]
                           /\ UNCHANGED <<users, job, out, changed>>
        BY <1>0, <1>2, <3>1, VisitIs
      <3> QED
        BY <1>0, <2>2, <3>2, OtherWalk DEF TypeOK
    <2> QED
      BY <2>1, <2>2
  <1>3. ASSUME NEW u \in Threads, ListUser(u) \/ SendBufferPtr(u) \/ End(u) PROVE WalkInv(t)'
    <2>1. CASE u = t
      BY <1>0, <1>3, <2>1, WalkGoesOn
    <2>2. CASE u # t
      BY <1>0, <1>3, <2>2, OtherWalk DEF ListUser, SendBufferPtr, End, TypeOK
    <2> QED
      BY <2>1, <2>2
  <1>4. ASSUME NEW u \in Threads, Return(u) PROVE WalkInv(t)'
    <2>1. CASE u = t
      BY <1>0, <1>4, <2>1 DEF Return, WalkInv, TypeOK
    <2>2. CASE u # t
      BY <1>0, <1>4, <2>2, OtherWalk DEF Return, TypeOK
    <2> QED
      BY <2>1, <2>2
  <1>5. ASSUME NEW k \in Players, AddUser(k) \/ RemoveUser(k) PROVE WalkInv(t)'
    <2>1. pc[t] = "idle" /\ UNCHANGED <<job, pc, at, i, out, changed>>
      BY <1>5 DEF AddUser, RemoveUser, Walking
    <2> QED
      BY <1>0, <2>1 DEF WalkInv
  <1>6. ASSUME NEW k \in Players, Updates(k) PROVE WalkInv(t)'
    <2>1. /\ Registered' = Registered /\ UNCHANGED <<job, pc, at, i, out>>
          /\ changed'[t] = IF pc[t] # "idle" THEN changed[t] \cup {k} ELSE {}
      BY <1>0, <1>6, UpdateLeaves
    <2>2. CASE pc[t] = "idle"
      BY <1>0, <2>1, <2>2 DEF WalkInv
    <2>3. CASE pc[t] # "idle"
      <3>1. job[t].kind # "page" => CastInv(t)'
        BY <1>0, <1>6, <2>3, CastUpdate DEF WalkInv
      <3>2. job[t].kind = "page" => ListInv(t)'
        BY <1>0, <1>6, <2>3, ListUpdate DEF WalkInv
      <3>3. changed'[t] # {}
        BY <2>1, <2>3
      <3> QED
        BY <1>0, <2>1, <2>3, <3>1, <3>2, <3>3 DEF WalkInv
    <2> QED
      BY <2>2, <2>3
  <1> QED
    BY <1>1, <1>2, <1>3, <1>4, <1>5, <1>6 DEF Next, Updates

LEMMA NextIInv == IInv /\ [Next]_vars => IInv'
  <1> SUFFICES ASSUME IInv, [Next]_vars PROVE IInv'
    OBVIOUS
  <1>1. CASE Next
    BY <1>1, TypeStep, WalkStep DEF IInv
  <1>2. CASE UNCHANGED vars
    <2>1. TypeOK' /\ CountInv'
      BY <1>2 DEF vars, IInv, TypeOK, CountInv, Behind, Registered
    <2>2. \A t \in Threads : WalkInv(t)'
      BY <1>2, OtherWalk DEF vars, IInv
    <2> QED
      BY <2>1, <2>2 DEF IInv
  <1> QED
    BY <1>1, <1>2

LEMMA Invariance == Spec => []IInv
  BY InitIInv, NextIInv, PTL DEF Spec

-----------------------------------------------------------------------------
\* However logins, logouts and ending connections fall between its steps, a
\* broadcast that returns has reached everyone it was for, and nobody twice.
THEOREM BroadcastsReach == Spec => []BroadcastReaches
  <1>1. IInv => BroadcastReaches
    <2> SUFFICES ASSUME IInv, NEW t \in Threads, pc[t] = "done", job[t].kind # "page"
                 PROVE  /\ IsInjective(out[t])
                        /\ \A k \in Registered : Known(t, k) =>
                             (Meant(t, k) /\ users[k].live => Contains(out[t], k))
                             /\ (Contains(out[t], k) => Meant(t, k))
      BY DEF BroadcastReaches, Known, Meant
    <2>1. CastInv(t) /\ TypeOK
      BY DEF IInv, WalkInv
    <2>2. Passed(t) = Registered
      <3>1. PICK a, R : a = at[t] /\ R = Registered
        OBVIOUS
      <3>2. R \subseteq Nat /\ a \in Nat
        BY <2>1, <3>1, Keys DEF TypeOK
      <3>3. \A k \in R : ~(k > a)
        BY <2>1, <3>1 DEF CastInv, Ahead
      <3>4. \A k \in R : k < a \/ k = a
        BY <3>2, <3>3
      <3> QED
        BY <3>1, <3>4 DEF Passed
    <2>3. IsInjective(out[t])
      <3>1. PICK s : s = out[t]
        OBVIOUS
      <3>2. Len(s) \in Nat /\ DOMAIN s = 1..Len(s)
        BY <2>1, <3>1 DEF TypeOK
      <3>3. \A n \in 1..Len(s) : s[n] \in Nat
        BY <2>1, <2>2, <3>1, Keys DEF CastInv
      <3>4. \A m, n \in 1..Len(s) : m < n => s[m] < s[n]
        BY <2>1, <3>1 DEF CastInv
      <3>5. \A m, n \in 1..Len(s) : s[m] = s[n] => m = n
        BY <3>2, <3>3, <3>4
      <3> QED
        BY <3>1, <3>2, <3>5 DEF IsInjective
    <2> QED
      BY <2>1, <2>2, <2>3 DEF CastInv
  <1> QED
    BY <1>1, Invariance, PTL

\* A page is the part of the server's users that was asked for, if none of them
\* changed meanwhile; otherwise it is still in order and not too long.
THEOREM PagesAreSound == Spec => []PageSound
  <1>1. IInv => PageSound
    <2> SUFFICES ASSUME IInv, NEW t \in Threads, pc[t] # "idle", job[t].kind = "page"
                 PROVE  /\ pc[t] = "done" /\ changed[t] = {} => out[t] = PageOf(job[t])
                        /\ Len(out[t]) = 0 \/ Len(out[t]) <= job[t].to - job[t].from
                        /\ \A m, n \in DOMAIN out[t] :
                             m < n /\ out[t][m] # 0 /\ out[t][n] # 0 => out[t][m] < out[t][n]
      BY DEF PageSound, IInv
    <2>1. /\ TypeOK /\ job[t] \in Walk /\ ListInv(t)
          /\ changed[t] = {} => ExactInv(t)
      BY DEF IInv, WalkInv
    <2>2. PICK s, c, lo, hi : s = out[t] /\ c = i[t] /\ lo = job[t].from /\ hi = job[t].to
      OBVIOUS
    <2>3. /\ s \in Seq(Players \cup {0}) /\ Len(s) \in Nat /\ DOMAIN s = 1..Len(s)
          /\ c \in Nat /\ lo \in Nat /\ hi \in Nat
      BY <2>1, <2>2, Keys DEF TypeOK, Walk
    <2>4. /\ c <= hi /\ (pc[t] = "use" => c > lo)
          /\ Len(s) = IF c <= lo THEN 0 ELSE IF pc[t] = "use" THEN c - lo - 1 ELSE c - lo
      BY <2>1, <2>2 DEF ListInv
    <2>5. Len(s) = 0 \/ Len(s) <= hi - lo
      BY <2>3, <2>4
    <2>6. \A m, n \in DOMAIN s : m < n /\ s[m] # 0 /\ s[n] # 0 => s[m] < s[n]
      BY <2>1, <2>2, <2>3 DEF ListInv
    <2>7. ASSUME pc[t] = "done", changed[t] = {} PROVE s = PageOf(job[t])
      <3>1. PICK K, N : K = InOrder(Listed(t)) /\ N = Total(t)
        OBVIOUS
      <3>2. N \in Nat /\ Len(K) = N
        BY <3>1, ListingIs
      <3>3. /\ c <= N /\ (c >= hi \/ c = N \/ lo >= hi)
            /\ \A n \in 1..Len(s) : s[n] = users[K[lo + n]].id
        BY <2>1, <2>2, <2>7, <3>1 DEF ExactInv
      <3>4. PICK last : last = IF hi < N THEN hi ELSE N
        OBVIOUS
      <3>5. Len(s) = IF last > lo THEN last - lo ELSE 0
        <4>1. Len(s) = IF c <= lo THEN 0 ELSE c - lo
          BY <2>4, <2>7
        <4> QED
          BY <2>3, <2>4, <3>2, <3>3, <3>4, <4>1
      <3>6. PageOf(job[t]) = [n \in 1..Len(s) |-> users[K[lo + n]].id]
        BY <2>2, <3>1, <3>2, <3>4, <3>5 DEF PageOf, Listed
      <3>7. s = [n \in 1..Len(s) |-> s[n]]
        BY <2>3
      <3> QED
        BY <3>3, <3>6, <3>7
    <2> QED
      BY <2>2, <2>5, <2>6, <2>7
  <1> QED
    BY <1>1, Invariance, PTL
=============================================================================
