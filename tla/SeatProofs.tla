----------------------------- MODULE SeatProofs ------------------------------
(***************************************************************************)
(* What a search leaves behind, for any players, time controls and         *)
(* requests: at most one seat or entry (SeatPerSearch), and nothing at all *)
(* once it is answered (NoTraceLeft).  Both rest on Sound, of module       *)
(* MatchmakingProofs, and on a count of its own: how many seats and        *)
(* entries a player can have.                                              *)
(***************************************************************************)
EXTENDS MatchmakingProofs, FunctionTheorems

-----------------------------------------------------------------------------
(* The seats a player has, the entries in the queues and the entries that  *)
(* searches have taken out and not yet seated are never more than the      *)
(* player's searches that have put in an entry or taken a seat.  Without   *)
(* the entries on their way the count would drop at LPOP and the seat that *)
(* follows would not be accounted for.                                     *)
Slots(p) == {mi \in Modes \X Nat : mi[2] \in 1..Len(queue[mi[1]]) /\ queue[mi[1]][mi[2]] = p}

SeatsOf(p) == {rs \in RoomIds \X Sides : rooms[rs[1]].players[rs[2]] = p}

Taken(p) == {q \in Searches : pc[q] = "create" /\ partner[q] = p}

Unserved == BeforeQueue \cup {"create"}

Served(p) == {q \in Searches : By[q] = p /\ pc[q] \notin Unserved}

Counted ==
    \A p \in Players :
        /\ IsFiniteSet(Slots(p)) /\ IsFiniteSet(SeatsOf(p))
        /\ Cardinality(SeatsOf(p)) + Cardinality(Slots(p)) + Cardinality(Taken(p))
              <= Cardinality(Served(p))
-----------------------------------------------------------------------------
(* There are finitely many searches, and so are those that take or have    *)
(* been served.                                                            *)
LEMMA FiniteSearches ==
    \A S \in SUBSET Searches :
        /\ IsFiniteSet(S) /\ Cardinality(S) \in Nat
        /\ \A T \in SUBSET S : Cardinality(T) <= Cardinality(S)
<1>1. IsFiniteSet(Searches)
  BY RequestAssumption, FS_Subset
<1> SUFFICES ASSUME NEW S \in SUBSET Searches
             PROVE  /\ IsFiniteSet(S) /\ Cardinality(S) \in Nat
                    /\ \A T \in SUBSET S : Cardinality(T) <= Cardinality(S)
  OBVIOUS
<1>2. IsFiniteSet(S)
  BY <1>1, FS_Subset
<1> QED BY <1>2, FS_CardinalityType, FS_Subset

(* The sizes that the count adds up are natural numbers.                   *)
LEMMA Sizes ==
    ASSUME Counted, NEW p \in Players
    PROVE  /\ Cardinality(SeatsOf(p)) \in Nat /\ Cardinality(Slots(p)) \in Nat
           /\ Cardinality(Taken(p)) \in Nat /\ Cardinality(Served(p)) \in Nat
           /\ IsFiniteSet(Taken(p)) /\ IsFiniteSet(Served(p))
           /\ Taken(p) \subseteq Searches /\ Served(p) \subseteq Searches
<1>1. Taken(p) \in SUBSET Searches /\ Served(p) \in SUBSET Searches
  BY DEF Taken, Served
<1> QED BY <1>1, FiniteSearches, FS_CardinalityType DEF Counted

(* Nobody gets a seat or an entry, and nobody who was served is forgotten. *)
LEMMA NoMore ==
    ASSUME Counted,
           \A p \in Players :
              /\ IsFiniteSet(Slots(p)') /\ Cardinality(Slots(p)') <= Cardinality(Slots(p))
              /\ SeatsOf(p)' = SeatsOf(p)
              /\ Taken(p)' \subseteq Taken(p)
              /\ Served(p) \subseteq Served(p)'
    PROVE  Counted'
<1> SUFFICES ASSUME NEW p \in Players
             PROVE  /\ IsFiniteSet(Slots(p)') /\ IsFiniteSet(SeatsOf(p)')
                    /\ Cardinality(SeatsOf(p)') + Cardinality(Slots(p)') + Cardinality(Taken(p)')
                          <= Cardinality(Served(p)')
  BY DEF Counted
<1>1. PICK a, b, c, d : a = Slots(p)' /\ b = Taken(p)' /\ c = Served(p)' /\ d = SeatsOf(p)'
  OBVIOUS
<1>2. c \subseteq Searches /\ b \subseteq Taken(p) /\ Served(p) \subseteq c
  BY <1>1 DEF Served
<1>3. /\ Cardinality(b) \in Nat /\ Cardinality(b) <= Cardinality(Taken(p))
      /\ Cardinality(c) \in Nat /\ Cardinality(Served(p)) <= Cardinality(c)
  BY <1>2, Sizes, FiniteSearches
<1>4. IsFiniteSet(a) /\ Cardinality(a) <= Cardinality(Slots(p)) /\ d = SeatsOf(p)
  BY <1>1
<1>5. Cardinality(a) \in Nat
  BY <1>4, FS_CardinalityType
<1>6. Cardinality(SeatsOf(p)) + Cardinality(Slots(p)) + Cardinality(Taken(p))
        <= Cardinality(Served(p)) /\ IsFiniteSet(SeatsOf(p))
  BY DEF Counted
<1>7. Cardinality(SeatsOf(p)) + Cardinality(a) + Cardinality(b) <= Cardinality(c)
  BY <1>3, <1>4, <1>5, <1>6, Sizes
<1> QED BY <1>1, <1>6, <1>7

(* A request moves on, other than into Create, and not back to the queue.  *)
Onward(q) ==
    /\ pc' = [pc EXCEPT ![q] = pc'[q]]
    /\ \A r \in Requests \ {q} : partner'[r] = partner[r]
    /\ q \in Searches => pc'[q] # "create"
    /\ q \in Searches /\ pc'[q] \in Unserved => pc[q] \in Unserved

(* Such a request takes no entry and, once served, stays served.           *)
LEMMA OnwardServes ==
    ASSUME Sound, NEW q \in Requests, Onward(q), NEW p
    PROVE  Taken(p)' \subseteq Taken(p) /\ Served(p) \subseteq Served(p)'
<1>1. Searches \subseteq Requests
  BY DEF Requests
<1>2. \A r \in Requests \ {q} : pc'[r] = pc[r] /\ partner'[r] = partner[r]
  BY DEF Onward, Sound, TypeOK
<1>3. Taken(p)' \subseteq Taken(p)
  BY <1>1, <1>2 DEF Onward, Taken
<1>4. Served(p) \subseteq Served(p)'
  BY <1>1, <1>2 DEF Onward, Served
<1> QED BY <1>3, <1>4

(* The seats are those of the Rooms ...                                    *)
LEMMA SameSeats ==
    ASSUME UNCHANGED rooms
    PROVE  \A p : SeatsOf(p)' = SeatsOf(p)
BY DEF SeatsOf, RoomIds

(* ... and the slots those of the queues.                                  *)
LEMMA SameSlots ==
    ASSUME UNCHANGED queue
    PROVE  \A p : Slots(p)' = Slots(p)
BY DEF Slots

(* A step that touches no queue and no Room keeps the count.               *)
LEMMA OnwardCounted ==
    ASSUME Sound, Counted, NEW q \in Requests, Onward(q), UNCHANGED <<queue, rooms>>
    PROVE  Counted'
<1>1. ASSUME NEW p \in Players
      PROVE  /\ IsFiniteSet(Slots(p)') /\ Cardinality(Slots(p)') <= Cardinality(Slots(p))
             /\ SeatsOf(p)' = SeatsOf(p)
             /\ Taken(p)' \subseteq Taken(p) /\ Served(p) \subseteq Served(p)'
  <2>1. Slots(p)' = Slots(p) /\ SeatsOf(p)' = SeatsOf(p)
    BY SameSeats, SameSlots
  <2>2. IsFiniteSet(Slots(p)) /\ Cardinality(Slots(p)) \in Nat
    BY Sizes DEF Counted
  <2> QED BY <2>1, <2>2, OnwardServes
<1> QED BY <1>1, NoMore
-----------------------------------------------------------------------------
(* An entry is taken out of a queue, and those behind it move up: there is *)
(* one slot less for its player, and no more for the others.               *)
TakenOut(m, k) ==
    /\ \A n \in Modes \ {m} : queue'[n] = queue[n]
    /\ IsWithout(queue'[m], queue[m], k)

(* The slots that are left go one to one into the old ones but that one.   *)
LEMMA MoveUp ==
    ASSUME Sound, NEW m \in Modes, NEW k \in 1..Len(queue[m]), TakenOut(m, k),
           NEW p, IsFiniteSet(Slots(p))
    PROVE  /\ IsFiniteSet(Slots(p)')
           /\ Cardinality(Slots(p)') <= Cardinality(Slots(p) \ {<<m, k>>})
<1> DEFINE T == Slots(p) \ {<<m, k>>}
           f(x) == IF x[1] = m /\ x[2] >= k THEN <<m, x[2] + 1>> ELSE x
<1>1. PICK S : S = Slots(p)'
  OBVIOUS
<1>2. IsFiniteSet(T)
  BY FS_Subset
<1>3. \A x \in S : /\ x[1] \in Modes /\ x[2] \in Nat /\ x = <<x[1], x[2]>>
                   /\ x[2] \in 1..Len(queue'[x[1]]) /\ queue'[x[1]][x[2]] = p
  BY <1>1 DEF Slots
<1>5. ASSUME NEW x \in S
      PROVE  f(x) \in T
  <2>1. CASE x[1] = m /\ x[2] >= k
    <3>1. x[2] + 1 \in 1..Len(queue[m]) /\ x[2] \in 1..Len(queue[m]) - 1 /\ x[2] + 1 # k
      BY <1>3, <2>1 DEF TakenOut, IsWithout
    <3>2. queue[m][x[2] + 1] = p
      BY <1>3, <2>1, <3>1 DEF TakenOut, IsWithout
    <3>3. <<m, x[2] + 1>> \in Slots(p)
      BY <3>1, <3>2 DEF Slots
    <3> QED BY <2>1, <3>1, <3>3
  <2>2. CASE x[1] = m /\ ~(x[2] >= k)
    <3>2. queue[m][x[2]] = p
      BY <1>3, <2>2 DEF TakenOut, IsWithout
    <3>3. x \in Slots(p) /\ x # <<m, k>>
      BY <1>3, <2>2, <3>2 DEF Slots
    <3> QED BY <2>2, <3>3
  <2>3. CASE x[1] # m
    <3>1. queue'[x[1]] = queue[x[1]]
      BY <1>3, <2>3 DEF TakenOut
    <3>2. x \in Slots(p) /\ x # <<m, k>>
      BY <1>3, <2>3, <3>1 DEF Slots
    <3> QED BY <2>3, <3>2
  <2> QED BY <2>1, <2>2, <2>3
<1>6. ASSUME NEW x \in S, NEW y \in S, f(x) = f(y)
      PROVE  x = y
  <2>1. /\ x[2] \in Nat /\ x = <<x[1], x[2]>>
        /\ y[2] \in Nat /\ y = <<y[1], y[2]>>
    BY <1>3
  <2> QED BY <1>6, <2>1
<1> DEFINE g == [x \in S |-> f(x)]
<1>7. g \in Injection(S, T)
  <2> HIDE DEF f, T
  <2>1. g \in [S -> T] /\ \A x \in S : g[x] = f(x)
    BY <1>5
  <2>2. \A a, b \in S : g[a] = g[b] => a = b
    BY <1>6
  <2> QED BY <2>1, <2>2, Fun_IsInj
<1>8. IsFiniteSet(S) /\ Cardinality(S) <= Cardinality(T)
  BY <1>2, <1>7, FS_Injection
<1> QED BY <1>1, <1>8
-----------------------------------------------------------------------------
(* LPOP takes the head of a queue out.                                     *)
LEMMA PopTakes ==
    ASSUME Sound, NEW m \in Modes, queue[m] # <<>>,
           queue' = [queue EXCEPT ![m] = Tail(queue[m])]
    PROVE  /\ 1 \in 1..Len(queue[m]) /\ queue[m][1] = Head(queue[m])
           /\ Head(queue[m]) \in Players
           /\ TakenOut(m, 1)
<1>1. queue[m] \in Seq(Players) /\ queue \in [Modes -> Seq(Players)]
  BY DEF Sound, TypeOK
<1> QED BY <1>1 DEF TakenOut, IsWithout

(* LREM takes an entry of the player out, if there is one, or does nothing.*)
LEMMA RemoveTakes ==
    ASSUME Sound, NEW m, NEW p \in Players,
           queue' = [queue EXCEPT ![m] = RemoveFirst(queue[m], p)]
    PROVE  \/ queue' = queue /\ (m \in Modes => \A i \in 1..Len(queue[m]) : queue[m][i] # p)
           \/ /\ m \in Modes
              /\ \E k \in 1..Len(queue[m]) : queue[m][k] = p /\ TakenOut(m, k)
<1>1. queue \in [Modes -> Seq(Players)]
  BY DEF Sound, TypeOK
<1>2. CASE m \notin Modes
  BY <1>1, <1>2
<1>3. CASE m \in Modes /\ \A i \in 1..Len(queue[m]) : queue[m][i] # p
  <2>1. RemoveFirst(queue[m], p) = queue[m]
    BY <1>3, NothingToRemove
  <2> QED BY <1>1, <1>3, <2>1
<1>4. CASE m \in Modes /\ ~\A i \in 1..Len(queue[m]) : queue[m][i] # p
  <2>1. queue[m] \in Seq(Players)
    BY <1>1, <1>4
  <2>2. PICK i0 \in 1..Len(queue[m]) : queue[m][i0] = p
    BY <1>4
  <2>3. PICK s : s = queue[m] /\ s \in Seq(Players)
    BY <2>1
  <2>4. PICK k \in 1..Len(s) : s[k] = p /\ IsWithout(RemoveFirst(s, p), s, k)
    <3>1. i0 \in 1..Len(s) /\ s[i0] = p
      BY <2>2, <2>3
    <3> QED BY <2>3, <3>1, Removing
  <2>5. /\ queue'[m] = RemoveFirst(s, p)
        /\ \A n \in Modes \ {m} : queue'[n] = queue[n]
    BY <1>1, <1>4, <2>3
  <2>6. TakenOut(m, k)
    BY <2>3, <2>4, <2>5 DEF TakenOut
  <2> QED BY <1>4, <2>3, <2>4, <2>6
<1> QED BY <1>2, <1>3, <1>4

(* RPUSH: one slot more for one player.                                    *)
LEMMA PushTakes ==
    ASSUME Sound, NEW m \in Modes, NEW e \in Players,
           queue' = [queue EXCEPT ![m] = Append(queue[m], e)]
    PROVE  \A p : Slots(p)' = IF p = e THEN Slots(p) \cup {<<m, Len(queue[m]) + 1>>} ELSE Slots(p)
<1>1. queue \in [Modes -> Seq(Players)] /\ queue[m] \in Seq(Players) /\ Len(queue[m]) \in Nat
  BY DEF Sound, TypeOK
<1> DEFINE n == Len(queue[m]) + 1
<1>2. /\ Len(queue'[m]) = n /\ queue'[m][n] = e
      /\ \A i \in 1..Len(queue[m]) : queue'[m][i] = queue[m][i]
      /\ \A k \in Modes \ {m} : queue'[k] = queue[k]
  BY <1>1
<1>3. ASSUME NEW p, NEW k \in Modes, NEW i \in Nat
      PROVE  /\ <<k, i>> \in Slots(p)' <=> i \in 1..Len(queue'[k]) /\ queue'[k][i] = p
             /\ <<k, i>> \in Slots(p) <=> i \in 1..Len(queue[k]) /\ queue[k][i] = p
  BY DEF Slots
<1>4. 1..n = 1..Len(queue[m]) \cup {n} /\ n \notin 1..Len(queue[m]) /\ n \in Nat
  BY <1>1
<1> HIDE DEF n
<1>5. ASSUME NEW p, NEW k \in Modes, NEW i \in Nat
      PROVE  <<k, i>> \in Slots(p)' <=> \/ <<k, i>> \in Slots(p)
                                        \/ p = e /\ k = m /\ i = n
  <2>1. CASE k = m /\ i = n
    BY <1>2, <1>3, <1>4
  <2>2. CASE k = m /\ i # n
    BY <1>3, <1>4, <2>2
  <2>3. CASE k # m
    BY <1>3, <2>3
  <2> QED BY <2>1, <2>2, <2>3
<1>6. ASSUME NEW p
      PROVE  Slots(p)' = IF p = e THEN Slots(p) \cup {<<m, n>>} ELSE Slots(p)
  <2>1. Slots(p) \subseteq Modes \X Nat /\ Slots(p)' \subseteq Modes \X Nat
    BY DEF Slots
  <2>2. PICK S, T : S = Slots(p)' /\ T = Slots(p)
    OBVIOUS
  <2>3. \A k \in Modes, i \in Nat : <<k, i>> \in S <=> \/ <<k, i>> \in T
                                                       \/ p = e /\ k = m /\ i = n
    BY <1>5, <2>2
  <2>4. \A x \in Modes \X Nat : x \in S <=> x \in T \/ (p = e /\ x = <<m, n>>)
    BY <2>3
  <2>5. <<m, n>> \in Modes \X Nat
    BY <1>4
  <2>6. S = IF p = e THEN T \cup {<<m, n>>} ELSE T
    BY <2>1, <2>2, <2>4, <2>5
  <2> QED BY <2>2, <2>6
<1> QED BY <1>6 DEF n
-----------------------------------------------------------------------------
(* RPUSH: the entry goes with the search that becomes served.              *)
LEMMA EnqueueCounted ==
    ASSUME Sound, Counted, NEW q \in Searches, Enqueue(q)
    PROVE  Counted'
<1>1. q \in Requests /\ By[q] \in Players /\ Mode[q] \in Modes /\ Searches \subseteq Requests
  BY RequestAssumption DEF Requests
<1>2. /\ pc[q] = "enqueue" /\ pc' = [pc EXCEPT ![q] = "subscribe"]
      /\ UNCHANGED <<rooms, partner>>
      /\ queue' = [queue EXCEPT ![Mode[q]] = Append(queue[Mode[q]], By[q])]
  BY DEF Enqueue, At, local, QueueKey
<1>3. \A r \in Requests : pc'[r] = IF r = q THEN "subscribe" ELSE pc[r]
  BY <1>2 DEF Sound, TypeOK
<1>4. ASSUME NEW p \in Players
      PROVE  /\ SeatsOf(p)' = SeatsOf(p)
             /\ Taken(p)' = Taken(p)
             /\ Served(p)' = IF p = By[q] THEN Served(p) \cup {q} ELSE Served(p)
             /\ q \notin Served(p)
  <2>1. SeatsOf(p)' = SeatsOf(p)
    BY <1>2, SameSeats
  <2>2. Taken(p)' = Taken(p)
    BY <1>2 DEF Taken
  <2>3. q \notin Served(p)
    BY <1>2 DEF Served, Unserved, BeforeQueue
  <2>4. "subscribe" \notin Unserved
    BY DEF Unserved, BeforeQueue
  <2>5. Served(p)' = IF p = By[q] THEN Served(p) \cup {q} ELSE Served(p)
    BY <1>1, <1>3, <2>4 DEF Served
  <2> QED BY <2>1, <2>2, <2>3, <2>5
<1> SUFFICES ASSUME NEW p \in Players
             PROVE  /\ IsFiniteSet(Slots(p)') /\ IsFiniteSet(SeatsOf(p)')
                    /\ Cardinality(SeatsOf(p)') + Cardinality(Slots(p)') + Cardinality(Taken(p)')
                          <= Cardinality(Served(p)')
  BY DEF Counted
<1>5. PICK x : Slots(p)' = IF p = By[q] THEN Slots(p) \cup {x} ELSE Slots(p)
  BY <1>1, <1>2, PushTakes
<1>6. /\ IsFiniteSet(Slots(p) \cup {x})
      /\ Cardinality(Slots(p) \cup {x}) <= Cardinality(Slots(p)) + 1
      /\ Cardinality(Slots(p) \cup {x}) \in Nat
      /\ Cardinality(Served(p) \cup {q}) = Cardinality(Served(p)) + 1
  <2>1. IsFiniteSet(Slots(p)) /\ Cardinality(Slots(p)) \in Nat
    BY Sizes DEF Counted
  <2>2. /\ IsFiniteSet(Slots(p) \cup {x})
        /\ Cardinality(Slots(p) \cup {x})
              = IF x \in Slots(p) THEN Cardinality(Slots(p)) ELSE Cardinality(Slots(p)) + 1
    BY <2>1, FS_AddElement
  <2>3. Cardinality(Served(p) \cup {q}) = Cardinality(Served(p)) + 1
    BY <1>4, Sizes, FS_AddElement
  <2> QED BY <2>1, <2>2, <2>3
<1>7. /\ IsFiniteSet(Slots(p)) /\ IsFiniteSet(SeatsOf(p))
      /\ Cardinality(SeatsOf(p)) + Cardinality(Slots(p)) + Cardinality(Taken(p))
            <= Cardinality(Served(p))
  BY DEF Counted
<1>8. CASE p # By[q]
  BY <1>4, <1>5, <1>7, <1>8
<1>9. CASE p = By[q]
  <2>1. Cardinality(SeatsOf(p)) + Cardinality(Slots(p) \cup {x}) + Cardinality(Taken(p))
            <= Cardinality(Served(p) \cup {q})
    BY <1>6, <1>7, Sizes
  <2> QED BY <1>4, <1>5, <1>6, <1>7, <2>1
<1> QED BY <1>8, <1>9

(* LPOP: the entry is on its way to a seat.                                *)
LEMMA DequeueCounted ==
    ASSUME Sound, Counted, NEW q \in Searches, Dequeue(q)
    PROVE  Counted'
<1>1. q \in Requests /\ Mode[q] \in Modes /\ Searches \subseteq Requests
  BY RequestAssumption DEF Requests
<1> DEFINE m == Mode[q]
           h == Head(queue[m])
<1>2. CASE queue[m] = <<>>
  <2>1. /\ pc[q] = "dequeue" /\ pc' = [pc EXCEPT ![q] = "readState"]
        /\ UNCHANGED <<rooms, queue, partner>>
    BY <1>2 DEF Dequeue, At, QueueKey
  <2>2. pc'[q] = "readState"
    BY <1>1, <2>1 DEF Sound, TypeOK
  <2>3. Onward(q)
    BY <2>1, <2>2 DEF Onward, Unserved, BeforeQueue
  <2> QED BY <1>1, <2>1, <2>3, OnwardCounted
<1>3. CASE queue[m] # <<>>
  <2>1. /\ pc[q] = "dequeue" /\ pc' = [pc EXCEPT ![q] = "create"]
        /\ partner' = [partner EXCEPT ![q] = h]
        /\ queue' = [queue EXCEPT ![m] = Tail(queue[m])]
        /\ UNCHANGED rooms
    BY <1>3 DEF Dequeue, At, QueueKey, Popped
  <2>2. /\ 1 \in 1..Len(queue[m]) /\ queue[m][1] = h /\ h \in Players /\ TakenOut(m, 1)
    BY <1>1, <1>3, <2>1, PopTakes
  <2>3. /\ \A r \in Requests : pc'[r] = IF r = q THEN "create" ELSE pc[r]
        /\ \A r \in Requests : partner'[r] = IF r = q THEN h ELSE partner[r]
    BY <2>1 DEF Sound, TypeOK
  <2> HIDE DEF h, m
  <2> SUFFICES ASSUME NEW p \in Players
               PROVE  /\ IsFiniteSet(Slots(p)') /\ IsFiniteSet(SeatsOf(p)')
                      /\ Cardinality(SeatsOf(p)') + Cardinality(Slots(p)') + Cardinality(Taken(p)')
                            <= Cardinality(Served(p)')
    BY DEF Counted
  <2>4. PICK S : S = Slots(p)'
    OBVIOUS
  <2>5. /\ SeatsOf(p)' = SeatsOf(p)
        /\ Taken(p)' = IF p = h THEN Taken(p) \cup {q} ELSE Taken(p)
        /\ Served(p)' = Served(p)
    <3>1. SeatsOf(p)' = SeatsOf(p)
      BY <2>1, SameSeats
    <3>2. Taken(p)' = IF p = h THEN Taken(p) \cup {q} ELSE Taken(p)
      BY <1>1, <2>1, <2>3 DEF Taken
    <3>3. Served(p)' = Served(p)
      BY <2>1 DEF Served, Unserved, BeforeQueue
    <3> QED BY <3>1, <3>2, <3>3
  <2>6. /\ IsFiniteSet(Slots(p)) /\ IsFiniteSet(SeatsOf(p))
        /\ Cardinality(SeatsOf(p)) + Cardinality(Slots(p)) + Cardinality(Taken(p))
              <= Cardinality(Served(p))
    BY DEF Counted
  <2>7. /\ IsFiniteSet(S) /\ Cardinality(S) \in Nat
        /\ Cardinality(S) <= Cardinality(Slots(p) \ {<<m, 1>>})
    <3>1. m \in Modes
      BY <1>1 DEF m
    <3>2. IsFiniteSet(S) /\ Cardinality(S) <= Cardinality(Slots(p) \ {<<m, 1>>})
      BY <2>2, <2>4, <2>6, <3>1, MoveUp
    <3> QED BY <3>2, FS_CardinalityType
  <2>8. Cardinality(Slots(p) \ {<<m, 1>>})
          = IF p = h THEN Cardinality(Slots(p)) - 1 ELSE Cardinality(Slots(p))
    <3>1. <<m, 1>> \in Slots(p) <=> p = h
      BY <1>1, <2>2 DEF Slots, m
    <3> QED BY <2>6, <3>1, FS_RemoveElement
  <2>9. Cardinality(Taken(p) \cup {q}) = Cardinality(Taken(p)) + 1
    <3>1. q \notin Taken(p)
      BY <2>1 DEF Taken
    <3> QED BY <3>1, Sizes, FS_AddElement
  <2>10. CASE p # h
    <3>1. Cardinality(SeatsOf(p)) + Cardinality(S) + Cardinality(Taken(p)) <= Cardinality(Served(p))
      BY <2>6, <2>7, <2>8, Sizes
    <3> QED BY <2>4, <2>5, <2>6, <2>7, <2>10, <3>1
  <2>11. CASE p = h
    <3>1. Cardinality(SeatsOf(p)) + Cardinality(S) + Cardinality(Taken(p) \cup {q})
            <= Cardinality(Served(p))
      BY <2>6, <2>7, <2>8, <2>9, <2>11, Sizes
    <3> QED BY <2>4, <2>5, <2>6, <2>7, <2>11, <3>1
  <2> QED BY <2>10, <2>11
<1> QED BY <1>2, <1>3

(* LREM: an entry less, at most.                                           *)
LEMMA UnqueueCounted ==
    ASSUME Sound, Counted, NEW q \in Requests, Unqueue(q)
    PROVE  Counted'
<1>1. By[q] \in Players
  BY RequestAssumption DEF Requests
<1>2. PICK m : /\ pc[q] = "unqueue" /\ pc' = [pc EXCEPT ![q] = "readForIdle"]
               /\ queue' = [queue EXCEPT ![m] = RemoveFirst(queue[m], By[q])]
               /\ UNCHANGED <<rooms, partner>>
  BY DEF Unqueue, At, local
<1>3. pc'[q] = "readForIdle"
  BY <1>2 DEF Sound, TypeOK
<1>4. Onward(q)
  BY <1>2, <1>3 DEF Onward, Unserved, BeforeQueue
<1>5. CASE UNCHANGED queue
  BY <1>2, <1>4, <1>5, OnwardCounted
<1>6. ASSUME m \in Modes, NEW k \in 1..Len(queue[m]), TakenOut(m, k)
      PROVE  Counted'
  <2>1. ASSUME NEW p \in Players
        PROVE  /\ IsFiniteSet(Slots(p)') /\ Cardinality(Slots(p)') <= Cardinality(Slots(p))
               /\ SeatsOf(p)' = SeatsOf(p)
               /\ Taken(p)' \subseteq Taken(p) /\ Served(p) \subseteq Served(p)'
    <3>1. PICK S : S = Slots(p)'
      OBVIOUS
    <3>2. IsFiniteSet(Slots(p))
      BY DEF Counted
    <3>3. IsFiniteSet(S) /\ Cardinality(S) <= Cardinality(Slots(p) \ {<<m, k>>})
      BY <1>6, <3>1, <3>2, MoveUp
    <3>4. /\ Cardinality(Slots(p) \ {<<m, k>>}) <= Cardinality(Slots(p))
          /\ Cardinality(Slots(p) \ {<<m, k>>}) \in Nat /\ Cardinality(Slots(p)) \in Nat
          /\ Cardinality(S) \in Nat
      BY <3>2, <3>3, FS_Subset, FS_CardinalityType
    <3>5. IsFiniteSet(S) /\ Cardinality(S) <= Cardinality(Slots(p))
      BY <3>3, <3>4
    <3> QED BY <1>2, <1>4, <3>1, <3>5, SameSeats, OnwardServes
  <2> QED BY <2>1, NoMore
<1> QED BY <1>1, <1>2, <1>5, <1>6, RemoveTakes
-----------------------------------------------------------------------------
(* A Room is opened: a seat for the player whose entry was taken out, and  *)
(* one for the search that took it (the two may be one player).            *)
LEMMA CreateCounted ==
    ASSUME Sound, Counted, NEW q \in Searches, Create(q)
    PROVE  Counted'
<1>1. q \in Requests /\ Searches \subseteq Requests
  BY DEF Requests
<1> DEFINE n == Len(rooms) + 1
<1>2. PICK side \in Sides :
         /\ pc[q] = "create" /\ pc' = [pc EXCEPT ![q] = "publish"]
         /\ UNCHANGED <<queue, partner>>
         /\ rooms' = Append(rooms,
              [players |-> [s \in Sides |-> IF s = side THEN By[q] ELSE partner[q]],
               mode |-> Mode[q], stage |-> "live", freed |-> [s \in Sides |-> "todo"]])
  BY DEF Create, At
<1>3. PICK other \in Sides : other # side /\ Sides = {side, other}
  BY DEF Sides, White, Black
<1>4. /\ RoomIds = 1..Len(rooms) /\ RoomIds' = 1..n /\ Len(rooms) \in Nat
      /\ \A r \in 1..Len(rooms) : rooms'[r].players = rooms[r].players
      /\ rooms'[n].players = [s \in Sides |-> IF s = side THEN By[q] ELSE partner[q]]
  <2>2. PICK room :
           /\ room = [players |-> [s \in Sides |-> IF s = side THEN By[q] ELSE partner[q]],
                      mode |-> Mode[q], stage |-> "live", freed |-> [s \in Sides |-> "todo"]]
           /\ rooms' = Append(rooms, room)
    BY <1>2
  <2>3. /\ Len(rooms') = n /\ rooms'[n] = room
        /\ \A r \in 1..Len(rooms) : rooms'[r] = rooms[r]
    BY <2>2
  <2> HIDE DEF n
  <2> QED BY <2>2, <2>3 DEF RoomIds
<1>5. n \in Nat /\ 1..n = 1..Len(rooms) \cup {n} /\ n \notin 1..Len(rooms)
  BY <1>4
<1> HIDE DEF n
<1>6. \A r \in Requests : pc'[r] = IF r = q THEN "publish" ELSE pc[r]
  BY <1>2 DEF Sound, TypeOK
<1> SUFFICES ASSUME NEW p \in Players
             PROVE  /\ IsFiniteSet(Slots(p)') /\ IsFiniteSet(SeatsOf(p)')
                    /\ Cardinality(SeatsOf(p)') + Cardinality(Slots(p)') + Cardinality(Taken(p)')
                          <= Cardinality(Served(p)')
  BY DEF Counted
<1> DEFINE a == <<n, side>>
           b == <<n, other>>
           old == SeatsOf(p)
           mid == IF p = By[q] THEN old \cup {a} ELSE old
           new == IF p = partner[q] THEN mid \cup {b} ELSE mid
<1>7. SeatsOf(p)' = new
  <2>1. PICK S : S = SeatsOf(p)'
    OBVIOUS
  <2>2. S \subseteq RoomIds' \X Sides /\ old \subseteq RoomIds \X Sides
    BY <2>1 DEF SeatsOf
  <2>3. ASSUME NEW r \in RoomIds', NEW s \in Sides
        PROVE  <<r, s>> \in S <=> \/ <<r, s>> \in old
                                  \/ p = By[q] /\ <<r, s>> = a
                                  \/ p = partner[q] /\ <<r, s>> = b
    <3>1. <<r, s>> \in S <=> rooms'[r].players[s] = p
      BY <2>1 DEF SeatsOf
    <3>2. <<r, s>> \in old <=> r \in RoomIds /\ rooms[r].players[s] = p
      BY DEF SeatsOf
    <3>3. CASE r # n
      BY <1>4, <1>5, <3>1, <3>2, <3>3
    <3>4. CASE r = n
      BY <1>3, <1>4, <3>1, <3>2, <3>4
    <3> QED BY <3>3, <3>4
  <2>4. a \in RoomIds' \X Sides /\ b \in RoomIds' \X Sides /\ old \subseteq RoomIds' \X Sides
    BY <1>4, <1>5, <2>2
  <2> HIDE DEF a, b, old
  <2>5. \A x \in RoomIds' \X Sides : x \in S <=> \/ x \in old
                                                 \/ p = By[q] /\ x = a
                                                 \/ p = partner[q] /\ x = b
    BY <2>3
  <2>6. \A x : x \in new <=> \/ x \in old
                             \/ p = By[q] /\ x = a
                             \/ p = partner[q] /\ x = b
    OBVIOUS
  <2> HIDE DEF new
  <2>7. S = new
    BY <2>2, <2>4, <2>5, <2>6
  <2> QED BY <2>1, <2>7
<1>8. /\ IsFiniteSet(Slots(p)) /\ IsFiniteSet(old)
      /\ Cardinality(old) + Cardinality(Slots(p)) + Cardinality(Taken(p)) <= Cardinality(Served(p))
  BY DEF Counted
<1> HIDE DEF a, b, old
<1>9. /\ IsFiniteSet(mid) /\ Cardinality(mid) \in Nat
      /\ Cardinality(mid) <= Cardinality(old) + (IF p = By[q] THEN 1 ELSE 0)
  <2>1. /\ IsFiniteSet(old \cup {a})
        /\ Cardinality(old \cup {a}) = IF a \in old THEN Cardinality(old) ELSE Cardinality(old) + 1
    BY <1>8, FS_AddElement
  <2>2. Cardinality(old) \in Nat
    BY <1>8, FS_CardinalityType
  <2> QED BY <1>8, <2>1, <2>2
<1> HIDE DEF mid
<1>10. /\ IsFiniteSet(new) /\ Cardinality(new) \in Nat
       /\ Cardinality(new) <= Cardinality(mid) + (IF p = partner[q] THEN 1 ELSE 0)
  <2>1. /\ IsFiniteSet(mid \cup {b})
        /\ Cardinality(mid \cup {b}) = IF b \in mid THEN Cardinality(mid) ELSE Cardinality(mid) + 1
    BY <1>9, FS_AddElement
  <2> QED BY <1>9, <2>1
<1> HIDE DEF new
<1>11. /\ Slots(p)' = Slots(p)
       /\ Taken(p)' = IF p = partner[q] THEN Taken(p) \ {q} ELSE Taken(p)
       /\ Served(p)' = IF p = By[q] THEN Served(p) \cup {q} ELSE Served(p)
       /\ p = partner[q] => q \in Taken(p)
       /\ q \notin Served(p)
  <2>1. Slots(p)' = Slots(p)
    BY <1>2, SameSlots
  <2>2. q \notin Served(p) /\ (p = partner[q] <=> q \in Taken(p))
    BY <1>2 DEF Served, Unserved, Taken
  <2>3. \A r \in Searches : r \in Taken(p)' <=> r \in Taken(p) /\ r # q
    BY <1>1, <1>2, <1>6 DEF Taken
  <2>4. Taken(p)' \subseteq Searches /\ Taken(p) \subseteq Searches
    BY DEF Taken
  <2>5. Taken(p)' = Taken(p) \ {q}
    BY <2>3, <2>4
  <2>6. "publish" \notin Unserved
    BY DEF Unserved, BeforeQueue
  <2>7. Served(p)' = IF p = By[q] THEN Served(p) \cup {q} ELSE Served(p)
    BY <1>1, <1>6, <2>6 DEF Served
  <2> QED BY <2>1, <2>2, <2>5, <2>7
<1> DEFINE t == IF p = partner[q] THEN Taken(p) \ {q} ELSE Taken(p)
           v == IF p = By[q] THEN Served(p) \cup {q} ELSE Served(p)
<1>12. /\ Cardinality(t) = Cardinality(Taken(p)) - (IF p = partner[q] THEN 1 ELSE 0)
       /\ Cardinality(v) = Cardinality(Served(p)) + (IF p = By[q] THEN 1 ELSE 0)
  <2>1. /\ IsFiniteSet(Taken(p)) /\ Cardinality(Taken(p)) \in Nat
        /\ IsFiniteSet(Served(p)) /\ Cardinality(Served(p)) \in Nat
    BY Sizes
  <2>2. q \in Taken(p) => Cardinality(Taken(p) \ {q}) = Cardinality(Taken(p)) - 1
    BY <2>1, FS_RemoveElement
  <2>3. Cardinality(Served(p) \cup {q}) = Cardinality(Served(p)) + 1
    BY <1>11, <2>1, FS_AddElement
  <2> QED BY <1>11, <2>1, <2>2, <2>3
<1> HIDE DEF t, v
<1>13. Cardinality(new) + Cardinality(Slots(p)) + Cardinality(t) <= Cardinality(v)
  <2>1. /\ Cardinality(old) \in Nat /\ Cardinality(Slots(p)) \in Nat
        /\ Cardinality(Taken(p)) \in Nat /\ Cardinality(Served(p)) \in Nat
    BY Sizes DEF old
  <2> QED BY <1>8, <1>9, <1>10, <1>12, <2>1
<1> QED BY <1>7, <1>8, <1>10, <1>11, <1>13 DEF t, v

(* The seats of a Room stay as long as the Room has its number.            *)
LEMMA SeatsStay ==
    ASSUME RoomIds' = RoomIds, \A r \in RoomIds : rooms'[r].players = rooms[r].players
    PROVE  \A p : SeatsOf(p)' = SeatsOf(p)
BY DEF SeatsOf

(* A Room ends, frees a player or closes: its seats count as before.       *)
LEMMA RoomStepCounted ==
    ASSUME Sound, Counted, NEW r \in RoomIds, RoomStep(r)
    PROVE  Counted'
<1>1. UNCHANGED <<queue, pc, partner>>
  BY DEF RoomStep, local
<1>2. RoomIds' = RoomIds /\ \A k \in RoomIds : rooms'[k].players = rooms[k].players
  <2>1. rooms \in Seq(RoomRecords) /\ Len(rooms) \in Nat /\ rooms[r] \in RoomRecords
    BY DEF Sound, TypeOK, RoomIds
  <2>2. PICK new : rooms' = [rooms EXCEPT ![r] = new] /\ new.players = rooms[r].players
    <3>1. CASE EndGame(r) \/ CloseRoom(r)
      BY <2>1, <3>1 DEF EndGame, CloseRoom, RoomRecords
    <3>2. CASE \E side \in Sides : FreePlayer(r, side)
      <4>1. PICK s \in Sides, d \in {"done", "failed"} :
               rooms' = [rooms EXCEPT ![r] = [rooms[r] EXCEPT !.freed[s] = d]]
        BY <3>2 DEF FreePlayer
      <4>2. [rooms[r] EXCEPT !.freed[s] = d].players = rooms[r].players
        OBVIOUS
      <4> QED BY <4>1, <4>2
    <3> QED BY <3>1, <3>2 DEF RoomStep
  <2> QED BY <2>2 DEF RoomIds
<1>3. ASSUME NEW p \in Players
      PROVE  /\ IsFiniteSet(Slots(p)') /\ Cardinality(Slots(p)') <= Cardinality(Slots(p))
             /\ SeatsOf(p)' = SeatsOf(p)
             /\ Taken(p)' \subseteq Taken(p) /\ Served(p) \subseteq Served(p)'
  <2>1. Slots(p)' = Slots(p) /\ SeatsOf(p)' = SeatsOf(p)
    BY <1>1, <1>2, SameSlots, SeatsStay
  <2>2. Taken(p)' = Taken(p) /\ Served(p)' = Served(p)
    BY <1>1 DEF Taken, Served
  <2>3. IsFiniteSet(Slots(p)) /\ Cardinality(Slots(p)) \in Nat
    BY Sizes DEF Counted
  <2> QED BY <2>1, <2>2, <2>3
<1> QED BY <1>3, NoMore

(* The server dies: entries on their way to a seat are lost with it.       *)
LEMMA CrashCounted ==
    ASSUME Sound, Counted, Crash
    PROVE  Counted'
<1>1. UNCHANGED queue
  BY DEF Crash
<1>2. RoomIds' = RoomIds /\ \A k \in RoomIds : rooms'[k].players = rooms[k].players
  <2>2. \A k \in RoomIds : rooms'[k].players = rooms[k].players
    BY DEF Crash
  <2>3. Len(rooms') = Len(rooms)
    BY DEF Crash, RoomIds
  <2> QED BY <2>2, <2>3 DEF RoomIds
<1>3. \A q \in Requests : pc'[q] = IF pc[q] \in {"idle", "done"} THEN pc[q] ELSE "dead"
  BY DEF Crash
<1>4. ASSUME NEW p \in Players
      PROVE  /\ IsFiniteSet(Slots(p)') /\ Cardinality(Slots(p)') <= Cardinality(Slots(p))
             /\ SeatsOf(p)' = SeatsOf(p)
             /\ Taken(p)' \subseteq Taken(p) /\ Served(p) \subseteq Served(p)'
  <2>1. Slots(p)' = Slots(p) /\ SeatsOf(p)' = SeatsOf(p)
    BY <1>1, <1>2, SameSlots, SeatsStay
  <2>2. Taken(p)' \subseteq Taken(p)
    BY <1>3 DEF Taken, Requests
  <2>3. Served(p) \subseteq Served(p)'
    BY <1>3 DEF Served, Requests, Unserved, BeforeQueue
  <2>4. IsFiniteSet(Slots(p)) /\ Cardinality(Slots(p)) \in Nat
    BY Sizes DEF Counted
  <2> QED BY <2>1, <2>2, <2>3, <2>4
<1> QED BY <1>4, NoMore

(* Every other step of a request, and every failed command, moves on and   *)
(* leaves queues and Rooms alone.                                          *)
LEMMA OtherStepsOnward ==
    ASSUME Sound, NEW q \in Requests,
           \/ Exists(q) \/ AddState(q) \/ ReadForIdle(q) \/ WriteIdle(q) \/ Fault(q)
           \/ q \in Searches /\ \/ ReadStatus(q) \/ ReadRoom(q) \/ ReadState(q) \/ SetInQueue(q)
                                \/ Subscribe(q) \/ Notified(q) \/ TimeOut(q) \/ Publish(q)
                                \/ SetInGame(q)
           \/ q \in Cancels /\ ReadForCancel(q)
    PROVE  Onward(q) /\ UNCHANGED <<queue, rooms>>
<1>2. UNCHANGED <<queue, rooms>>
  BY DEF Exists, AddState, ReadForIdle, WriteIdle, Fault, ReadStatus, ReadRoom, ReadState,
         SetInQueue, Subscribe, Notified, TimeOut, Publish, SetInGame, ReadForCancel, shared
<1>3. \A r \in Requests \ {q} : partner'[r] = partner[r]
  BY DEF Exists, AddState, ReadForIdle, WriteIdle, Fault, ReadStatus, ReadRoom, ReadState,
         SetInQueue, Subscribe, Notified, TimeOut, Publish, SetInGame, ReadForCancel, local,
         Sound, TypeOK
<1>4. \E here, there : /\ pc[q] = here /\ pc' = [pc EXCEPT ![q] = there]
                       /\ q \in Searches => there # "create"
                       /\ q \in Searches /\ there \in Unserved => here \in Unserved
  BY DEF Exists, AddState, ReadForIdle, WriteIdle, Fault, ReadStatus, ReadRoom, ReadState,
         SetInQueue, Subscribe, Notified, TimeOut, Publish, SetInGame, ReadForCancel, Refused,
         ReadsNothing, WritesNothing, NotWritten, Unheard, At, AfterTimeOut, Unserved,
         BeforeQueue
<1>5. Onward(q)
  BY <1>3, <1>4 DEF Onward, Sound, TypeOK
<1> QED BY <1>2, <1>5
-----------------------------------------------------------------------------
(* No seats and no entries at first.                                       *)
LEMMA InitCounted == Init => Counted
<1> SUFFICES ASSUME Init, NEW p \in Players
             PROVE  /\ IsFiniteSet(Slots(p)) /\ IsFiniteSet(SeatsOf(p))
                    /\ Cardinality(SeatsOf(p)) + Cardinality(Slots(p)) + Cardinality(Taken(p))
                          <= Cardinality(Served(p))
  BY DEF Counted
<1>1. Slots(p) = {}
  BY DEF Init, Slots
<1>2. SeatsOf(p) = {}
  BY DEF Init, SeatsOf, RoomIds
<1>3. Taken(p) = {}
  BY DEF Init, Taken, Requests
<1>4. Served(p) = {}
  BY DEF Init, Served, Unserved, BeforeQueue, Requests
<1> QED BY <1>1, <1>2, <1>3, <1>4, FS_EmptySet

(* Every step keeps the count.                                             *)
LEMMA NextCounted == Sound /\ Counted /\ [Next]_vars => Counted'
<1> SUFFICES ASSUME Sound, Counted, [Next]_vars PROVE Counted'
  OBVIOUS
<1>1. ASSUME NEW q \in Requests, RequestStep(q) \/ Fault(q)
      PROVE  Counted'
  <2>1. CASE q \in Searches /\ Dequeue(q)
    BY <2>1, DequeueCounted
  <2>2. CASE q \in Searches /\ Enqueue(q)
    BY <2>2, EnqueueCounted
  <2>3. CASE q \in Searches /\ Create(q)
    BY <2>3, CreateCounted
  <2>4. CASE Unqueue(q)
    BY <2>4, UnqueueCounted
  <2>5. CASE /\ ~(q \in Searches /\ (Dequeue(q) \/ Enqueue(q) \/ Create(q)))
             /\ ~Unqueue(q)
    <3>1. Onward(q) /\ UNCHANGED <<queue, rooms>>
      BY <1>1, <2>5, OtherStepsOnward DEF RequestStep, SearchStep, CancelStep, AnyStep
    <3> QED BY <3>1, OnwardCounted
  <2> QED BY <2>1, <2>2, <2>3, <2>4, <2>5
<1>2. CASE UNCHANGED vars
  <2>1. UNCHANGED <<queue, rooms, pc, partner>>
    BY <1>2 DEF vars, shared, local
  <2>2. ASSUME NEW p \in Players
        PROVE  /\ Slots(p)' = Slots(p) /\ SeatsOf(p)' = SeatsOf(p)
               /\ Taken(p)' = Taken(p) /\ Served(p)' = Served(p)
    BY <2>1, SameSlots, SameSeats DEF Taken, Served
  <2> QED BY <2>2 DEF Counted
<1> QED BY <1>1, <1>2, RoomStepCounted, CrashCounted DEF Next, Finished

(* The count holds in every reachable state.                               *)
THEOREM CountedAlways == Spec => []Counted
BY SoundAlways, InitCounted, NextCounted, PTL DEF Spec

(* One search yields at most one seat: however searches and cancels of a   *)
(* player overlap, seats and entries never outnumber the searches.         *)
THEOREM SeatCorrect == Spec => []SeatPerSearch
<1>1. Counted => SeatPerSearch
  <2> SUFFICES ASSUME Counted, NEW p \in Players
               PROVE  Seats(p) + Entries(p)
                        <= Cardinality({q \in Searches : By[q] = p /\ pc[q] \notin BeforeQueue})
    BY DEF SeatPerSearch
  <2> DEFINE E == {mi \in Modes \X (1..Cardinality(Searches)) :
                      mi[2] <= Len(queue[mi[1]]) /\ queue[mi[1]][mi[2]] = p}
             V == {q \in Searches : By[q] = p /\ pc[q] \notin BeforeQueue}
  <2>1. Seats(p) = Cardinality(SeatsOf(p)) /\ Entries(p) = Cardinality(E)
    BY DEF Seats, SeatsOf, Entries
  <2>2. E \subseteq Slots(p)
    BY DEF Slots
  <2>3. Served(p) \subseteq V /\ V \in SUBSET Searches
    BY DEF Served, Unserved
  <2>4. Cardinality(V) \in Nat /\ Cardinality(Served(p)) <= Cardinality(V)
    BY <2>3, FiniteSearches
  <2>5. IsFiniteSet(E) /\ Cardinality(E) <= Cardinality(Slots(p)) /\ Cardinality(E) \in Nat
    BY <2>2, FS_Subset, FS_CardinalityType DEF Counted
  <2>6. Cardinality(SeatsOf(p)) + Cardinality(Slots(p)) + Cardinality(Taken(p))
          <= Cardinality(Served(p))
    BY DEF Counted
  <2> HIDE DEF E, V
  <2>7. Cardinality(SeatsOf(p)) + Cardinality(E) <= Cardinality(V)
    BY <2>4, <2>5, <2>6, Sizes
  <2> QED BY <2>1, <2>7 DEF V
<1> QED BY <1>1, CountedAlways, PTL
-----------------------------------------------------------------------------
(* As long as no command has failed, a player who is recorded as waiting   *)
(* has a search that will write another state (or died with the server),   *)
(* and the entry of a player's only search is there while that search      *)
(* waits for its match or is about to remove it (or died).  Neither is     *)
(* said of the moment of the answer alone: a search is trusted to clear    *)
(* away what it has left at every place where it has left something.       *)
Clearing == {"enqueue", "subscribe", "waiting", "setInGame", "unqueue", "readForIdle", "writeIdle",
             "dead"}

WaitFits ==
    faults = 0 => \A p \in Players : state[p].status = "in_queue" =>
        \E q \in Searches : By[q] = p /\ pc[q] \in Clearing

OnlySearch(q) == \A r \in Searches : By[r] = By[q] => r = q

Entered == {"subscribe", "waiting", "unqueue", "dead"}

EntryFits ==
    faults = 0 => \A q \in Searches : OnlySearch(q) /\ Slots(By[q]) # {} => pc[q] \in Entered

Cleared == WaitFits /\ EntryFits
-----------------------------------------------------------------------------
(* The statuses that are written.                                          *)
LEMMA Statuses ==
    /\ Idle.status # "in_queue" /\ NoState.status # "in_queue"
    /\ \A s, r, m : PlayerState(s, r, m).status = s
    /\ \A s \in PlayerStates : [s EXCEPT !.status = "idle"].status = "idle"
BY DEF Idle, NoState, PlayerState

(* A step of one request, and what it may write to a player's state.       *)
LEMMA RequestWaitFits ==
    ASSUME Sound, WaitFits, NEW q \in Requests, RequestStep(q)
    PROVE  WaitFits'
<1>1. /\ q \in Cancels => q \notin Searches
      /\ By[q] \in Players /\ Searches \subseteq Requests
  BY RequestAssumption DEF Requests
<1>2. read[q] \in PlayerStates /\ state \in [Players -> PlayerStates] /\ pc \in [Requests -> Places]
  BY DEF Sound, TypeOK
<1>3. faults' = faults
  BY DEF RequestStep, SearchStep, CancelStep, AnyStep, budget
<1>4. /\ \A r \in Requests \ {q} : pc'[r] = pc[r]
      /\ \A p \in Players \ {By[q]} : state'[p] = state[p]
      /\ \/ state'[By[q]].status # "in_queue"
         \/ q \in Searches /\ pc'[q] \in Clearing
         \/ state'[By[q]] = state[By[q]] /\ ~(q \in Searches /\ pc[q] \in Clearing)
  <2>1. CASE Exists(q)
    BY <2>1 DEF Exists, At, shared, Clearing
  <2>2. CASE AddState(q)
    BY <2>2, Statuses DEF AddState, At, SetPlayerState, Clearing
  <2>3. CASE Unqueue(q)
    <3>1. pc[q] = "unqueue" /\ pc' = [pc EXCEPT ![q] = "readForIdle"] /\ state' = state
      BY <2>3 DEF Unqueue, At
    <3> QED BY <3>1 DEF Clearing
  <2>4. CASE ReadForIdle(q)
    BY <2>4 DEF ReadForIdle, At, shared, Clearing
  <2>5. CASE WriteIdle(q)
    <3>1. /\ pc' = [pc EXCEPT ![q] = "done"]
          /\ state' = [state EXCEPT ![By[q]] = [read[q] EXCEPT !.status = "idle"]]
      BY <2>5 DEF WriteIdle, At, SetPlayerState
    <3>2. state'[By[q]].status = "idle"
      BY <1>1, <1>2, <3>1
    <3> QED BY <3>1, <3>2
  <2>6. CASE CancelStep(q)
    <3>1. q \in Cancels /\ ReadForCancel(q)
      BY <2>6 DEF CancelStep
    <3>2. state' = state /\ \E there : pc' = [pc EXCEPT ![q] = there]
      BY <3>1 DEF ReadForCancel, At, shared
    <3> QED BY <1>1, <3>1, <3>2
  <2>7. CASE q \in Searches /\ (SetInQueue(q) \/ SetInGame(q))
    <3>1. CASE SetInQueue(q)
      BY <1>2, <2>7, <3>1 DEF SetInQueue, At, SetPlayerState, Clearing
    <3>2. CASE SetInGame(q)
      BY <1>1, <1>2, <3>2, Statuses DEF SetInGame, At, UpdatePlayerRoom, SetPlayerState
    <3> QED BY <2>7, <3>1, <3>2
  <2>8. CASE /\ q \in Searches
             /\ \/ ReadStatus(q) \/ ReadRoom(q) \/ Dequeue(q) \/ ReadState(q) \/ Enqueue(q)
                \/ Subscribe(q) \/ Notified(q) \/ TimeOut(q) \/ Create(q) \/ Publish(q)
    <3>1. /\ state' = state
          /\ \E here, there : /\ pc[q] = here /\ pc' = [pc EXCEPT ![q] = there]
                              /\ here \in Clearing => there \in Clearing
      BY <2>8
         DEF ReadStatus, ReadRoom, Dequeue, ReadState, Enqueue, Subscribe, Notified, TimeOut,
             Create, Publish, At, AfterTimeOut, shared, Clearing
    <3> QED BY <3>1
  <2> QED BY <2>1, <2>2, <2>3, <2>4, <2>5, <2>6, <2>7, <2>8 DEF RequestStep, SearchStep, AnyStep
<1> SUFFICES ASSUME faults = 0, NEW p \in Players, state'[p].status = "in_queue"
             PROVE  \E r \in Searches : By[r] = p /\ pc'[r] \in Clearing
  BY <1>3 DEF WaitFits
<1>5. CASE p # By[q]
  <2>1. PICK r \in Searches : By[r] = p /\ pc[r] \in Clearing
    BY <1>4, <1>5 DEF WaitFits
  <2> QED BY <1>1, <1>4, <2>1
<1>6. CASE p = By[q] /\ q \in Searches /\ pc'[q] \in Clearing
  BY <1>6
<1>7. CASE p = By[q] /\ state'[p] = state[p] /\ ~(q \in Searches /\ pc[q] \in Clearing)
  <2>1. PICK r \in Searches : By[r] = p /\ pc[r] \in Clearing
    BY <1>7 DEF WaitFits
  <2> QED BY <1>1, <1>4, <2>1
<1> QED BY <1>4, <1>5, <1>6, <1>7

(* A Room only ever frees players.                                         *)
LEMMA RoomWaitFits ==
    ASSUME Sound, WaitFits, NEW r \in RoomIds, RoomStep(r)
    PROVE  WaitFits'
<1>1. UNCHANGED <<pc, faults>> /\ state \in [Players -> PlayerStates]
  BY DEF RoomStep, budget, Sound, TypeOK
<1>2. \A p \in Players : state'[p] = state[p] \/ state'[p].status = "idle"
  BY <1>1, Statuses
     DEF RoomStep, EndGame, CloseRoom, FreePlayer, UpdatePlayerRoom, SetPlayerState
<1> QED BY <1>1, <1>2 DEF WaitFits

(* A crash leaves states as they are; who was to clear them is dead.       *)
LEMMA CrashWaitFits ==
    ASSUME Sound, WaitFits, Crash
    PROVE  WaitFits'
<1>1. UNCHANGED <<state, faults>>
  BY DEF Crash
<1>2. \A q \in Searches : pc[q] \in Clearing => pc'[q] \in Clearing
  BY DEF Crash, Clearing, Requests
<1> QED BY <1>1, <1>2 DEF WaitFits
-----------------------------------------------------------------------------
(* A player's only search has at most one seat or entry.                   *)
LEMMA OnlyOne ==
    ASSUME Sound, Counted, NEW q \in Searches, OnlySearch(q)
    PROVE  /\ By[q] \in Players
           /\ IsFiniteSet(Slots(By[q])) /\ IsFiniteSet(SeatsOf(By[q]))
           /\ Cardinality(SeatsOf(By[q])) \in Nat /\ Cardinality(Slots(By[q])) \in Nat
           /\ Cardinality(SeatsOf(By[q])) + Cardinality(Slots(By[q])) <= 1
<1>1. By[q] \in Players
  BY RequestAssumption
<1>2. Served(By[q]) \subseteq {q} /\ {q} \in SUBSET Searches
  BY DEF Served, OnlySearch
<1>3. Cardinality(Served(By[q])) <= 1
  BY <1>2, FiniteSearches, FS_Singleton
<1>4. /\ IsFiniteSet(Slots(By[q])) /\ IsFiniteSet(SeatsOf(By[q]))
      /\ Cardinality(SeatsOf(By[q])) + Cardinality(Slots(By[q])) + Cardinality(Taken(By[q]))
            <= Cardinality(Served(By[q]))
  BY <1>1 DEF Counted
<1>5. /\ Cardinality(SeatsOf(By[q])) \in Nat /\ Cardinality(Slots(By[q])) \in Nat
      /\ Cardinality(Taken(By[q])) \in Nat /\ Cardinality(Served(By[q])) \in Nat
  BY <1>1, Sizes
<1> QED BY <1>1, <1>3, <1>4, <1>5

(* The player of a Room has a seat; a search that has a seat has no entry. *)
LEMMA SeatedOut ==
    ASSUME Sound, Counted, NEW q \in Searches, OnlySearch(q), found[q] # NoRoom
    PROVE  Slots(By[q]) = {}
<1>1. q \in Requests /\ found[q] \in RoomIds
  BY DEF Requests, Sound, TypeOK
<1>2. PICK s \in Sides : rooms[found[q]].players[s] = By[q]
  BY <1>1 DEF Sound, RequestFits, Seated
<1>3. <<found[q], s>> \in SeatsOf(By[q])
  BY <1>1, <1>2 DEF SeatsOf
<1>4. Cardinality(SeatsOf(By[q])) # 0
  BY <1>3, OnlyOne, FS_EmptySet
<1>5. Cardinality(Slots(By[q])) = 0
  BY <1>4, OnlyOne
<1> QED BY <1>5, OnlyOne, FS_EmptySet

(* An entry that is taken out adds none.                                   *)
LEMMA StillEmpty ==
    ASSUME Sound, NEW m \in Modes, NEW k \in 1..Len(queue[m]), TakenOut(m, k)
    PROVE  \A p : Slots(p) = {} => Slots(p)' = {}
<1> SUFFICES ASSUME NEW p, Slots(p) = {} PROVE Slots(p)' = {}
  OBVIOUS
<1>2. PICK S : S = Slots(p)'
  OBVIOUS
<1>3. IsFiniteSet(S) /\ Cardinality(S) <= Cardinality({})
  BY <1>2, MoveUp, FS_EmptySet
<1>4. S = {}
  BY <1>3, FS_EmptySet, FS_CardinalityType
<1> QED BY <1>2, <1>4

(* A search that removes its player's entry removes the only one, if it is *)
(* the player's only search.                                               *)
LEMMA LastEntryOut ==
    ASSUME Sound, Counted, NEW q \in Searches, OnlySearch(q), Unqueue(q)
    PROVE  Slots(By[q])' = {}
<1> DEFINE m == Mode[q]
<1>1. m \in Modes /\ By[q] \in Players
  BY RequestAssumption
<1>2. queue' = [queue EXCEPT ![m] = RemoveFirst(queue[m], By[q])]
  BY DEF Unqueue, QueueKey
<1>3. \A x \in Slots(By[q]) : /\ x = <<m, x[2]>> /\ x[2] \in 1..Len(queue[m])
                              /\ queue[m][x[2]] = By[q]
  <2> SUFFICES ASSUME NEW x \in Slots(By[q])
               PROVE  x[1] = m /\ x = <<x[1], x[2]>> /\ x[2] \in 1..Len(queue[x[1]])
                      /\ queue[x[1]][x[2]] = By[q]
    OBVIOUS
  <2>1. /\ x[1] \in Modes /\ x = <<x[1], x[2]>> /\ x[2] \in 1..Len(queue[x[1]])
        /\ queue[x[1]][x[2]] = By[q]
    BY DEF Slots
  <2>2. Searched(By[q], x[1])
    BY <2>1 DEF Sound, QueueFits
  <2>3. x[1] = m
    BY <2>2 DEF Searched, OnlySearch
  <2> QED BY <2>1, <2>3
<1> HIDE DEF m
<1>4. CASE queue' = queue /\ \A i \in 1..Len(queue[m]) : queue[m][i] # By[q]
  <2>1. Slots(By[q]) = {}
    BY <1>3, <1>4
  <2> QED BY <1>4, <2>1, SameSlots
<1>5. ASSUME NEW k \in 1..Len(queue[m]), queue[m][k] = By[q], TakenOut(m, k)
      PROVE  Slots(By[q])' = {}
  <2>1. <<m, k>> \in Slots(By[q])
    BY <1>1, <1>5 DEF Slots
  <2>2. Cardinality(Slots(By[q]) \ {<<m, k>>}) = Cardinality(Slots(By[q])) - 1
    BY <2>1, OnlyOne, FS_RemoveElement
  <2>3. PICK S : S = Slots(By[q])'
    OBVIOUS
  <2>4. IsFiniteSet(S) /\ Cardinality(S) <= Cardinality(Slots(By[q]) \ {<<m, k>>})
    BY <1>1, <1>5, <2>3, MoveUp, OnlyOne
  <2>5. Cardinality(S) \in Nat
    BY <2>4, FS_CardinalityType
  <2>6. Cardinality(S) = 0
    BY <2>2, <2>4, <2>5, OnlyOne
  <2> QED BY <2>3, <2>4, <2>6, FS_EmptySet
<1> QED BY <1>1, <1>2, <1>4, <1>5, RemoveTakes

(* A request that moves on, while no slot is added.                        *)
LEMMA OnwardEntry ==
    ASSUME Sound, EntryFits, NEW q \in Requests, UNCHANGED faults,
           \A r \in Requests \ {q} : pc'[r] = pc[r],
           \A p : Slots(p) = {} => Slots(p)' = {},
           \/ q \notin Searches
           \/ pc[q] \in Entered => pc'[q] \in Entered
           \/ OnlySearch(q) => Slots(By[q])' = {}
    PROVE  EntryFits'
<1> SUFFICES ASSUME faults = 0, NEW r \in Searches, OnlySearch(r), Slots(By[r])' # {}
             PROVE  pc'[r] \in Entered
  BY DEF EntryFits
<1>1. pc[r] \in Entered
  BY DEF EntryFits
<1>2. r \in Requests
  BY DEF Requests
<1> QED BY <1>1, <1>2

(* A step of one request and the entries in the queues.                    *)
LEMMA RequestEntryFits ==
    ASSUME Sound, Counted, EntryFits, NEW q \in Requests, RequestStep(q)
    PROVE  EntryFits'
<1>1. /\ q \in Cancels => q \notin Searches
      /\ By[q] \in Players /\ Searches \subseteq Requests
      /\ q \in Searches => Mode[q] \in Modes
  BY RequestAssumption DEF Requests
<1>2. UNCHANGED faults
  BY DEF RequestStep, SearchStep, CancelStep, AnyStep, budget
<1>3. pc \in [Requests -> Places]
  BY DEF Sound, TypeOK
<1>4. CASE q \in Searches /\ Enqueue(q)
  <2>1. /\ pc' = [pc EXCEPT ![q] = "subscribe"]
        /\ queue' = [queue EXCEPT ![Mode[q]] = Append(queue[Mode[q]], By[q])]
    BY <1>4 DEF Enqueue, At, QueueKey
  <2>2. \A p : p # By[q] => Slots(p)' = Slots(p)
    BY <1>1, <1>4, <2>1, PushTakes
  <2> SUFFICES ASSUME faults = 0, NEW r \in Searches, OnlySearch(r), Slots(By[r])' # {}
               PROVE  pc'[r] \in Entered
    BY <1>2 DEF EntryFits
  <2>3. CASE r = q
    BY <1>3, <2>1, <2>3 DEF Entered
  <2>4. CASE r # q
    <3>1. By[r] # By[q]
      BY <1>4, <2>4 DEF OnlySearch
    <3>2. Slots(By[r]) # {}
      BY <2>2, <3>1
    <3> QED BY <1>1, <2>1, <2>4, <3>2 DEF EntryFits
  <2> QED BY <2>3, <2>4
<1>5. CASE q \in Searches /\ Dequeue(q)
  <2>1. pc[q] = "dequeue" /\ \E there : pc' = [pc EXCEPT ![q] = there]
    BY <1>5 DEF Dequeue, At
  <2>2. \A p : Slots(p) = {} => Slots(p)' = {}
    <3>1. CASE queue[Mode[q]] = <<>>
      BY <1>5, <3>1, SameSlots DEF Dequeue, QueueKey
    <3>2. CASE queue[Mode[q]] # <<>>
      <4>1. queue' = [queue EXCEPT ![Mode[q]] = Tail(queue[Mode[q]])]
        BY <1>5, <3>2 DEF Dequeue, QueueKey, Popped
      <4> QED BY <1>1, <1>5, <3>2, <4>1, PopTakes, StillEmpty
    <3> QED BY <3>1, <3>2
  <2>3. pc[q] \notin Entered
    BY <2>1 DEF Entered
  <2> QED BY <1>2, <2>1, <2>2, <2>3, OnwardEntry
<1>6. CASE Unqueue(q)
  <2>1. PICK m : /\ pc' = [pc EXCEPT ![q] = "readForIdle"]
                 /\ queue' = [queue EXCEPT ![m] = RemoveFirst(queue[m], By[q])]
    BY <1>6 DEF Unqueue, At
  <2>2. \A p : Slots(p) = {} => Slots(p)' = {}
    BY <1>1, <2>1, RemoveTakes, SameSlots, StillEmpty
  <2>3. q \in Searches /\ OnlySearch(q) => Slots(By[q])' = {}
    BY <1>6, LastEntryOut
  <2> QED BY <1>2, <2>1, <2>2, <2>3, OnwardEntry
<1>7. CASE q \in Searches /\ Notified(q)
  <2>1. pc' = [pc EXCEPT ![q] = "setInGame"] /\ found[q] # NoRoom /\ UNCHANGED queue
    BY <1>7 DEF Notified, At, shared
  <2>2. OnlySearch(q) => Slots(By[q])' = {}
    BY <1>7, <2>1, SeatedOut, SameSlots
  <2>3. \A p : Slots(p) = {} => Slots(p)' = {}
    BY <2>1, SameSlots
  <2> QED BY <1>2, <2>1, <2>2, <2>3, OnwardEntry
<1>8. CASE \/ Exists(q) \/ AddState(q) \/ ReadForIdle(q) \/ WriteIdle(q)
           \/ q \in Searches /\ \/ ReadStatus(q) \/ ReadRoom(q) \/ ReadState(q) \/ SetInQueue(q)
                                \/ Subscribe(q) \/ TimeOut(q) \/ Create(q) \/ Publish(q)
                                \/ SetInGame(q)
           \/ q \in Cancels /\ ReadForCancel(q)
  <2>1. UNCHANGED queue
    BY <1>8
       DEF Exists, AddState, ReadForIdle, WriteIdle, ReadStatus, ReadRoom, ReadState,
           SetInQueue, Subscribe, TimeOut, Create, Publish, SetInGame, ReadForCancel, shared
  <2>2. \E here, there : /\ pc[q] = here /\ pc' = [pc EXCEPT ![q] = there]
                         /\ here \in Entered => there \in Entered
    BY <1>8
       DEF Exists, AddState, ReadForIdle, WriteIdle, ReadStatus, ReadRoom, ReadState,
           SetInQueue, Subscribe, TimeOut, Create, Publish, SetInGame, ReadForCancel, At,
           AfterTimeOut, Entered
  <2>3. \A p : Slots(p) = {} => Slots(p)' = {}
    BY <2>1, SameSlots
  <2> QED BY <1>2, <2>2, <2>3, OnwardEntry
<1> QED BY <1>4, <1>5, <1>6, <1>7, <1>8 DEF RequestStep, SearchStep, CancelStep, AnyStep

(* Nothing is left in Redis at first.                                      *)
LEMMA InitCleared == Init => Cleared
<1> SUFFICES ASSUME Init PROVE Cleared
  OBVIOUS
<1>1. \A p \in Players : state[p].status # "in_queue"
  BY Statuses DEF Init
<1>2. \A p : Slots(p) = {}
  BY DEF Init, Slots
<1> QED BY <1>1, <1>2 DEF Cleared, WaitFits, EntryFits

(* A failed command ends what is said; every other step keeps it.          *)
LEMMA NextCleared == Sound /\ Counted /\ Cleared /\ [Next]_vars => Cleared'
<1> SUFFICES ASSUME Sound, Counted, WaitFits, EntryFits, [Next]_vars PROVE WaitFits' /\ EntryFits'
  BY DEF Cleared
<1>1. ASSUME NEW q \in Requests, RequestStep(q)
      PROVE  WaitFits' /\ EntryFits'
  BY <1>1, RequestWaitFits, RequestEntryFits
<1>2. ASSUME NEW q \in Requests, Fault(q)
      PROVE  WaitFits' /\ EntryFits'
  <2>1. faults' = faults + 1 /\ faults \in 0..MaxFaults
    BY <1>2 DEF Fault, Sound, TypeOK
  <2>2. faults' # 0
    BY <2>1
  <2> QED BY <2>2 DEF WaitFits, EntryFits
<1>3. ASSUME NEW r \in RoomIds, RoomStep(r)
      PROVE  WaitFits' /\ EntryFits'
  <2>1. UNCHANGED <<queue, pc, faults>>
    BY <1>3 DEF RoomStep, budget
  <2>2. EntryFits'
    BY <2>1, SameSlots DEF EntryFits
  <2> QED BY <1>3, <2>2, RoomWaitFits
<1>4. CASE Crash
  <2>1. UNCHANGED <<queue, faults>>
    BY <1>4 DEF Crash
  <2>2. \A q \in Searches : pc[q] \in Entered => pc'[q] \in Entered
    BY <1>4 DEF Crash, Entered, Requests
  <2>3. EntryFits'
    BY <2>1, <2>2, SameSlots DEF EntryFits
  <2> QED BY <1>4, <2>3, CrashWaitFits
<1>5. CASE UNCHANGED vars
  <2>1. UNCHANGED <<state, queue, pc, faults>>
    BY <1>5 DEF vars, shared, budget
  <2>2. EntryFits'
    BY <2>1, SameSlots DEF EntryFits
  <2>3. WaitFits'
    BY <2>1 DEF WaitFits
  <2> QED BY <2>2, <2>3
<1> QED BY <1>1, <1>2, <1>3, <1>4, <1>5 DEF Next, Finished

(* Whoever is recorded as waiting, or stands in a queue, has a search that *)
(* will clear it away, as long as no command fails.                        *)
THEOREM ClearedAlways == Spec => []Cleared
BY SoundAlways, CountedAlways, InitCleared, NextCleared, PTL DEF Spec

(* Nothing is left of a search that was answered, for any number of        *)
(* searches and cancels of the same player and whatever their order.       *)
THEOREM NoTraceCorrect == Spec => []NoTraceLeft
<1>1. Cleared => NoTraceLeft
  <2> SUFFICES ASSUME Cleared, faults = 0, NEW p \in Players,
                      \A q \in Requests : By[q] = p => pc[q] = "done"
               PROVE  /\ state[p].status # "in_queue"
                      /\ Cardinality({q \in Searches : By[q] = p}) = 1 => Entries(p) = 0
    BY DEF NoTraceLeft
  <2>1. \A q \in Searches : By[q] = p => pc[q] = "done"
    BY DEF Requests
  <2>2. state[p].status # "in_queue"
    BY <2>1 DEF Cleared, WaitFits, Clearing
  <2>3. ASSUME Cardinality({q \in Searches : By[q] = p}) = 1
        PROVE  Entries(p) = 0
    <3> DEFINE mine == {q \in Searches : By[q] = p}
    <3>1. IsFiniteSet(mine)
      BY FiniteSearches
    <3>2. PICK q : mine = {q}
      BY <2>3, <3>1, FS_Singleton
    <3>3. q \in Searches /\ By[q] = p /\ OnlySearch(q)
      BY <3>2 DEF OnlySearch
    <3>4. Slots(p) = {}
      BY <2>1, <3>3 DEF Cleared, EntryFits, Entered
    <3> DEFINE E == {mi \in Modes \X (1..Cardinality(Searches)) :
                        mi[2] <= Len(queue[mi[1]]) /\ queue[mi[1]][mi[2]] = p}
    <3>5. E \subseteq Slots(p)
      BY DEF Slots
    <3>6. E = {}
      BY <3>4, <3>5
    <3> QED BY <3>6, FS_EmptySet DEF Entries
  <2> QED BY <2>2, <2>3
<1> QED BY <1>1, ClearedAlways, PTL
=============================================================================
