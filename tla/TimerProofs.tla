---------------------------- MODULE TimerProofs ----------------------------
(***************************************************************************)
(* Proofs about Timer, for every period, timeout and turn of the loop, and *)
(* any number of connections and nodes: IInv is inductive, a node leaves   *)
(* the heap in time until the clock starts again, and the timers implement *)
(* Deadlines.                                                              *)
(***************************************************************************)
EXTENDS Timer, TLAPS

-----------------------------------------------------------------------------
(* What the two functions that change nodes leave.                         *)

\* Clearing the node of a connection touches nothing but its data_ and is_deleted_.
LEMMA SeparatedFacts ==
  ASSUME IInv, NEW c \in Conns
  PROVE  /\ Separated(c) \in [Nodes -> TimerNode]
         /\ \A n \in Nodes : n # timer[c] => Separated(c)[n] = node[n]
         /\ timer[c] # None => /\ Separated(c)[timer[c]].data = None
                               /\ Separated(c)[timer[c]].deleted
         /\ \A n \in heap : Separated(c)[n].data # c
         /\ \A n \in Nodes : /\ Separated(c)[n].expire = node[n].expire
                              /\ Separated(c)[n].timeout = node[n].timeout
                              /\ Separated(c)[n].age = node[n].age
                              /\ Separated(c)[n].wrapped = node[n].wrapped
<1> USE TimerAssumption DEF IInv
<1>1. \A n \in Nodes : node[n] \in TimerNode
  BY DEF TypeOK
<1>2. ASSUME NEW r \in TimerNode
      PROVE  /\ Cleared(r) \in TimerNode
             /\ Cleared(r).data = None /\ Cleared(r).deleted
             /\ Cleared(r).expire = r.expire /\ Cleared(r).timeout = r.timeout
             /\ Cleared(r).age = r.age /\ Cleared(r).wrapped = r.wrapped
  BY DEF Cleared, TimerNode
<1>3. timer[c] \in Nodes \cup {None}
  BY DEF TypeOK
<1>4. ASSUME NEW n \in Nodes
      PROVE  Separated(c)[n] = IF n = timer[c] THEN Cleared(node[n]) ELSE node[n]
  BY DEF Separated
<1>5. Separated(c) \in [Nodes -> TimerNode]
  <2>1. \A n \in Nodes : (IF n = timer[c] THEN Cleared(node[n]) ELSE node[n]) \in TimerNode
    BY <1>1, <1>2
  <2> QED
    BY <2>1 DEF Separated
<1>6. ASSUME NEW n \in heap
      PROVE  Separated(c)[n].data # c
  <2>1. n \in Nodes
    BY DEF TypeOK
  <2>2. CASE n = timer[c]
    BY <1>1, <1>2, <1>4, <2>1, <2>2
  <2>3. CASE n # timer[c]
    BY <1>4, <2>1, <2>3 DEF Links
  <2> QED
    BY <2>2, <2>3
<1>7. ASSUME NEW n \in Nodes
      PROVE  /\ Separated(c)[n].expire = node[n].expire
             /\ Separated(c)[n].timeout = node[n].timeout
             /\ Separated(c)[n].age = node[n].age
             /\ Separated(c)[n].wrapped = node[n].wrapped
  BY <1>1, <1>2, <1>4
<1> QED
  BY <1>1, <1>2, <1>3, <1>4, <1>5, <1>6, <1>7

\* A new node: armed now, with a whole timeout left.
LEMMA NewNodeType ==
  ASSUME IInv, NEW c \in Conns, NEW t \in Timeouts
  PROVE  NewNode(c, t) \in TimerNode /\ t \in Nat \ {0} /\ t <= Period
BY TimerAssumption DEF IInv, TypeOK, NewNode, TimerNode, Timeouts

\* A connection that is opened has no node yet.
LEMMA NothingToSeparate ==
  ASSUME IInv, NEW c \in Conns, timer[c] = None
  PROVE  Separated(c) = node
BY TimerAssumption DEF IInv, TypeOK, Separated

-----------------------------------------------------------------------------
(* IInv holds initially, and every action keeps it.                        *)

\* The heap is empty when the loop starts.
LEMMA InitIInv == Init => IInv
BY TimerAssumption DEF Init, IInv, TypeOK, TimerNode, Freed, Timeouts, Links, Clocked, Looked

\* A connection whose node is cleared and not replaced.
LEMMA SeparateStep ==
  ASSUME IInv, NEW c \in Conns, SeparateTimer(c) \/ Close(c)
  PROVE  IInv'
<1> USE DEF IInv
<1>1. /\ ms' = ms /\ heap' = heap /\ since' = since /\ pc' = pc
      /\ node' = Separated(c) /\ timer' = [timer EXCEPT ![c] = None]
      /\ conn[c] = "open" /\ conn' \in {conn, [conn EXCEPT ![c] = "closed"]}
  BY DEF SeparateTimer, Close, Handler
<1>2. /\ node' \in [Nodes -> TimerNode]
      /\ \A n \in Nodes : n # timer[c] => node'[n] = node[n]
      /\ timer[c] # None => node'[timer[c]].data = None /\ node'[timer[c]].deleted
      /\ \A n \in heap : node'[n].data # c
  BY <1>1, SeparatedFacts
<1>3. \A n \in Nodes : node[n] \in TimerNode
  BY DEF TypeOK
<1>4. TypeOK'
  BY <1>1, <1>2 DEF TypeOK
<1>5. \A n \in heap : /\ node'[n].expire = node[n].expire /\ node'[n].timeout = node[n].timeout
                      /\ node'[n].age = node[n].age /\ node'[n].wrapped = node[n].wrapped
  BY <1>1, SeparatedFacts DEF TypeOK
<1>6. Clocked' /\ Looked'
  BY <1>1, <1>5 DEF Clocked, Looked
<1>7. Links'
  <2>1. ASSUME NEW d \in Conns, timer'[d] # None
        PROVE  timer'[d] \in heap' /\ node'[timer'[d]].data = d /\ conn'[d] = "open"
    <3>1. d # c /\ timer'[d] = timer[d]
      BY <1>1, <2>1 DEF TypeOK
    <3>2. timer[d] \in heap /\ node[timer[d]].data = d /\ conn[d] = "open"
      BY <2>1, <3>1 DEF Links
    <3>3. timer[d] # timer[c]
      BY <3>1, <3>2, <2>1 DEF Links
    <3>4. node'[timer[d]] = node[timer[d]] /\ conn'[d] = conn[d]
      BY <1>1, <1>2, <3>1, <3>2, <3>3 DEF TypeOK
    <3> QED
      BY <1>1, <3>1, <3>2, <3>4
  <2>2. ASSUME NEW n \in heap
        PROVE  /\ node'[n].data # None => timer'[node'[n].data] = n /\ ~node'[n].deleted
               /\ node'[n].data = None => node'[n].deleted
    <3>1. CASE n = timer[c]
      <4>1. node'[n].data = None /\ node'[n].deleted
        BY <1>2, <3>1, TimerAssumption DEF TypeOK
      <4> QED
        BY <4>1
    <3>2. CASE n # timer[c]
      <4>1. node'[n] = node[n] /\ node[n].data # c /\ node[n].data \in Conns \cup {None}
        BY <1>2, <1>3, <3>2 DEF TypeOK, TimerNode
      <4> QED
        BY <1>1, <4>1 DEF Links, TypeOK
    <3> QED
      BY <3>1, <3>2
  <2>3. \A d \in Conns : conn'[d] = "new" => timer'[d] = None
    BY <1>1 DEF Links, TypeOK
  <2> QED
    BY <1>1, <2>1, <2>2, <2>3 DEF Links
<1> QED
  BY <1>4, <1>6, <1>7

\* A connection whose node is cleared, if it has one, and which gets a new one.
LEMMA ArmStep ==
  ASSUME IInv, NEW c \in Conns, Open(c) \/ Rearm(c)
  PROVE  IInv'
<1> USE DEF IInv
<1>1. PICK t \in Timeouts : AddTimerNode(c, t, Separated(c))
  <2>1. CASE Open(c)
    BY <2>1, NothingToSeparate DEF Open, Links, Timeouts
  <2>2. CASE Rearm(c)
    BY <2>2 DEF Rearm
  <2> QED
    BY <2>1, <2>2
<1>2. /\ ms' = ms /\ since' = since /\ pc' = pc
      /\ conn' = [conn EXCEPT ![c] = "open"]
  BY DEF Open, Rearm, Handler, TypeOK
<1>3. PICK m \in Nodes \ heap :
        /\ heap' = heap \cup {m}
        /\ node' = [Separated(c) EXCEPT ![m] = NewNode(c, t)]
        /\ timer' = [timer EXCEPT ![c] = m]
  BY <1>1 DEF AddTimerNode
<1>4. /\ Separated(c) \in [Nodes -> TimerNode]
      /\ \A n \in Nodes : n # timer[c] => Separated(c)[n] = node[n]
      /\ timer[c] # None => /\ Separated(c)[timer[c]].data = None
                            /\ Separated(c)[timer[c]].deleted
      /\ \A n \in heap : Separated(c)[n].data # c
  BY SeparatedFacts
<1>5. NewNode(c, t) \in TimerNode /\ t \in Nat \ {0} /\ t <= Period
  BY NewNodeType
<1>6. \A n \in Nodes : node[n] \in TimerNode
  BY DEF TypeOK
<1>7. TypeOK'
  BY <1>2, <1>3, <1>4, <1>5 DEF TypeOK
<1>8. node'[m] = NewNode(c, t) /\ \A n \in heap : node'[n] = Separated(c)[n]
  BY <1>3, <1>4 DEF TypeOK
<1>9. \A n \in heap : /\ node'[n].expire = node[n].expire /\ node'[n].timeout = node[n].timeout
                      /\ node'[n].age = node[n].age /\ node'[n].wrapped = node[n].wrapped
  BY <1>8, SeparatedFacts DEF TypeOK
<1>10. Clocked' /\ Looked'
  <2>1. /\ node'[m].expire = ms + t /\ node'[m].timeout = t
        /\ node'[m].age = 0 /\ ~node'[m].wrapped
    BY <1>8 DEF NewNode
  <2>2. ms \in Nat /\ since \in Nat
    BY TimerAssumption DEF TypeOK
  <2>3. heap' = heap \cup {m} /\ ms' = ms /\ since' = since
    BY <1>2, <1>3
  <2>4. Clocked'
    BY <1>5, <1>9, <2>1, <2>2, <2>3 DEF Clocked
  <2>5. Looked'
    BY <1>5, <1>9, <2>1, <2>2, <2>3 DEF Looked
  <2> QED
    BY <2>4, <2>5
<1>11. Links'
  <2>1. ASSUME NEW d \in Conns, timer'[d] # None
        PROVE  timer'[d] \in heap' /\ node'[timer'[d]].data = d /\ conn'[d] = "open"
    <3>1. CASE d = c
      BY <1>2, <1>3, <1>8, <3>1 DEF NewNode, TypeOK
    <3>2. CASE d # c
      <4>1. timer'[d] = timer[d]
        BY <1>3, <3>2 DEF TypeOK
      <4>2. timer[d] \in heap /\ node[timer[d]].data = d /\ conn[d] = "open"
        BY <2>1, <4>1 DEF Links
      <4>3. timer[d] # timer[c]
        BY <3>2, <4>1, <4>2, <2>1 DEF Links
      <4>4. node'[timer[d]] = node[timer[d]] /\ conn'[d] = conn[d]
        BY <1>2, <1>4, <1>8, <3>2, <4>2, <4>3 DEF TypeOK
      <4> QED
        BY <1>3, <4>1, <4>2, <4>4
    <3> QED
      BY <3>1, <3>2
  <2>2. ASSUME NEW n \in heap'
        PROVE  /\ node'[n].data # None => timer'[node'[n].data] = n /\ ~node'[n].deleted
               /\ node'[n].data = None => node'[n].deleted
    <3>1. CASE n = m
      BY <1>3, <1>8, <3>1, TimerAssumption DEF NewNode, TypeOK
    <3>2. CASE n # m /\ n = timer[c]
      <4>1. node'[n].data = None /\ node'[n].deleted
        BY <1>3, <1>4, <1>8, <3>2, TimerAssumption DEF TypeOK
      <4> QED
        BY <4>1
    <3>3. CASE n # m /\ n # timer[c]
      <4>1. n \in heap /\ node'[n] = node[n] /\ node[n].data # c
        BY <1>3, <1>4, <1>8, <3>3 DEF TypeOK
      <4>2. node[n].data \in Conns \cup {None}
        BY <1>6, <4>1 DEF TypeOK, TimerNode
      <4> QED
        BY <1>3, <4>1, <4>2 DEF Links, TypeOK
    <3> QED
      BY <3>1, <3>2, <3>3
  <2>3. \A d \in Conns : conn'[d] = "new" => timer'[d] = None
    BY <1>2, <1>3 DEF Links, TypeOK
  <2> QED
    BY <2>1, <2>2, <2>3 DEF Links
<1> QED
  BY <1>7, <1>10, <1>11

\* A node leaves the heap; the one whose timer_ named it names nothing.
LEMMA PopStep ==
  ASSUME IInv, NEW n \in Nodes, Pop(n)
  PROVE  IInv'
<1> USE DEF IInv
<1>1. /\ n \in heap /\ heap' = heap \ {n}
      /\ node' = [node EXCEPT ![n] = Freed]
      /\ timer' = [c \in Conns |-> IF timer[c] = n THEN None ELSE timer[c]]
      /\ conn' = [c \in Conns |-> IF node[n].data = c THEN "expired" ELSE conn[c]]
      /\ ms' = ms /\ pc' = pc /\ since' = since
  BY DEF Pop, IsTop
<1>2. Freed \in TimerNode
  BY TimerAssumption DEF Freed, TimerNode, Timeouts
<1>3. TypeOK'
  BY <1>1, <1>2 DEF TypeOK
<1>4. \A m \in heap' : m \in heap /\ m # n /\ node'[m] = node[m]
  BY <1>1 DEF TypeOK
<1>5. Clocked' /\ Looked'
  BY <1>1, <1>4 DEF Clocked, Looked
<1>6. Links'
  <2>1. ASSUME NEW c \in Conns, timer'[c] # None
        PROVE  timer'[c] \in heap' /\ node'[timer'[c]].data = c /\ conn'[c] = "open"
    <3>1. timer'[c] = timer[c] /\ timer[c] # n /\ timer[c] # None
      BY <1>1, <2>1
    <3>2. timer[c] \in heap' /\ node[timer[c]].data = c /\ conn[c] = "open"
      BY <1>1, <3>1 DEF Links
    <3>3. node[n].data # c
      BY <1>1, <3>1, TimerAssumption DEF Links
    <3> QED
      BY <1>1, <1>4, <3>1, <3>2, <3>3
  <2>2. ASSUME NEW m \in heap'
        PROVE  /\ node'[m].data # None => timer'[node'[m].data] = m /\ ~node'[m].deleted
               /\ node'[m].data = None => node'[m].deleted
    <3>1. node[m].data \in Conns \cup {None}
      BY <1>4 DEF TypeOK, TimerNode
    <3> QED
      BY <1>1, <1>4, <3>1 DEF Links
  <2>3. \A c \in Conns : conn'[c] = "new" => timer'[c] = None
    BY <1>1 DEF Links
  <2> QED
    BY <2>1, <2>2, <2>3 DEF Links
<1> QED
  BY <1>3, <1>5, <1>6

\* HandleExpire begins; it ends when nothing in the heap has expired, so that
\* since may be set back to 0.
LEMMA LookStep ==
  ASSUME IInv, StartExpire \/ ExpireDone
  PROVE  IInv'
<1> USE DEF IInv
<1>1. CASE StartExpire
  BY <1>1 DEF StartExpire, TypeOK, Links, Clocked, Looked
<1>2. CASE ExpireDone
  <2>1. ms' = ms /\ heap' = heap /\ node' = node /\ timer' = timer /\ conn' = conn
        /\ since' = 0 /\ pc' = "events"
    BY <1>2 DEF ExpireDone
  <2>2. TypeOK' /\ Links' /\ Clocked'
    BY <2>1, TimerAssumption DEF TypeOK, Links, Clocked
  <2>3. Looked'
    <3>1. \A n \in heap : node[n].expire \in Nat /\ node[n].timeout \in Nat
                         /\ node[n].age \in Nat /\ ms \in Nat
      BY TimerAssumption DEF TypeOK, TimerNode, Timeouts
    <3>2. CASE heap = {}
      BY <2>1, <3>2 DEF Looked
    <3>3. CASE \E n \in Nodes : IsTop(n) /\ ~IsExpired(n) /\ ~node[n].deleted
      <4>1. PICK n \in heap : IsTop(n) /\ ~IsExpired(n)
        BY <3>3 DEF IsTop
      <4>2. ms < node[n].expire
        BY <3>1, <4>1 DEF IsExpired
      <4>3. \A m \in heap : ms < node[m].expire
        BY <3>1, <4>1, <4>2 DEF IsTop
      <4> QED
        BY <2>1, <3>1, <4>3 DEF Looked, Clocked
    <3> QED
      BY <1>2, <3>2, <3>3 DEF ExpireDone
  <2> QED
    BY <2>2, <2>3
<1> QED
  BY <1>1, <1>2

\* A millisecond: ages grow as the clock does, and a wrap only marks the nodes.
LEMMA TickStep ==
  ASSUME IInv, Tick
  PROVE  IInv'
<1> USE TimerAssumption DEF IInv
<1>1. /\ heap' = heap /\ timer' = timer /\ conn' = conn /\ pc' = pc
      /\ since < LoopTime /\ since' = since + 1
      /\ ms' = IF ms + 1 = Period THEN 0 ELSE ms + 1
      /\ node' = [n \in Nodes |-> IF n \in heap THEN Older(node[n]) ELSE node[n]]
  BY DEF Tick
<1>2. ms \in Nat /\ ms < Period /\ since \in Nat
  BY DEF TypeOK
<1>3. ASSUME NEW r \in TimerNode
      PROVE  /\ Older(r) \in TimerNode
             /\ Older(r).data = r.data /\ Older(r).deleted = r.deleted
             /\ Older(r).expire = r.expire /\ Older(r).timeout = r.timeout
             /\ Older(r).age = IF r.age < Period THEN r.age + 1 ELSE r.age
             /\ (Older(r).wrapped <=> r.wrapped \/ ms + 1 = Period)
  <2>1. /\ r.expire \in Nat /\ r.data \in Conns \cup {None} /\ r.deleted \in BOOLEAN
        /\ r.timeout \in Timeouts /\ r.age \in 0 .. Period /\ r.wrapped \in BOOLEAN
    BY DEF TimerNode
  <2> DEFINE a == IF r.age < Period THEN r.age + 1 ELSE r.age
             w == IF ms + 1 = Period THEN TRUE ELSE r.wrapped
  <2>2. a \in 0 .. Period
    BY <2>1
  <2>3. w \in BOOLEAN
    BY <2>1
  <2>4. Older(r) = [r EXCEPT !.age = a, !.wrapped = w]
    BY DEF Older
  <2>5. w <=> r.wrapped \/ ms + 1 = Period
    BY <2>1
  <2> HIDE DEF a, w
  <2>6. /\ Older(r) \in TimerNode
        /\ Older(r).data = r.data /\ Older(r).deleted = r.deleted
        /\ Older(r).expire = r.expire /\ Older(r).timeout = r.timeout
        /\ Older(r).age = a /\ Older(r).wrapped = w
    BY <2>2, <2>3, <2>4 DEF TimerNode
  <2> QED
    BY <2>5, <2>6 DEF a
<1>4. \A n \in Nodes : node[n] \in TimerNode
  BY DEF TypeOK
<1>5. node' \in [Nodes -> TimerNode]
  BY <1>1, <1>3, <1>4
<1>6. TypeOK'
  BY <1>1, <1>2, <1>5 DEF TypeOK
<1>7. \A n \in heap : node'[n] = Older(node[n]) /\ node[n] \in TimerNode
  BY <1>1, <1>4 DEF TypeOK
<1>8. Links'
  <2>1. \A n \in heap : /\ node'[n].data = node[n].data
                       /\ (node'[n].deleted <=> node[n].deleted)
    BY <1>3, <1>7
  <2>2. heap' = heap /\ timer' = timer /\ conn' = conn
    BY <1>1
  <2> HIDE DEF IInv
  <2>3. Links
    BY DEF IInv
  <2>4. \A c \in Conns : timer'[c] # None =>
          timer'[c] \in heap' /\ node'[timer'[c]].data = c /\ conn'[c] = "open"
    BY <2>1, <2>2, <2>3 DEF Links
  <2>5. \A n \in heap' : node'[n].data # None =>
          timer'[node'[n].data] = n /\ ~node'[n].deleted
    BY <2>1, <2>2, <2>3 DEF Links
  <2>6. /\ \A n \in heap' : node'[n].data = None => node'[n].deleted
        /\ \A c \in Conns : conn'[c] = "new" => timer'[c] = None
    BY <2>1, <2>2, <2>3 DEF Links
  <2> QED
    BY <2>4, <2>5, <2>6 DEF Links
<1>9. ASSUME NEW n \in heap
      PROVE  /\ node'[n].expire >= node'[n].timeout
             /\ node'[n].age >= ms' - (node'[n].expire - node'[n].timeout)
             /\ ~node'[n].wrapped =>
                  /\ node'[n].age = ms' - (node'[n].expire - node'[n].timeout)
                  /\ node'[n].age < node'[n].timeout + since'
  <2> DEFINE r == node[n]
             s == node'[n]
  <2>1. /\ r.expire \in Nat /\ r.timeout \in Nat /\ r.age \in 0 .. Period
        /\ r.wrapped \in BOOLEAN
    BY <1>7 DEF TimerNode, Timeouts
  <2>2. /\ s.expire = r.expire /\ s.timeout = r.timeout
        /\ s.age = IF r.age < Period THEN r.age + 1 ELSE r.age
        /\ (s.wrapped <=> r.wrapped \/ ms + 1 = Period)
    BY <1>3, <1>7
  <2>3. /\ r.expire >= r.timeout /\ r.age >= ms - (r.expire - r.timeout)
        /\ ~r.wrapped => r.age = ms - (r.expire - r.timeout)
        /\ ~r.wrapped => r.age < r.timeout + since
    BY DEF Clocked, Looked
  <2> HIDE DEF r, s
  <2>4. s.expire >= s.timeout /\ s.age >= ms' - (s.expire - s.timeout)
    BY <1>1, <1>2, <2>1, <2>2, <2>3
  <2>5. ASSUME ~s.wrapped
        PROVE  s.age = ms' - (s.expire - s.timeout) /\ s.age < s.timeout + since'
    <3>1. ~r.wrapped /\ ms' = ms + 1
      BY <1>1, <2>2, <2>5
    <3> QED
      BY <1>1, <1>2, <2>1, <2>2, <2>3, <3>1
  <2> QED
    BY <2>4, <2>5 DEF s
<1>10. Clocked' /\ Looked'
  BY <1>1, <1>9 DEF Clocked, Looked
<1> QED
  BY <1>6, <1>8, <1>10

\* IInv holds in every reachable state.
THEOREM Invariance == Spec => []IInv
<1>1. Init => IInv
  BY InitIInv
<1>2. IInv /\ [Next]_vars => IInv'
  <2> SUFFICES ASSUME IInv, [Next]_vars PROVE IInv'
    OBVIOUS
  <2>1. CASE Next
    BY <2>1, SeparateStep, ArmStep, PopStep, LookStep, TickStep DEF Next
  <2>2. CASE UNCHANGED vars
    BY <2>2 DEF vars, IInv, TypeOK, Links, Clocked, Looked
  <2> QED
    BY <2>1, <2>2
<1> QED
  BY <1>1, <1>2, PTL DEF Spec

\* Until the clock starts again no node stays in the heap for more than one turn
\* of the loop after its timeout, live or cleared.
THEOREM InTime == Spec => []NeverLate
<1>1. IInv => NeverLate
  <2> SUFFICES ASSUME IInv, NEW n \in heap, ~node[n].wrapped
               PROVE  node[n].age < node[n].timeout + LoopTime
    BY DEF NeverLate
  <2>1. node[n].age < node[n].timeout + since /\ since <= LoopTime /\ since \in Nat
    BY TimerAssumption DEF IInv, Looked, TypeOK
  <2>2. node[n].age \in Nat /\ node[n].timeout \in Nat
    BY TimerAssumption DEF IInv, TypeOK, TimerNode, Timeouts
  <2> QED
    BY <2>1, <2>2, TimerAssumption
<1> QED
  BY <1>1, Invariance, PTL

-----------------------------------------------------------------------------
(* Timer implements Deadlines.                                             *)

\* The deadlines, as Deadlines sees them, are times or absent.
LEMMA LeftType ==
  ASSUME IInv, NEW c \in Conns
  PROVE  /\ Left(c) \in Int
         /\ timer[c] = None => Left(c) = -1
         /\ timer[c] # None => Left(c) >= 0
BY TimerAssumption DEF IInv, TypeOK, Left, TimerNode, Timeouts

\* Two states with the same deadlines and the same expired connections are the
\* same state of Deadlines.
LEMMA SameAbstract ==
  ASSUME \A c \in Conns : Left(c)' = Left(c),
         \A c \in Conns : conn'[c] = "expired" <=> conn[c] = "expired"
  PROVE  UNCHANGED Abstract!vars
BY DEF Abstract!vars

\* Separating the timer of a connection cancels its deadline and no other.
LEMMA SeparateCancels ==
  ASSUME IInv, IInv', NEW c \in Conns, SeparateTimer(c) \/ Close(c)
  PROVE  Abstract!Cancel(c)
<1> USE TimerAssumption
<1>1. /\ node' = Separated(c) /\ timer' = [timer EXCEPT ![c] = None]
      /\ conn[c] = "open" /\ conn' \in {conn, [conn EXCEPT ![c] = "closed"]}
  BY DEF SeparateTimer, Close
<1>2. Left(c)' = -1
  BY <1>1 DEF IInv, TypeOK, Left
<1>3. ASSUME NEW d \in Conns, d # c
      PROVE  Left(d)' = Left(d)
  <2>1. timer'[d] = timer[d] /\ timer[d] \in Nodes \cup {None}
    BY <1>1, <1>3 DEF IInv, TypeOK
  <2>2. timer[d] # None =>
          node'[timer[d]].age = node[timer[d]].age /\ node'[timer[d]].timeout = node[timer[d]].timeout
    BY <1>1, <2>1, SeparatedFacts
  <2> QED
    BY <2>1, <2>2 DEF Left
<1>4. {d \in Conns : conn'[d] = "expired"} = {d \in Conns : conn[d] = "expired"}
  BY <1>1 DEF IInv, TypeOK
<1> QED
  BY <1>2, <1>3, <1>4 DEF Abstract!Cancel, Abstract!NoDeadline

\* A new node gives the connection the whole timeout, and no other.
LEMMA ArmSets ==
  ASSUME IInv, IInv', NEW c \in Conns, Open(c) \/ Rearm(c)
  PROVE  Abstract!Set(c)
<1> USE TimerAssumption
<1>1. PICK t \in Timeouts : AddTimerNode(c, t, Separated(c))
  <2>1. CASE Open(c)
    BY <2>1, NothingToSeparate DEF Open, IInv, Links, Timeouts
  <2>2. CASE Rearm(c)
    BY <2>2 DEF Rearm
  <2> QED
    BY <2>1, <2>2
<1>2. conn[c] # "expired" /\ conn' = [conn EXCEPT ![c] = "open"]
  BY DEF Open, Rearm, Handler, IInv, TypeOK
<1>3. PICK m \in Nodes \ heap :
        /\ node' = [Separated(c) EXCEPT ![m] = NewNode(c, t)]
        /\ timer' = [timer EXCEPT ![c] = m]
  BY <1>1 DEF AddTimerNode
<1>4. Separated(c) \in [Nodes -> TimerNode]
  BY SeparatedFacts
<1>5. Left(c)' = t
  <2>1. timer'[c] = m /\ node'[m] = NewNode(c, t) /\ m # None
    BY <1>3, <1>4 DEF IInv, TypeOK
  <2>2. t \in Nat \ {0}
    BY NewNodeType
  <2> QED
    BY <2>1, <2>2 DEF Left, NewNode
<1>6. ASSUME NEW d \in Conns, d # c
      PROVE  Left(d)' = Left(d)
  <2>1. timer'[d] = timer[d]
    BY <1>3, <1>6 DEF IInv, TypeOK
  <2>2. timer[d] # None => timer[d] \in heap /\ timer[d] \in Nodes /\ timer[d] # m
    BY DEF IInv, Links, TypeOK
  <2>3. timer[d] # None => node'[timer[d]] = Separated(c)[timer[d]]
    BY <1>3, <1>4, <2>2
  <2>4. timer[d] # None =>
          node'[timer[d]].age = node[timer[d]].age /\ node'[timer[d]].timeout = node[timer[d]].timeout
    BY <2>2, <2>3, SeparatedFacts
  <2> QED
    BY <2>1, <2>4 DEF Left
<1>7. {d \in Conns : conn'[d] = "expired"} = {d \in Conns : conn[d] = "expired"}
  BY <1>2 DEF IInv, TypeOK
<1> QED
  BY <1>2, <1>5, <1>6, <1>7 DEF Abstract!Set

\* A popped node either is a cleared one, or has used up its timeout.
LEMMA PopExpires ==
  ASSUME IInv, IInv', NEW n \in Nodes, Pop(n)
  PROVE  UNCHANGED Abstract!vars \/ \E c \in Conns : Abstract!Expire(c)
<1> USE TimerAssumption
<1>1. /\ n \in heap
      /\ IsExpired(n) \/ node[n].deleted
      /\ node' = [node EXCEPT ![n] = Freed]
      /\ timer' = [c \in Conns |-> IF timer[c] = n THEN None ELSE timer[c]]
      /\ conn' = [c \in Conns |-> IF node[n].data = c THEN "expired" ELSE conn[c]]
  BY DEF Pop, IsTop
<1>2. node[n].data \in Conns \cup {None} /\ node[n] \in TimerNode
  BY DEF IInv, TypeOK, TimerNode
<1>3. ASSUME NEW d \in Conns, node[n].data # d
      PROVE  Left(d)' = Left(d)
  <2>1. timer[d] # n
    BY <1>3 DEF IInv, TypeOK, Links
  <2>2. timer'[d] = timer[d] /\ timer[d] \in Nodes \cup {None}
    BY <1>1, <2>1 DEF IInv, TypeOK
  <2>3. timer[d] # None => node'[timer[d]] = node[timer[d]]
    BY <1>1, <2>1, <2>2 DEF IInv, TypeOK
  <2> QED
    BY <2>2, <2>3 DEF Left
<1>4. CASE node[n].data = None
  BY <1>1, <1>3, <1>4, SameAbstract
<1>5. ASSUME NEW c \in Conns, node[n].data = c
      PROVE  Abstract!Expire(c)
  <2>1. timer[c] = n /\ ~node[n].deleted /\ n # None
    BY <1>1, <1>5 DEF IInv, Links, TypeOK
  <2>2. Left(c) = 0
    <3>1. ms >= node[n].expire
      BY <1>1, <2>1 DEF IsExpired
    <3>2. node[n].age >= ms - (node[n].expire - node[n].timeout)
      BY <1>1 DEF IInv, Clocked
    <3>3. /\ node[n].age \in Nat /\ node[n].timeout \in Nat /\ node[n].expire \in Nat
          /\ ms \in Nat
      BY <1>2 DEF IInv, TypeOK, TimerNode, Timeouts
    <3> QED
      BY <2>1, <3>1, <3>2, <3>3 DEF Left
  <2>3. Left(c)' = -1
    BY <1>1, <2>1 DEF Left
  <2>4. {d \in Conns : conn'[d] = "expired"} = {d \in Conns : conn[d] = "expired"} \cup {c}
    BY <1>1, <1>5
  <2>5. \A d \in Conns : d # c => Left(d)' = Left(d)
    BY <1>3, <1>5
  <2> QED
    BY <2>2, <2>3, <2>4, <2>5 DEF Abstract!Expire, Abstract!NoDeadline
<1> QED
  BY <1>2, <1>4, <1>5

\* A tick takes one from every deadline that is not reached yet.
LEMMA TickPasses ==
  ASSUME IInv, IInv', Tick
  PROVE  Abstract!TimePasses
<1> USE TimerAssumption
<1>1. /\ heap' = heap /\ timer' = timer /\ conn' = conn
      /\ node' = [n \in Nodes |-> IF n \in heap THEN Older(node[n]) ELSE node[n]]
  BY DEF Tick
<1>2. ASSUME NEW c \in Conns
      PROVE  Left(c)' = IF Left(c) > 0 THEN Left(c) - 1 ELSE Left(c)
  <2>1. CASE timer[c] = None
    BY <1>1, <2>1 DEF Left
  <2>2. CASE timer[c] # None
    <3> DEFINE r == node[timer[c]]
    <3>1. timer[c] \in heap /\ r \in TimerNode /\ node'[timer[c]] = Older(r)
      BY <1>1, <2>2 DEF IInv, TypeOK, Links
    <3>2. r.age \in Nat /\ r.timeout \in Nat /\ r.timeout <= Period
      BY <3>1 DEF TimerNode, Timeouts
    <3>3. /\ Older(r).timeout = r.timeout
          /\ Older(r).age = IF r.age < Period THEN r.age + 1 ELSE r.age
      BY <3>1 DEF Older, TimerNode
    <3> HIDE DEF r
    <3>4. Left(c) = IF r.age < r.timeout THEN r.timeout - r.age ELSE 0
      BY <2>2 DEF Left, r
    <3>5. Left(c)' = IF Older(r).age < r.timeout THEN r.timeout - Older(r).age ELSE 0
      BY <1>1, <2>2, <3>1, <3>3 DEF Left, r
    <3> QED
      BY <3>2, <3>3, <3>4, <3>5
  <2> QED
    BY <2>1, <2>2
<1> QED
  BY <1>1, <1>2 DEF Abstract!TimePasses

\* Whatever the clock does, no connection is closed by its timer before the
\* timeout it was last armed with has gone by.
THEOREM NeverEarly == Spec => ImplementsDeadlines
<1>1. Init => Abstract!Init
  BY TimerAssumption DEF Init, Abstract!Init, Abstract!NoDeadline, Left
<1>2. IInv /\ IInv' /\ [Next]_vars => [Abstract!Next]_(Abstract!vars)
  <2> SUFFICES ASSUME IInv, IInv', [Next]_vars
               PROVE  Abstract!Next \/ UNCHANGED Abstract!vars
    OBVIOUS
  <2>1. CASE \E c \in Conns : Open(c) \/ Rearm(c)
    BY <2>1, ArmSets DEF Abstract!Next
  <2>2. CASE \E c \in Conns : SeparateTimer(c) \/ Close(c)
    BY <2>2, SeparateCancels DEF Abstract!Next
  <2>3. CASE \E n \in Nodes : Pop(n)
    BY <2>3, PopExpires DEF Abstract!Next
  <2>4. CASE StartExpire \/ ExpireDone \/ UNCHANGED vars
    <3>1. node' = node /\ timer' = timer /\ conn' = conn
      BY <2>4 DEF StartExpire, ExpireDone, vars
    <3> QED
      BY <3>1, SameAbstract DEF Left
  <2>5. CASE Tick
    BY <2>5, TickPasses DEF Abstract!Next
  <2> QED
    BY <2>1, <2>2, <2>3, <2>4, <2>5 DEF Next
<1> QED
  BY <1>1, <1>2, Invariance, PTL DEF Spec, Abstract!Spec, ImplementsDeadlines
=============================================================================
