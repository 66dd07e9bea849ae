----------------------- MODULE CollabConvergenceProofs -----------------------
(***************************************************************************)
(* Proofs about Collab: what its tabs and rooms converge to.               *)
(*                                                                         *)
(* A tab with nothing in flight shows its room's text, which says nothing  *)
(* of a tab that has something in flight, so it is not inductive.  What    *)
(* is: the tab and its room agree on a text, a revision and the operation  *)
(* of the tab that the room has not taken in (a view), except that the     *)
(* messages on their way to the tab lead from the tab's view to the room's *)
(* (Reaches).  A broadcast moves a view to the next revision and carries   *)
(* the operation over, an acknowledgement takes it in, a snapshot starts   *)
(* afresh.  The operation on its way to the room is, carried over what the *)
(* room remembers, the one in the room's view (Pending).                   *)
(***************************************************************************)
EXTENDS CollabProofs, CollabTextProofs

----------------------------------------------------------------------------
(* What a tab and its room agree on.                                       *)

\* A text of the room at a revision, and the operation of the tab that the
\* room has not taken in yet, carried over to that text; None for none.
Views ==
    {v \in [text : Text, mine : Operation \cup {None}, revision : Nat] :
        v.mine # None => baseLength(v.mine) = Len(v.text)}

\* What a message of the hub makes of it when the tab takes the message.
Link(v, m, w) ==
    \/ /\ m.type = "op"
       /\ m.operation \in Operation
       /\ baseLength(m.operation) = Len(v.text)
       /\ w.text = applyOperation(v.text, m.operation)
       /\ w.mine = IF v.mine = None THEN None
                   ELSE transformOperations(v.mine, m.operation)[1]
       /\ w.revision = v.revision + 1
    \/ /\ m.type = "ack"
       /\ v.mine # None
       /\ w.text = applyOperation(v.text, v.mine)
       /\ w.mine = None
       /\ w.revision = v.revision + 1
    \/ /\ m.type = "error"
       /\ w = v
    \/ /\ m.type = "welcome"
       /\ w.text = m.content
       /\ w.mine = None
       /\ w.revision = m.revision

\* The views on the way from v to w, one after each message of a queue.
Way(q, v, w, f) ==
    /\ f \in [0..Len(q) -> Views]
    /\ f[0] = v
    /\ f[Len(q)] = w
    /\ \A k \in 1..Len(q) : Link(f[k - 1], q[k], f[k])

Reaches(q, v, w) == \E f : Way(q, v, w, f)

\* A queue of anything.
Queue(q) == q \in Seq(Range(q))

Quiet(u) == \A i \in DOMAIN u : u[i].type \notin {"op", "resync"}

OpsOnly(d) == \A i \in DOMAIN d : d[i].type = "op"

\* With nothing on its way a view stays what it is.
LEMMA NoWay ==
    ASSUME NEW v \in Views
    PROVE  Reaches(<<>>, v, v)
  <1> DEFINE f == [k \in 0..0 |-> v]
  <1>1. Way(<<>>, v, v, f)
    BY DEF Way
  <1> QED
    BY <1>1 DEF Reaches

\* The first message is taken.
LEMMA WayTail ==
    ASSUME NEW q, Queue(q), q # <<>>, NEW v, NEW w, Reaches(q, v, w)
    PROVE  \E x \in Views : Link(v, Head(q), x) /\ Reaches(Tail(q), x, w)
  <1>1. /\ Len(q) \in Nat \ {0} /\ Head(q) = q[1]
        /\ \A i \in 1..(Len(q) - 1) : Tail(q)[i] = q[i + 1]
        /\ DOMAIN Tail(q) = 1..(Len(q) - 1)
        /\ Queue(Tail(q))
    BY OwnTail DEF Queue
  <1>2. Len(Tail(q)) = Len(q) - 1
    BY <1>1, LenProperties DEF Queue
  <1>3. PICK f : Way(q, v, w, f)
    BY DEF Reaches
  <1>4. /\ f \in [0..Len(q) -> Views] /\ f[0] = v /\ f[Len(q)] = w
        /\ \A k \in 1..Len(q) : Link(f[k - 1], q[k], f[k])
    BY <1>3 DEF Way
  <1> DEFINE n == Len(Tail(q))
             g == [k \in 0..n |-> f[k + 1]]
  <1>5. \A k \in 0..n : k + 1 \in 0..Len(q)
    BY <1>1, <1>2
  <1>6. g \in [0..n -> Views]
    BY <1>4, <1>5
  <1>7. g[0] = f[1] /\ g[n] = w
    BY <1>1, <1>2, <1>4
  <1>8. ASSUME NEW k \in 1..n
        PROVE  Link(g[k - 1], Tail(q)[k], g[k])
    <2>1. k + 1 \in 1..Len(q) /\ Tail(q)[k] = q[k + 1] /\ (k + 1) - 1 = k
      BY <1>1, <1>2
    <2>2. Link(f[k], q[k + 1], f[k + 1])
      BY <1>4, <2>1
    <2>3. g[k - 1] = f[k] /\ g[k] = f[k + 1]
      BY <1>1, <1>2
    <2> QED
      BY <2>1, <2>2, <2>3
  <1> HIDE DEF g
  <1>9. Way(Tail(q), f[1], w, g)
    BY <1>6, <1>7, <1>8 DEF Way
  <1>10. f[1] \in Views /\ Link(v, Head(q), f[1])
    <2>1. 1 \in 1..Len(q) /\ 1 \in 0..Len(q) /\ 1 - 1 = 0
      BY <1>1
    <2>2. Link(f[0], q[1], f[1])
      BY <1>4, <2>1
    <2> QED
      BY <1>1, <1>4, <2>1, <2>2
  <1> QED
    BY <1>9, <1>10 DEF Reaches

\* A message is sent.
LEMMA WayAppend ==
    ASSUME NEW q, Queue(q), NEW v, NEW w, Reaches(q, v, w),
           NEW m, NEW x \in Views, Link(w, m, x)
    PROVE  Reaches(Append(q, m), v, x)
  <1> DEFINE r == Append(q, m)
  <1>1. /\ Len(q) \in Nat /\ Len(r) = Len(q) + 1
        /\ r[Len(q) + 1] = m
        /\ \A i \in 1..Len(q) : r[i] = q[i]
    BY OwnAppend DEF Queue
  <1>2. PICK f : Way(q, v, w, f)
    BY DEF Reaches
  <1>3. /\ f \in [0..Len(q) -> Views] /\ f[0] = v /\ f[Len(q)] = w
        /\ \A k \in 1..Len(q) : Link(f[k - 1], q[k], f[k])
    BY <1>2 DEF Way
  <1> HIDE DEF r
  <1> DEFINE n == Len(q)
             g == [k \in 0..(n + 1) |-> IF k = n + 1 THEN x ELSE f[k]]
  <1>4. g \in [0..(n + 1) -> Views]
    BY <1>1, <1>3
  <1>5. g[n + 1] = x /\ \A k \in 0..n : g[k] = f[k]
    BY <1>1
  <1> HIDE DEF g
  <1>6. ASSUME NEW k \in 1..(n + 1)
        PROVE  Link(g[k - 1], r[k], g[k])
    <2>1. CASE k = n + 1
      <3>1. g[k - 1] = w /\ g[k] = x /\ r[k] = m
        BY <1>1, <1>3, <1>5, <2>1
      <3> QED
        BY <3>1
    <2>2. CASE k \in 1..n
      <3>1. g[k - 1] = f[k - 1] /\ g[k] = f[k] /\ r[k] = q[k]
        BY <1>1, <1>5, <2>2
      <3> QED
        BY <1>3, <2>2, <3>1
    <2> QED
      BY <1>1, <2>1, <2>2
  <1>7. g[0] = v
    BY <1>1, <1>3, <1>5
  <1>8. Way(r, v, x, g)
    BY <1>1, <1>4, <1>5, <1>6, <1>7 DEF Way
  <1> QED
    BY <1>8 DEF Reaches, r

\* The last message was sent.
LEMMA WayBack ==
    ASSUME NEW q, Queue(q), NEW v, NEW x, NEW m, Reaches(Append(q, m), v, x)
    PROVE  \E w \in Views : Reaches(q, v, w) /\ Link(w, m, x) /\ x \in Views
  <1> DEFINE r == Append(q, m)
             n == Len(q)
  <1>1. /\ n \in Nat /\ Len(r) = n + 1
        /\ r[n + 1] = m
        /\ \A i \in 1..n : r[i] = q[i]
    BY OwnAppend DEF Queue
  <1>2. PICK f : Way(r, v, x, f)
    BY DEF Reaches
  <1> HIDE DEF r
  <1>3. /\ f \in [0..(n + 1) -> Views] /\ f[0] = v /\ f[n + 1] = x
        /\ \A k \in 1..(n + 1) : Link(f[k - 1], r[k], f[k])
    BY <1>1, <1>2 DEF Way
  <1> DEFINE g == [k \in 0..n |-> f[k]]
  <1>4. g \in [0..n -> Views] /\ \A k \in 0..n : g[k] = f[k]
    BY <1>1, <1>3
  <1> HIDE DEF g
  <1>5. ASSUME NEW k \in 1..n
        PROVE  Link(g[k - 1], q[k], g[k])
    <2>1. g[k - 1] = f[k - 1] /\ g[k] = f[k] /\ r[k] = q[k] /\ k \in 1..(n + 1)
      BY <1>1, <1>4
    <2> QED
      BY <1>3, <2>1
  <1>6. g[0] = v /\ g[n] = f[n]
    BY <1>1, <1>3, <1>4
  <1>7. Way(q, v, f[n], g)
    BY <1>4, <1>5, <1>6 DEF Way
  <1>8. f[n] \in Views /\ x \in Views /\ Link(f[n], m, x)
    <2>1. n + 1 \in 1..(n + 1) /\ (n + 1) - 1 = n /\ n \in 0..(n + 1)
          /\ n + 1 \in 0..(n + 1)
      BY <1>1
    <2>2. Link(f[(n + 1) - 1], r[n + 1], f[n + 1])
      BY <1>3, <2>1
    <2> QED
      BY <1>1, <1>3, <2>1, <2>2
  <1> QED
    BY <1>7, <1>8 DEF Reaches

----------------------------------------------------------------------------
(* An operation carried over others.                                       *)

\* One step of it.
CarriedStep(mine, landed) ==
    IF mine = None \/ baseLength(mine) # baseLength(landed) THEN None
    ELSE transformOperations(mine, landed)[1]

CarriedWalk(f, op, landed, n) ==
    f = [i \in 0..n |-> IF i = 0 THEN op ELSE CarriedStep(f[i - 1], landed[i])]

\* The function CarriedOver recurses on exists up to every length.
LEMMA CarriedWalkExists ==
    ASSUME NEW op, NEW landed
    PROVE  \A n \in Nat : \E f : CarriedWalk(f, op, landed, n)
  <1> DEFINE P == {n \in Nat : \E f : CarriedWalk(f, op, landed, n)}
  <1>1. 0 \in P
    <2> DEFINE f == [i \in 0..0 |-> op]
    <2>1. CarriedWalk(f, op, landed, 0)
      BY DEF CarriedWalk
    <2> QED
      BY <2>1
  <1>2. ASSUME NEW n \in Nat, n \in P
        PROVE  n + 1 \in P
    <2>1. PICK f : CarriedWalk(f, op, landed, n)
      BY <1>2
    <2> DEFINE g == [i \in 0..(n + 1) |->
                        IF i = n + 1 THEN CarriedStep(f[n], landed[n + 1])
                        ELSE f[i]]
    <2>2. \A i \in 0..n : f[i] = IF i = 0 THEN op
                                 ELSE CarriedStep(f[i - 1], landed[i])
      BY <2>1 DEF CarriedWalk
    <2>3. \A i \in 0..n : g[i] = f[i]
      OBVIOUS
    <2>4. g[n + 1] = CarriedStep(f[n], landed[n + 1])
      OBVIOUS
    <2>5. \A i \in 0..(n + 1) : g[i] = IF i = 0 THEN op
                                       ELSE CarriedStep(g[i - 1], landed[i])
      <3> SUFFICES ASSUME NEW i \in 0..(n + 1)
                   PROVE  g[i] = IF i = 0 THEN op
                                 ELSE CarriedStep(g[i - 1], landed[i])
        OBVIOUS
      <3> HIDE DEF g
      <3>1. CASE i = n + 1
        <4>1. g[i - 1] = f[n] /\ i # 0
          BY <2>3, <3>1
        <4> QED
          BY <2>4, <3>1, <4>1
      <3>2. CASE i \in 1..n
        <4>1. g[i - 1] = f[i - 1] /\ g[i] = f[i] /\ i # 0
          BY <2>3, <3>2
        <4> QED
          BY <2>2, <3>2, <4>1
      <3>3. CASE i = 0
        BY <2>2, <2>3, <3>3
      <3> QED
        BY <3>1, <3>2, <3>3
    <2>6. g = [i \in 0..(n + 1) |-> g[i]]
      OBVIOUS
    <2> HIDE DEF g
    <2>7. CarriedWalk(g, op, landed, n + 1)
      BY <2>5, <2>6 DEF CarriedWalk
    <2> QED
      BY <2>7
  <1> HIDE DEF P
  <1>3. Nat \subseteq P
    BY <1>1, <1>2, Induction
  <1> QED
    BY <1>3 DEF P

\* So CarriedOver is its last value.
LEMMA CarriedWalks ==
    ASSUME NEW op, NEW landed, Len(landed) \in Nat
    PROVE  \E f : /\ CarriedWalk(f, op, landed, Len(landed))
                  /\ CarriedOver(op, landed) = f[Len(landed)]
  <1> DEFINE F == CHOOSE f : CarriedWalk(f, op, landed, Len(landed))
  <1>1. CarriedOver(op, landed) = F[Len(landed)]
    BY DEF CarriedOver, CarriedWalk, CarriedStep
  <1>2. CarriedWalk(F, op, landed, Len(landed))
    BY CarriedWalkExists
  <1> QED
    BY <1>1, <1>2

\* Carried over nothing, an operation stays as it is.
LEMMA CarriedEmpty ==
    ASSUME NEW op
    PROVE  CarriedOver(op, <<>>) = op
  <1>1. Len(<<>>) = 0 /\ Len(<<>>) \in Nat
    OBVIOUS
  <1>2. PICK f : /\ CarriedWalk(f, op, <<>>, Len(<<>>))
                 /\ CarriedOver(op, <<>>) = f[Len(<<>>)]
    BY <1>1, CarriedWalks
  <1> QED
    BY <1>1, <1>2 DEF CarriedWalk

\* Carried over one operation more: one step more.
LEMMA CarriedAppend ==
    ASSUME NEW op, NEW landed, Queue(landed), NEW x
    PROVE  CarriedOver(op, Append(landed, x))
               = CarriedStep(CarriedOver(op, landed), x)
  <1> DEFINE longer == Append(landed, x)
             n == Len(landed)
  <1>1. /\ n \in Nat /\ Len(longer) = n + 1
        /\ longer[n + 1] = x
        /\ \A i \in 1..n : longer[i] = landed[i]
    BY OwnAppend DEF Queue
  <1> HIDE DEF longer
  <1>2. PICK f : CarriedWalk(f, op, landed, n) /\ CarriedOver(op, landed) = f[n]
    BY <1>1, CarriedWalks
  <1>3. Len(longer) \in Nat
    BY <1>1
  <1>4. PICK g : /\ CarriedWalk(g, op, longer, Len(longer))
                 /\ CarriedOver(op, longer) = g[Len(longer)]
    BY <1>3, CarriedWalks
  <1>5. \A i \in 0..n : f[i] = IF i = 0 THEN op
                               ELSE CarriedStep(f[i - 1], landed[i])
    BY <1>2 DEF CarriedWalk
  <1>6. \A i \in 0..(n + 1) : g[i] = IF i = 0 THEN op
                                     ELSE CarriedStep(g[i - 1], longer[i])
    BY <1>1, <1>4 DEF CarriedWalk
  <1> HIDE DEF n
  <1> DEFINE P == {i \in 0..n : f[i] = g[i]}
  <1>7. 0 \in P
    BY <1>1, <1>5, <1>6
  <1>8. ASSUME NEW i \in 0..n, i \in P, i < n
        PROVE  i + 1 \in P
    <2>1. i + 1 \in 0..n /\ i + 1 \in 0..(n + 1) /\ i + 1 \in 1..n
          /\ i + 1 # 0 /\ (i + 1) - 1 = i
      BY <1>1, <1>8
    <2>2. f[i + 1] = CarriedStep(f[i], landed[i + 1])
      BY <1>5, <2>1
    <2>3. g[i + 1] = CarriedStep(g[i], longer[i + 1])
      BY <1>6, <2>1
    <2>4. longer[i + 1] = landed[i + 1] /\ f[i] = g[i]
      BY <1>1, <1>8, <2>1
    <2> QED
      BY <2>1, <2>2, <2>3, <2>4
  <1> HIDE DEF P
  <1>9. 0..n \subseteq P
    BY <1>1, <1>7, <1>8, InductionUpTo
  <1>10. f[n] = g[n]
    BY <1>1, <1>9 DEF P
  <1>11. n + 1 \in 0..(n + 1) /\ n + 1 # 0 /\ (n + 1) - 1 = n
    BY <1>1
  <1>12. g[n + 1] = CarriedStep(g[n], x)
    BY <1>1, <1>6, <1>11
  <1> QED
    BY <1>1, <1>2, <1>4, <1>10, <1>12 DEF longer

----------------------------------------------------------------------------
(* Several operations composed.                                            *)

ComposedWalk(f, landed, n) ==
    f = [i \in 1..n |-> IF i = 1 THEN landed[1]
                        ELSE composeOperations(f[i - 1], landed[i])]

\* The function Composed recurses on exists up to every length.
LEMMA ComposedWalkExists ==
    ASSUME NEW landed
    PROVE  \A n \in Nat : \E f : ComposedWalk(f, landed, n)
  <1> DEFINE P == {n \in Nat : \E f : ComposedWalk(f, landed, n)}
  <1>1. 0 \in P
    <2> DEFINE f == [i \in 1..0 |-> landed[1]]
    <2>1. ComposedWalk(f, landed, 0)
      BY DEF ComposedWalk
    <2> QED
      BY <2>1
  <1>2. ASSUME NEW n \in Nat, n \in P
        PROVE  n + 1 \in P
    <2>1. PICK f : ComposedWalk(f, landed, n)
      BY <1>2
    <2> DEFINE new == IF n = 0 THEN landed[1]
                      ELSE composeOperations(f[n], landed[n + 1])
               g == [i \in 1..(n + 1) |-> IF i = n + 1 THEN new ELSE f[i]]
    <2>2. \A i \in 1..n : f[i] = IF i = 1 THEN landed[1]
                                 ELSE composeOperations(f[i - 1], landed[i])
      BY <2>1 DEF ComposedWalk
    <2>3. \A i \in 1..n : g[i] = f[i]
      OBVIOUS
    <2>4. g[n + 1] = new
      OBVIOUS
    <2>5. \A i \in 1..(n + 1) : g[i] = IF i = 1 THEN landed[1]
                                   ELSE composeOperations(g[i - 1], landed[i])
      <3> SUFFICES ASSUME NEW i \in 1..(n + 1)
                   PROVE  g[i] = IF i = 1 THEN landed[1]
                                 ELSE composeOperations(g[i - 1], landed[i])
        OBVIOUS
      <3> HIDE DEF g
      <3>1. CASE i = n + 1
        <4>1. CASE n = 0
          BY <2>4, <3>1, <4>1
        <4>2. CASE n # 0
          <5>1. g[i - 1] = f[n] /\ i # 1
            BY <2>3, <3>1, <4>2
          <5> QED
            BY <2>4, <3>1, <4>2, <5>1
        <4> QED
          BY <4>1, <4>2
      <3>2. CASE i \in 2..n
        <4>1. g[i - 1] = f[i - 1] /\ g[i] = f[i] /\ i # 1 /\ i \in 1..n
          BY <2>3, <3>2
        <4> QED
          BY <2>2, <4>1
      <3>3. CASE i = 1 /\ i \in 1..n
        BY <2>2, <2>3, <3>3
      <3> QED
        BY <3>1, <3>2, <3>3
    <2>6. g = [i \in 1..(n + 1) |-> g[i]]
      OBVIOUS
    <2> HIDE DEF g
    <2>7. ComposedWalk(g, landed, n + 1)
      BY <2>5, <2>6 DEF ComposedWalk
    <2> QED
      BY <2>7
  <1> HIDE DEF P
  <1>3. Nat \subseteq P
    BY <1>1, <1>2, Induction
  <1> QED
    BY <1>3 DEF P

\* Operations of which each applies to what the one before makes.
Consecutive(landed) ==
    \A k \in 1..(Len(landed) - 1) :
        targetLength(landed[k]) = baseLength(landed[k + 1])

\* They make one operation.
LEMMA ComposedIsOperation ==
    ASSUME NEW landed \in Seq(Operation), Consecutive(landed), landed # <<>>
    PROVE  Composed(landed) \in Operation
  <1> DEFINE n == Len(landed)
  <1>1. n \in Nat \ {0}
    BY EmptySeq, LenProperties
  <1>2. \A k \in 1..n : landed[k] \in Operation
    BY ElementOfSeq
  <1>3. \A k \in 1..(n - 1) : targetLength(landed[k]) = baseLength(landed[k + 1])
    BY DEF Consecutive
  <1> DEFINE F == CHOOSE f : ComposedWalk(f, landed, n)
  <1>4. Composed(landed) = F[n]
    BY DEF Composed, ComposedWalk
  <1>5. ComposedWalk(F, landed, n)
    BY <1>1, ComposedWalkExists
  <1> HIDE DEF F, n
  <1>6. \A i \in 1..n : F[i] = IF i = 1 THEN landed[1]
                               ELSE composeOperations(F[i - 1], landed[i])
    BY <1>5 DEF ComposedWalk
  <1> DEFINE P == {i \in 0..n : i # 0 => /\ F[i] \in Operation
                                         /\ targetLength(F[i]) = targetLength(landed[i])}
  <1>7. 0 \in P
    BY <1>1
  <1>8. ASSUME NEW i \in 0..n, i \in P, i < n
        PROVE  i + 1 \in P
    <2>1. i + 1 \in 1..n /\ i + 1 \in 0..n
      BY <1>1, <1>8
    <2>2. CASE i = 0
      <3>1. F[i + 1] = landed[i + 1]
        BY <1>6, <2>1, <2>2
      <3> QED
        BY <1>2, <2>1, <3>1
    <2>3. CASE i # 0
      <3> DEFINE a == F[i]
                 b == landed[i + 1]
                 both == F[i + 1]
      <3>1. both = composeOperations(a, b)
        BY <1>6, <2>1, <2>3
      <3>2. a \in Operation /\ targetLength(a) = targetLength(landed[i])
        BY <1>8, <2>3
      <3>3. targetLength(landed[i]) = baseLength(b) /\ b \in Operation
        BY <1>1, <1>2, <1>3, <2>1, <2>3
      <3> HIDE DEF a, b
      <3>4. a \in Seq(Units(Alphabet)) /\ b \in Seq(Units(Alphabet))
            /\ targetLength(a) = baseLength(b)
        BY <3>2, <3>3 DEF Operation, Units
      <3>5. Letters(Alphabet)
        BY CollabAssumption DEF Letters
      <3>6. /\ composeOperations(a, b) \in Seq(Units(Alphabet))
            /\ targetLength(composeOperations(a, b)) = targetLength(b)
        BY <3>4, <3>5, ComposeIsBoth
      <3>7. both \in Operation /\ targetLength(both) = targetLength(b)
        BY <3>1, <3>6 DEF Operation, Units
      <3> QED
        BY <2>1, <3>7 DEF b
    <2> QED
      BY <2>2, <2>3
  <1> HIDE DEF P
  <1>9. 0..n \subseteq P
    BY <1>1, <1>7, <1>8, InductionUpTo
  <1> QED
    BY <1>1, <1>4, <1>9 DEF P

----------------------------------------------------------------------------
(* What the messages do to a view.                                         *)

\* The alphabet is one the theorems about operations apply to.
LEMMA OfAlphabet ==
    /\ Letters(Alphabet) /\ Operation = Seq(Units(Alphabet))
    /\ Text = Seq(Alphabet) /\ None \notin Operation
  BY CollabAssumption DEF Letters, Units, Operation, Text

\* An operation that fits a text makes a text.
LEMMA Applies ==
    ASSUME NEW text \in Text, NEW op \in Operation, baseLength(op) = Len(text)
    PROVE  /\ applyOperation(text, op) \in Text
           /\ Len(applyOperation(text, op)) = targetLength(op)
  <1>1. text \in Seq(Alphabet) /\ op \in Seq(Units(Alphabet)) /\ Letters(Alphabet)
    BY OfAlphabet
  <1>2. baseLength(op) <= Len(text)
    BY <1>1, LengthsType
  <1> QED
    BY <1>1, <1>2, ApplyLength, OfAlphabet

\* Two operations on a text, each carried over the other.
LEMMA Crosses ==
    ASSUME NEW text \in Text, NEW a \in Operation, NEW b \in Operation,
           baseLength(a) = Len(text), baseLength(b) = Len(text),
           NEW x, x = transformOperations(a, b)[1],
           NEW y, y = transformOperations(a, b)[2]
    PROVE  /\ x \in Operation /\ x # None /\ y \in Operation
           /\ baseLength(x) = targetLength(b)
           /\ baseLength(y) = targetLength(a)
           /\ targetLength(x) = targetLength(y)
           /\ Typed(x) = Typed(a)
           /\ applyOperation(applyOperation(text, a), y)
                = applyOperation(applyOperation(text, b), x)
  <1>1. /\ text \in Seq(Alphabet) /\ a \in Seq(Units(Alphabet))
        /\ b \in Seq(Units(Alphabet)) /\ Letters(Alphabet)
        /\ baseLength(a) = baseLength(b) /\ Len(text) = baseLength(a)
    BY OfAlphabet
  <1> DEFINE pair == transformOperations(a, b)
  <1>2. /\ pair[1] \in Seq(Units(Alphabet)) /\ pair[2] \in Seq(Units(Alphabet))
        /\ baseLength(pair[1]) = targetLength(b)
        /\ baseLength(pair[2]) = targetLength(a)
        /\ targetLength(pair[1]) = targetLength(pair[2])
        /\ Typed(pair[1]) = Typed(a)
        /\ \A s \in Seq(Alphabet) : Len(s) = baseLength(a) =>
               applyOperation(applyOperation(s, a), pair[2])
                   = applyOperation(applyOperation(s, b), pair[1])
    BY <1>1, TransformConverges
  <1> HIDE DEF pair
  <1>3. x = pair[1] /\ y = pair[2]
    BY DEF pair
  <1>4. applyOperation(applyOperation(text, a), y)
            = applyOperation(applyOperation(text, b), x)
    BY <1>1, <1>2, <1>3
  <1> QED
    BY <1>2, <1>3, <1>4, OfAlphabet

\* A view is a record.
LEMMA ViewFields ==
    ASSUME NEW v \in Views
    PROVE  /\ v.text \in Text /\ v.revision \in Nat
           /\ v.mine # None => v.mine \in Operation /\ baseLength(v.mine) = Len(v.text)
           /\ v = [text |-> v.text, mine |-> v.mine, revision |-> v.revision]
  BY DEF Views

\* A record of such parts is a view.
LEMMA ViewMade ==
    ASSUME NEW text \in Text, NEW revision \in Nat, NEW mine,
           mine # None => mine \in Operation /\ baseLength(mine) = Len(text)
    PROVE  [text |-> text, mine |-> mine, revision |-> revision] \in Views
  BY DEF Views

\* A broadcast on its way: the text it makes, one revision further, and the
\* tab's own operation carried over it.
LEMMA LinkOp ==
    ASSUME NEW v \in Views, NEW m, m.type = "op", m.operation \in Operation,
           baseLength(m.operation) = Len(v.text)
    PROVE  \E w \in Views :
               /\ Link(v, m, w)
               /\ w.text = applyOperation(v.text, m.operation)
               /\ w.revision = v.revision + 1
               /\ v.mine = None => w.mine = None
               /\ v.mine # None => /\ w.mine = CarriedStep(v.mine, m.operation)
                                   /\ w.mine \in Operation
                                   /\ Typed(w.mine) = Typed(v.mine)
  <1> DEFINE op == m.operation
             text == applyOperation(v.text, op)
             mine == IF v.mine = None THEN None
                     ELSE transformOperations(v.mine, op)[1]
             w == [text |-> text, mine |-> mine, revision |-> v.revision + 1]
  <1>1. /\ v.text \in Text /\ v.revision \in Nat
        /\ v.mine # None => v.mine \in Operation /\ baseLength(v.mine) = Len(v.text)
    BY ViewFields
  <1>2. text \in Text /\ Len(text) = targetLength(op)
    BY <1>1, Applies
  <1>3. v.mine # None => /\ mine \in Operation /\ mine # None
                         /\ baseLength(mine) = targetLength(op)
                         /\ Typed(mine) = Typed(v.mine)
    <2> SUFFICES ASSUME v.mine # None
                 PROVE  /\ mine \in Operation /\ mine # None
                        /\ baseLength(mine) = targetLength(op)
                        /\ Typed(mine) = Typed(v.mine)
      OBVIOUS
    <2>1. v.mine \in Operation /\ baseLength(v.mine) = Len(v.text)
      BY <1>1
    <2> QED
      BY <1>1, <2>1, Crosses
  <1>4. v.mine # None => mine = CarriedStep(v.mine, op)
    BY <1>1 DEF CarriedStep
  <1> HIDE DEF text
  <1>5. v.mine = None => mine = None
    OBVIOUS
  <1>6. Link(v, m, w)
    BY DEF Link, text
  <1> HIDE DEF mine
  <1>7. w \in Views
    <2>1. mine # None => mine \in Operation /\ baseLength(mine) = Len(text)
      BY <1>2, <1>3, <1>5
    <2>2. v.revision + 1 \in Nat
      BY <1>1
    <2> QED
      BY <1>2, <2>1, <2>2, ViewMade
  <1>8. w.text = text /\ w.mine = mine /\ w.revision = v.revision + 1
    OBVIOUS
  <1> HIDE DEF w
  <1> QED
    BY <1>3, <1>4, <1>5, <1>6, <1>7, <1>8 DEF text

----------------------------------------------------------------------------
(* Broadcasts one after the other.                                         *)

Operations(q) == [i \in 1..Len(q) |-> q[i].operation]

\* One broadcast more carries one operation more.
LEMMA OperationsAppend ==
    ASSUME NEW q, Queue(q), NEW m
    PROVE  /\ Operations(Append(q, m)) = Append(Operations(q), m.operation)
           /\ Queue(Operations(q)) /\ Len(Operations(q)) = Len(q)
  <1> DEFINE n == Len(q)
             r == Append(q, m)
             s == Operations(q)
             t == Append(s, m.operation)
  <1>1. /\ n \in Nat /\ Len(r) = n + 1 /\ r[n + 1] = m
        /\ \A i \in 1..n : r[i] = q[i]
        /\ DOMAIN q = 1..n
    BY OwnAppend DEF Queue
  <1>2. s = [i \in DOMAIN q |-> s[i]]
    BY <1>1 DEF Operations
  <1>3. Queue(s) /\ Len(s) = n
    BY <1>2, OwnShape DEF Queue
  <1>4. \A i \in 1..n : s[i] = q[i].operation
    BY DEF Operations
  <1> HIDE DEF s
  <1>5. /\ DOMAIN t = 1..(n + 1) /\ t[n + 1] = m.operation
        /\ \A i \in 1..n : t[i] = s[i]
        /\ Queue(t)
    BY <1>3, OwnAppend DEF Queue
  <1>6. t = [i \in 1..(n + 1) |-> t[i]]
    BY <1>5 DEF Queue
  <1> HIDE DEF t, r
  <1>7. \A i \in 1..(n + 1) : t[i] = r[i].operation
    <2> SUFFICES ASSUME NEW i \in 1..(n + 1) PROVE t[i] = r[i].operation
      OBVIOUS
    <2>1. CASE i = n + 1
      BY <1>1, <1>5, <2>1
    <2>2. CASE i \in 1..n
      BY <1>1, <1>4, <1>5, <2>2
    <2> QED
      BY <1>1, <2>1, <2>2
  <1>8. Operations(r) = [i \in 1..(n + 1) |-> r[i].operation]
    BY <1>1 DEF Operations
  <1>9. Operations(r) = t
    BY <1>6, <1>7, <1>8
  <1> QED
    BY <1>3, <1>9 DEF r, s, t

\* What a queue of broadcasts adds to the revision, and how it carries an
\* operation that is made meanwhile.
Carrying(q) ==
    OpsOnly(q) => \A v, w : Reaches(q, v, w) =>
        /\ w.revision = v.revision + Len(q)
        /\ v \in Views /\ w \in Views
        /\ v.mine = None => w.mine = None

TakingUp(q, op) ==
    OpsOnly(q) => \A v, w :
        Reaches(q, v, w) /\ v.mine = None /\ baseLength(op) = Len(v.text) =>
            LET mine == CarriedOver(op, Operations(q))
            IN  /\ mine \in Operation
                /\ Typed(mine) = Typed(op)
                /\ [w EXCEPT !.mine = mine] \in Views
                /\ Reaches(q, [v EXCEPT !.mine = op], [w EXCEPT !.mine = mine])

\* A longer queue of broadcasts is one of broadcasts.
LEMMA OpsOnlyAppend ==
    ASSUME NEW q, Queue(q), NEW m, OpsOnly(Append(q, m))
    PROVE  OpsOnly(q) /\ m.type = "op"
  <1>1. /\ Len(q) \in Nat /\ DOMAIN q = 1..Len(q)
        /\ DOMAIN Append(q, m) = 1..(Len(q) + 1)
        /\ Append(q, m)[Len(q) + 1] = m
        /\ \A i \in 1..Len(q) : Append(q, m)[i] = q[i]
    BY OwnAppend DEF Queue
  <1>2. \A i \in 1..Len(q) : i \in 1..(Len(q) + 1)
    BY <1>1
  <1>3. Len(q) + 1 \in 1..(Len(q) + 1)
    BY <1>1
  <1> QED
    BY <1>1, <1>2, <1>3 DEF OpsOnly

\* An empty queue leads nowhere else.
LEMMA WayEmpty ==
    ASSUME NEW v, NEW w, Reaches(<<>>, v, w)
    PROVE  v = w /\ v \in Views
  <1>1. PICK f : Way(<<>>, v, w, f)
    BY DEF Reaches
  <1>2. Len(<<>>) = 0
    OBVIOUS
  <1>3. f \in [0..0 -> Views] /\ f[0] = v /\ f[0] = w
    BY <1>1, <1>2 DEF Way
  <1> QED
    BY <1>3

\* Every queue of broadcasts raises the revision by its length.
LEMMA WaysCarry ==
    ASSUME NEW q, Queue(q)
    PROVE  Carrying(q)
  <1> DEFINE S == Range(q)
             P == {s \in Seq(S) : Carrying(s)}
  <1>1. <<>> \in P
    <2>1. \A v, w : Reaches(<<>>, v, w) =>
              /\ w.revision = v.revision + Len(<<>>)
              /\ v \in Views /\ w \in Views
              /\ v.mine = None => w.mine = None
      <3> SUFFICES ASSUME NEW v, NEW w, Reaches(<<>>, v, w)
                   PROVE  /\ w.revision = v.revision + Len(<<>>)
                          /\ v \in Views /\ w \in Views
                          /\ v.mine = None => w.mine = None
        OBVIOUS
      <3>1. v = w /\ v \in Views
        BY WayEmpty
      <3>2. v.revision \in Nat /\ Len(<<>>) = 0
        BY <3>1, ViewFields
      <3> QED
        BY <3>1, <3>2
    <2> QED
      BY <2>1, EmptySeq DEF Carrying
  <1>2. ASSUME NEW s \in Seq(S), NEW e \in S, s \in P
        PROVE  Append(s, e) \in P
    <2>1. Append(s, e) \in Seq(S) /\ Queue(s)
      BY AppendProperties, OwnSeq DEF Queue
    <2>2. Carrying(Append(s, e))
      <3> SUFFICES ASSUME OpsOnly(Append(s, e)), NEW v, NEW w,
                          Reaches(Append(s, e), v, w)
                   PROVE  /\ w.revision = v.revision + Len(Append(s, e))
                          /\ v \in Views /\ w \in Views
                          /\ v.mine = None => w.mine = None
        BY DEF Carrying
      <3>1. OpsOnly(s) /\ e.type = "op"
        BY <2>1, OpsOnlyAppend
      <3>2. PICK x \in Views : Reaches(s, v, x) /\ Link(x, e, w) /\ w \in Views
        BY <2>1, WayBack
      <3>3. /\ x.revision = v.revision + Len(s) /\ v \in Views
            /\ v.mine = None => x.mine = None
        BY <1>2, <3>1, <3>2 DEF Carrying
      <3>4. /\ w.revision = x.revision + 1
            /\ x.mine = None => w.mine = None
        BY <3>1, <3>2 DEF Link
      <3>5. Len(Append(s, e)) = Len(s) + 1 /\ Len(s) \in Nat /\ v.revision \in Nat
        BY <3>3, AppendProperties, LenProperties, ViewFields
      <3> QED
        BY <3>2, <3>3, <3>4, <3>5
    <2> QED
      BY <2>1, <2>2
  <1> HIDE DEF P
  <1>3. Seq(S) \subseteq P
    BY <1>1, <1>2, InductionAppend
  <1> QED
    BY <1>3 DEF P, Queue

\* Every queue of broadcasts carries an operation as CarriedOver does.
LEMMA WaysTakeUp ==
    ASSUME NEW q, Queue(q), NEW op \in Operation
    PROVE  TakingUp(q, op)
  <1> DEFINE S == Range(q)
             P == {s \in Seq(S) : TakingUp(s, op)}
  <1>1. <<>> \in P
    <2> SUFFICES ASSUME NEW v, NEW w, Reaches(<<>>, v, w), v.mine = None,
                        baseLength(op) = Len(v.text),
                        NEW mine, mine = CarriedOver(op, Operations(<<>>))
                 PROVE  /\ mine \in Operation
                        /\ Typed(mine) = Typed(op)
                        /\ [w EXCEPT !.mine = mine] \in Views
                        /\ Reaches(<<>>, [v EXCEPT !.mine = op],
                                         [w EXCEPT !.mine = mine])
      BY EmptySeq DEF TakingUp
    <2>1. v = w /\ v \in Views
      BY WayEmpty
    <2>2. Operations(<<>>) = <<>>
      BY DEF Operations
    <2>3. mine = op
      BY <2>2, CarriedEmpty
    <2> DEFINE x == [v EXCEPT !.mine = op]
    <2>4. /\ x = [text |-> v.text, mine |-> op, revision |-> v.revision]
          /\ v.text \in Text /\ v.revision \in Nat
      BY <2>1, ViewFields
    <2>5. x \in Views
      BY <2>4, ViewMade
    <2> HIDE DEF x
    <2>6. Reaches(<<>>, x, x)
      BY <2>5, NoWay
    <2> QED
      BY <2>1, <2>3, <2>5, <2>6 DEF x
  <1>2. ASSUME NEW s \in Seq(S), NEW e \in S, s \in P
        PROVE  Append(s, e) \in P
    <2>1. Append(s, e) \in Seq(S) /\ Queue(s)
      BY AppendProperties, OwnSeq DEF Queue
    <2>2. TakingUp(Append(s, e), op)
      <3> SUFFICES ASSUME OpsOnly(Append(s, e)), NEW v, NEW w,
                          Reaches(Append(s, e), v, w), v.mine = None,
                          baseLength(op) = Len(v.text),
                          NEW mine, mine = CarriedOver(op, Operations(Append(s, e)))
                   PROVE  /\ mine \in Operation
                          /\ Typed(mine) = Typed(op)
                          /\ [w EXCEPT !.mine = mine] \in Views
                          /\ Reaches(Append(s, e), [v EXCEPT !.mine = op],
                                                   [w EXCEPT !.mine = mine])
        BY DEF TakingUp
      <3>1. OpsOnly(s) /\ e.type = "op"
        BY <2>1, OpsOnlyAppend
      <3>2. PICK x \in Views : Reaches(s, v, x) /\ Link(x, e, w) /\ w \in Views
        BY <2>1, WayBack
      <3> DEFINE old == CarriedOver(op, Operations(s))
                 y == [x EXCEPT !.mine = old]
                 z == [v EXCEPT !.mine = op]
      <3>3. old \in Operation /\ Typed(old) = Typed(op) /\ y \in Views
            /\ Reaches(s, z, y)
        BY <1>2, <3>1, <3>2 DEF TakingUp
      <3>4. mine = CarriedStep(old, e.operation)
        <4>1. /\ Operations(Append(s, e)) = Append(Operations(s), e.operation)
              /\ Queue(Operations(s))
          BY <2>1, OperationsAppend
        <4> QED
          BY <4>1, CarriedAppend
      <3>5. /\ y.text = x.text /\ y.mine = old /\ y.revision = x.revision
        BY <3>2, ViewFields
      <3> HIDE DEF old, y, z
      <3>6. /\ e.operation \in Operation
            /\ baseLength(e.operation) = Len(x.text)
            /\ w.text = applyOperation(x.text, e.operation)
            /\ w.revision = x.revision + 1
        BY <3>1, <3>2 DEF Link
      <3>7. old # None
        BY <3>3, OfAlphabet
      <3>8. PICK t \in Views :
                /\ Link(y, e, t)
                /\ t.text = applyOperation(y.text, e.operation)
                /\ t.revision = y.revision + 1
                /\ y.mine # None => /\ t.mine = CarriedStep(y.mine, e.operation)
                                    /\ t.mine \in Operation
                                    /\ Typed(t.mine) = Typed(y.mine)
        BY <3>1, <3>3, <3>5, <3>6, LinkOp
      <3>9. /\ t.text = w.text /\ t.revision = w.revision /\ t.mine = mine
            /\ mine \in Operation /\ Typed(mine) = Typed(op)
        BY <3>3, <3>4, <3>5, <3>6, <3>7, <3>8
      <3>10. t = [w EXCEPT !.mine = mine]
        <4>1. /\ t = [text |-> t.text, mine |-> t.mine, revision |-> t.revision]
              /\ w = [text |-> w.text, mine |-> w.mine, revision |-> w.revision]
          BY <3>2, <3>8, ViewFields
        <4> QED
          BY <3>9, <4>1
      <3>11. Reaches(Append(s, e), z, t)
        BY <2>1, <3>3, <3>8, WayAppend
      <3> QED
        BY <3>8, <3>9, <3>10, <3>11 DEF z
    <2> QED
      BY <2>1, <2>2
  <1> HIDE DEF P
  <1>3. Seq(S) \subseteq P
    BY <1>1, <1>2, InductionAppend
  <1> QED
    BY <1>3 DEF P, Queue

----------------------------------------------------------------------------
(* The document.                                                           *)

\* A room's history leads to its text, one operation after the other, and
\* its carets are inside it, but for those of participants whose last
\* operation came without one.
RoomSound(room) ==
    /\ room.text \in Text
    /\ room.history \in Seq(Operation)
    /\ Consecutive(room.history)
    /\ room.history # <<>>
           => targetLength(room.history[Len(room.history)]) = Len(room.text)
    /\ \A m \in Members(room) \ room.blind :
           room.caret[m] # None => room.caret[m] \in 0..Len(room.text)

\* A room with one operation more, of which x are forgotten.
Grown(room, op, new, x) ==
    /\ x \in 0..1
    /\ op \in Operation
    /\ new.text = applyOperation(room.text, op)
    /\ new.base = room.base + x
    /\ new.history \in Seq(Operation)
    /\ Len(new.history) \in Nat \ {0}
    /\ Len(new.history) = Len(room.history) + 1 - x
    /\ \A k \in 1..Len(new.history) :
           new.history[k] = Append(room.history, op)[k + x]

\* What landed since a revision of the window.
LEMMA SinceIs ==
    ASSUME NEW room, room.history \in Seq(Operation), room.base \in Nat,
           NEW revision, InWindow(room, revision), NEW s, s = Since(room, revision)
    PROVE  /\ s \in Seq(Operation) /\ revision \in Nat
           /\ Len(s) = Revision(room) - revision
           /\ \A i \in 1..Len(s) : s[i] = room.history[revision - room.base + i]
  <1> DEFINE h == room.history
             n == Len(h)
             b == room.base
             from == revision - b + 1
  <1>1. n \in Nat /\ Revision(room) = b + n
    BY LenProperties DEF Revision
  <1>2. revision \in b..(b + n)
    BY <1>1 DEF InWindow
  <1>3. revision \in Nat /\ from \in 1..(n + 1) /\ from \in Int /\ n \in Int
    BY <1>1, <1>2
  <1>4. \A i \in from..n : h[i] \in Operation
    <2>1. \A i \in from..n : i \in 1..n
      BY <1>1, <1>3
    <2> QED
      BY <2>1, ElementOfSeq
  <1>5. s = SubSeq(h, from, n)
    BY DEF Since
  <1>6. b \in Nat /\ from = revision - b + 1
    OBVIOUS
  <1> HIDE DEF from, h, n, b
  <1>7. /\ s \in Seq(Operation)
        /\ \A i \in 1..(n - from + 1) : s[i] = h[from + i - 1]
    BY <1>3, <1>4, <1>5, SubSeqProperties
  <1>8. Len(s) = IF from <= n THEN n - from + 1 ELSE 0
    BY <1>3, <1>4, <1>5, SubSeqProperties
  <1>9. Len(s) = n - from + 1
    BY <1>1, <1>3, <1>8
  <1>10. Len(s) = Revision(room) - revision
    BY <1>1, <1>2, <1>3, <1>6, <1>9
  <1>11. \A i \in 1..Len(s) : from + i - 1 = revision - b + i
    BY <1>1, <1>3, <1>6, <1>9
  <1> QED
    BY <1>3, <1>7, <1>9, <1>10, <1>11 DEF b, h

\* One operation more has landed since.
LEMMA SinceGrown ==
    ASSUME NEW room, room.history \in Seq(Operation), room.base \in Nat,
           NEW op, NEW new, NEW x, Grown(room, op, new, x),
           NEW revision \in 0..Revision(room), InWindow(new, revision)
    PROVE  /\ InWindow(room, revision)
           /\ Since(new, revision) = Append(Since(room, revision), op)
           /\ Revision(new) = Revision(room) + 1
  <1> DEFINE h == room.history
             n == Len(h)
             b == room.base
             s == Since(room, revision)
             t == Since(new, revision)
             longer == Append(h, op)
  <1>1. n \in Nat /\ Revision(room) = b + n
    BY LenProperties DEF Revision
  <1>2. /\ x \in 0..1 /\ op \in Operation
        /\ new.base = b + x
        /\ new.history \in Seq(Operation)
        /\ Len(new.history) = n + 1 - x
        /\ \A k \in 1..Len(new.history) : new.history[k] = longer[k + x]
    BY DEF Grown
  <1> DEFINE c == new.base
             g == new.history
  <1>3. Revision(new) = b + n + 1 /\ c \in Nat /\ b \in Nat
    <2>1. Revision(new) = (b + x) + (n + 1 - x)
      BY <1>2 DEF Revision
    <2>2. b \in Nat /\ c = b + x
      BY <1>2
    <2> HIDE DEF b, n, c
    <2> QED
      BY <1>1, <1>2, <2>1, <2>2
  <1>4. revision \in (b + x)..(b + n) /\ revision \in Nat
    <2>1. revision \in (b + x)..Revision(new) /\ revision \in 0..(b + n)
      BY <1>1, <1>2 DEF InWindow
    <2> HIDE DEF b, n
    <2> QED
      BY <1>1, <1>2, <1>3, <2>1
  <1>5. InWindow(room, revision)
    <2>1. revision \in b..(b + n)
      <3> HIDE DEF b, n
      <3> QED
        BY <1>1, <1>2, <1>3, <1>4
    <2> QED
      BY <1>1, <2>1 DEF InWindow
  <1>6. /\ s \in Seq(Operation)
        /\ Len(s) = Revision(room) - revision
        /\ \A i \in 1..Len(s) : s[i] = h[revision - b + i]
    BY <1>5, SinceIs
  <1>7. /\ t \in Seq(Operation)
        /\ Len(t) = Revision(new) - revision
        /\ \A i \in 1..Len(t) : t[i] = g[revision - c + i]
    <2>1. new.history \in Seq(Operation) /\ new.base \in Nat
      BY <1>2, <1>3
    <2> QED
      BY <2>1, SinceIs
  <1>8. /\ longer[n + 1] = op
        /\ \A i \in 1..n : longer[i] = h[i]
    BY <1>2, AppendProperties
  <1> DEFINE more == Append(s, op)
  <1>9. /\ more \in Seq(Operation) /\ Len(more) = Len(s) + 1
        /\ \A i \in 1..Len(s) : more[i] = s[i]
        /\ more[Len(s) + 1] = op
    BY <1>2, <1>6, AppendProperties
  <1>10. /\ c = b + x /\ Len(g) = n + 1 - x
         /\ \A k \in 1..Len(g) : g[k] = longer[k + x]
    BY <1>2
  <1> HIDE DEF h, n, b, s, t, longer, more, c, g
  <1>11. Len(s) = b + n - revision /\ Len(t) = Len(s) + 1 /\ Len(s) \in Nat
    <2>1. Len(s) = (b + n) - revision /\ Len(t) = (b + n + 1) - revision
      BY <1>1, <1>3, <1>6, <1>7
    <2> QED
      BY <1>1, <1>3, <1>4, <2>1
  <1>12. ASSUME NEW i \in 1..Len(t)
         PROVE  t[i] = more[i]
    <2> DEFINE k == revision - c + i
    <2>1. k \in 1..Len(g) /\ k + x = revision - b + i
      BY <1>1, <1>2, <1>3, <1>4, <1>10, <1>11
    <2>2. t[i] = longer[revision - b + i]
      BY <1>7, <1>10, <2>1
    <2>3. CASE i = Len(s) + 1
      <3>1. revision - b + i = n + 1
        BY <1>1, <1>3, <1>4, <1>11, <2>3
      <3> QED
        BY <1>8, <1>9, <2>2, <2>3, <3>1
    <2>4. CASE i \in 1..Len(s)
      <3>1. revision - b + i \in 1..n
        BY <1>1, <1>2, <1>3, <1>4, <1>11, <2>4
      <3> QED
        BY <1>6, <1>8, <1>9, <2>2, <2>4, <3>1
    <2> QED
      BY <1>11, <2>3, <2>4
  <1>13. t = more
    BY <1>7, <1>9, <1>12, <1>11, SeqEqual
  <1> QED
    BY <1>1, <1>3, <1>5, <1>13 DEF s, t, more

\* The broadcasts at the end of a tab's queue are the end of the history.
Aligned(d, history) ==
    \A i \in DOMAIN d :
        /\ \A k \in i..Len(d) : d[k].type = "op"
        /\ Len(d) - i < Len(history)
        => d[i].operation = history[Len(history) - (Len(d) - i)]

\* What a tab that has only broadcasts to take has missed is what they hold.
LEMMA SinceAligned ==
    ASSUME NEW room, room.history \in Seq(Operation), room.base \in Nat,
           NEW d, Queue(d), OpsOnly(d), Aligned(d, room.history),
           NEW revision \in Nat, Revision(room) = revision + Len(d),
           InWindow(room, revision)
    PROVE  Since(room, revision) = Operations(d)
  <1> DEFINE h == room.history
             n == Len(h)
             b == room.base
             s == Since(room, revision)
             m == Len(d)
  <1>1. /\ n \in Nat /\ Revision(room) = b + n /\ m \in Nat /\ DOMAIN d = 1..m
    BY LenProperties DEF Revision, Queue
  <1>2. revision = b + n - m /\ m <= n /\ b \in Nat
    <2>1. revision \in b..(b + n) /\ b + n = revision + m /\ b \in Nat
      BY <1>1 DEF InWindow
    <2> HIDE DEF b, n, m
    <2> QED
      BY <1>1, <2>1
  <1>3. /\ s \in Seq(Operation) /\ Len(s) = Revision(room) - revision
        /\ \A i \in 1..Len(s) : s[i] = room.history[revision - room.base + i]
    <2>1. s = Since(room, revision)
      OBVIOUS
    <2> HIDE DEF s
    <2> QED
      BY <2>1, SinceIs
  <1>4. Len(s) = m
    <2>1. Len(s) = (b + n) - revision
      BY <1>1, <1>3
    <2> HIDE DEF b, n, m, s
    <2> QED
      BY <1>1, <1>2, <2>1
  <1>5. s = [i \in 1..m |-> s[i]]
    BY <1>3, <1>4, LenProperties
  <1> HIDE DEF s
  <1>6. ASSUME NEW i \in 1..m
        PROVE  s[i] = d[i].operation
    <2>1. \A k \in i..m : d[k].type = "op"
      BY <1>1 DEF OpsOnly
    <2>2. m - i < n /\ n - (m - i) = revision - b + i
      <3> HIDE DEF b, n, m
      <3> QED
        BY <1>1, <1>2
    <2>3. d[i].operation = h[n - (m - i)]
      BY <1>1, <2>1, <2>2 DEF Aligned
    <2>4. s[i] = h[revision - b + i]
      BY <1>3, <1>4
    <2> QED
      BY <2>2, <2>3, <2>4
  <1>7. Operations(d) = [i \in 1..m |-> d[i].operation]
    BY DEF Operations
  <1> QED
    BY <1>5, <1>6, <1>7 DEF s

\* The first message is taken: the rest is still the end of the history.
LEMMA AlignedTail ==
    ASSUME NEW d, Queue(d), d # <<>>, NEW h, Aligned(d, h)
    PROVE  Aligned(Tail(d), h)
  <1>1. /\ Len(d) \in Nat \ {0} /\ DOMAIN d = 1..Len(d)
        /\ \A i \in 1..(Len(d) - 1) : Tail(d)[i] = d[i + 1]
        /\ DOMAIN Tail(d) = 1..(Len(d) - 1)
        /\ Queue(Tail(d))
    BY OwnTail DEF Queue
  <1>2. Len(Tail(d)) = Len(d) - 1
    BY <1>1, LenProperties DEF Queue
  <1> DEFINE n == Len(d)
             e == Tail(d)
  <1> HIDE DEF e
  <1> SUFFICES ASSUME NEW i \in 1..(n - 1), \A k \in i..(n - 1) : e[k].type = "op",
                      (n - 1) - i < Len(h)
               PROVE  e[i].operation = h[Len(h) - ((n - 1) - i)]
    BY <1>1, <1>2 DEF Aligned, e
  <1>3. i + 1 \in 1..n /\ e[i] = d[i + 1] /\ (n - 1) - i = n - (i + 1)
    BY <1>1 DEF e
  <1>4. ASSUME NEW k \in (i + 1)..n
        PROVE  d[k].type = "op"
    <2>1. k - 1 \in i..(n - 1) /\ k - 1 \in 1..(n - 1) /\ (k - 1) + 1 = k
      BY <1>1
    <2>2. e[k - 1] = d[k]
      BY <1>1, <2>1 DEF e
    <2> QED
      BY <2>1, <2>2
  <1> QED
    BY <1>1, <1>3, <1>4 DEF Aligned

\* An answer is sent: no broadcast follows it yet.
LEMMA AlignedAnswer ==
    ASSUME NEW d, Queue(d), NEW m, m.type # "op", NEW h
    PROVE  Aligned(Append(d, m), h)
  <1> DEFINE e == Append(d, m)
  <1>1. /\ Len(d) \in Nat /\ Len(e) = Len(d) + 1 /\ DOMAIN e = 1..(Len(d) + 1)
        /\ e[Len(d) + 1] = m
    BY OwnAppend DEF Queue
  <1> HIDE DEF e
  <1>2. \A i \in DOMAIN e : Len(e) \in i..Len(e)
    BY <1>1
  <1> QED
    BY <1>1, <1>2 DEF Aligned, e

\* A broadcast is sent: it is the history's newest.
LEMMA AlignedGrown ==
    ASSUME NEW room, room.history \in Seq(Operation),
           NEW op, NEW new, NEW x, Grown(room, op, new, x),
           NEW d, Queue(d), Aligned(d, room.history),
           NEW m, m.operation = op
    PROVE  Aligned(Append(d, m), new.history)
  <1> DEFINE h == room.history
             g == new.history
             n == Len(d)
             e == Append(d, m)
             longer == Append(h, op)
  <1>1. /\ n \in Nat /\ DOMAIN d = 1..n
        /\ Len(e) = n + 1 /\ DOMAIN e = 1..(n + 1)
        /\ e[n + 1] = m
        /\ \A i \in 1..n : e[i] = d[i]
    BY OwnAppend DEF Queue
  <1>2. /\ x \in 0..1 /\ op \in Operation
        /\ Len(g) \in Nat \ {0}
        /\ Len(g) = Len(h) + 1 - x
        /\ \A k \in 1..Len(g) : g[k] = longer[k + x]
    BY DEF Grown
  <1>3. /\ Len(h) \in Nat
        /\ longer[Len(h) + 1] = op
        /\ \A i \in 1..Len(h) : longer[i] = h[i]
    BY <1>2, AppendProperties, LenProperties
  <1> HIDE DEF e, g, longer
  <1> SUFFICES ASSUME NEW i \in 1..(n + 1),
                      \A k \in i..(n + 1) : e[k].type = "op",
                      (n + 1) - i < Len(g)
               PROVE  e[i].operation = g[Len(g) - ((n + 1) - i)]
    BY <1>1 DEF Aligned, e, g
  <1>4. CASE i = n + 1
    <2>1. Len(g) - ((n + 1) - i) = Len(g) /\ Len(g) \in 1..Len(g)
          /\ Len(g) + x = Len(h) + 1
      BY <1>1, <1>2, <1>3, <1>4
    <2> QED
      BY <1>1, <1>2, <1>3, <1>4, <2>1
  <1>5. CASE i \in 1..n
    <2> DEFINE k == Len(g) - ((n + 1) - i)
    <2>1. /\ k \in 1..Len(g) /\ k + x = Len(h) - (n - i)
          /\ n - i < Len(h) /\ k + x \in 1..Len(h)
      BY <1>1, <1>2, <1>3, <1>5
    <2>2. g[k] = h[Len(h) - (n - i)]
      BY <1>2, <1>3, <2>1
    <2>3. \A j \in i..n : d[j].type = "op"
      <3> SUFFICES ASSUME NEW j \in i..n PROVE d[j].type = "op"
        OBVIOUS
      <3>1. j \in i..(n + 1) /\ j \in 1..n
        BY <1>1, <1>5
      <3> QED
        BY <1>1, <3>1
    <2>4. d[i].operation = h[Len(h) - (n - i)]
      BY <1>1, <1>5, <2>1, <2>3 DEF Aligned
    <2> QED
      BY <1>1, <1>5, <2>2, <2>4
  <1> QED
    BY <1>1, <1>4, <1>5

----------------------------------------------------------------------------
(* An operation that waits for the hub, and one that it takes.             *)

\* An operation of a tab, sent when its revision was the room's or was still
\* on its way, is by now mine.
Pending(room, m, mine) ==
    /\ m.operation \in Operation /\ m.caret \in Nat \cup {None}
    /\ m.revision \in 0..Revision(room)
    /\ mine \in Operation
    /\ Typed(mine) = Typed(m.operation)
    /\ InWindow(room, m.revision)
           => CarriedOver(m.operation, Since(room, m.revision)) = mine

\* An operation more is a revision more, whatever is forgotten.
LEMMA GrownRevision ==
    ASSUME NEW room, room.history \in Seq(Operation), room.base \in Nat,
           NEW op, NEW new, NEW x, Grown(room, op, new, x)
    PROVE  Revision(new) = Revision(room) + 1 /\ Revision(room) \in Nat
  <1> DEFINE b == room.base
             n == Len(room.history)
  <1>1. b \in Nat /\ n \in Nat /\ x \in 0..1
    BY LenProperties DEF Grown
  <1>2. /\ Revision(room) = b + n
        /\ Revision(new) = (b + x) + (n + 1 - x)
    BY DEF Revision, Grown
  <1> HIDE DEF b, n
  <1> QED
    BY <1>1, <1>2

\* Another operation lands before it.
LEMMA PendingGrown ==
    ASSUME NEW room, room.history \in Seq(Operation), room.base \in Nat,
           NEW op, NEW new, NEW x, Grown(room, op, new, x),
           NEW m, NEW mine, Pending(room, m, mine),
           NEW next, next = CarriedStep(mine, op), next \in Operation,
           Typed(next) = Typed(mine)
    PROVE  Pending(new, m, next)
  <1>1. Revision(new) = Revision(room) + 1 /\ Revision(room) \in Nat
    BY GrownRevision
  <1>2. m.revision \in 0..Revision(room)
    BY DEF Pending
  <1>3. m.revision \in 0..Revision(new)
    BY <1>1, <1>2
  <1>4. ASSUME InWindow(new, m.revision)
        PROVE  CarriedOver(m.operation, Since(new, m.revision)) = next
    <2>1. /\ InWindow(room, m.revision)
          /\ Since(new, m.revision) = Append(Since(room, m.revision), op)
      BY <1>2, <1>4, SinceGrown
    <2> DEFINE s == Since(room, m.revision)
    <2>2. CarriedOver(m.operation, s) = mine
      BY <2>1 DEF Pending
    <2>3. s \in Seq(Operation)
      BY <2>1, SinceIs
    <2>4. Queue(s)
      BY <2>3, OwnSeq DEF Queue
    <2> HIDE DEF s
    <2>5. CarriedOver(m.operation, Append(s, op)) = next
      BY <2>2, <2>4, CarriedAppend
    <2> QED
      BY <2>1, <2>5 DEF s
  <1> QED
    BY <1>3, <1>4 DEF Pending

\* An operation is added to the history.
LEMMA RememberGrown ==
    ASSUME NEW room, WellKept(room), room.history \in Seq(Operation),
           NEW op \in Operation, NEW new, new = Remember(room, op)
    PROVE  \E x \in 0..1 :
               /\ new.base = room.base + x
               /\ new.history \in Seq(Operation)
               /\ Len(new.history) \in Nat \ {0}
               /\ Len(new.history) = Len(room.history) + 1 - x
               /\ \A k \in 1..Len(new.history) :
                      new.history[k] = Append(room.history, op)[k + x]
  <1> DEFINE h == room.history
             longer == Append(h, op)
             x == IF Len(longer) > HistoryLimit
                  THEN Len(longer) - HistoryLimit ELSE 0
             cut == SubSeq(longer, x + 1, Len(longer))
  <1>1. /\ longer \in Seq(Operation) /\ Len(longer) = Len(h) + 1
        /\ Len(h) \in Nat /\ Len(h) <= HistoryLimit
        /\ HistoryLimit \in Nat \ {0}
    BY AppendProperties, LenProperties, CollabAssumption DEF WellKept
  <1>2. new = [room EXCEPT !.history = cut, !.base = @ + x]
    BY DEF Remember
  <1> HIDE DEF h, longer
  <1>3. x \in 0..1 /\ x + 1 \in Int /\ Len(longer) \in Int
        /\ x + 1 <= Len(longer)
    BY <1>1
  <1> HIDE DEF x
  <1>4. \A i \in (x + 1)..Len(longer) : longer[i] \in Operation
    <2>1. \A i \in (x + 1)..Len(longer) : i \in 1..Len(longer)
      BY <1>1, <1>3
    <2> QED
      BY <1>1, <2>1, ElementOfSeq
  <1>5. /\ cut \in Seq(Operation)
        /\ Len(cut) = IF x + 1 <= Len(longer)
                      THEN Len(longer) - (x + 1) + 1 ELSE 0
        /\ \A i \in 1..(Len(longer) - (x + 1) + 1) :
               cut[i] = longer[(x + 1) + i - 1]
    BY <1>3, <1>4, SubSeqProperties
  <1> HIDE DEF cut
  <1>6. Len(cut) = Len(h) + 1 - x /\ Len(cut) \in Nat \ {0}
        /\ Len(longer) - (x + 1) + 1 = Len(cut)
    BY <1>1, <1>3, <1>5
  <1>7. \A i \in 1..Len(cut) : (x + 1) + i - 1 = i + x
    BY <1>3, <1>6
  <1>8. \A i \in 1..Len(cut) : cut[i] = longer[i + x]
    BY <1>5, <1>6, <1>7
  <1>9. new.history = cut /\ new.base = room.base + x
    BY <1>2 DEF WellKept, RoomFields
  <1> QED
    BY <1>3, <1>5, <1>6, <1>8, <1>9 DEF h, longer

\* A room that grew leads to its text.
LEMMA GrownConsecutive ==
    ASSUME NEW room, RoomSound(room), NEW op, baseLength(op) = Len(room.text),
           NEW new, NEW x, Grown(room, op, new, x)
    PROVE  /\ Consecutive(new.history)
           /\ new.history # <<>>
           /\ new.history[Len(new.history)] = op
  <1> DEFINE h == room.history
             g == new.history
             n == Len(h)
             longer == Append(h, op)
  <1>1. /\ x \in 0..1 /\ op \in Operation /\ g \in Seq(Operation)
        /\ Len(g) \in Nat \ {0} /\ Len(g) = n + 1 - x
        /\ \A k \in 1..Len(g) : g[k] = longer[k + x]
    BY DEF Grown
  <1>2. /\ h \in Seq(Operation)
        /\ \A k \in 1..(n - 1) : targetLength(h[k]) = baseLength(h[k + 1])
        /\ h # <<>> => targetLength(h[n]) = Len(room.text)
    BY DEF RoomSound, Consecutive
  <1>3. /\ n \in Nat
        /\ longer[n + 1] = op
        /\ \A i \in 1..n : longer[i] = h[i]
        /\ n # 0 => h # <<>>
    BY <1>1, <1>2, AppendProperties, LenProperties
  <1> HIDE DEF h, g, n, longer
  <1>4. ASSUME NEW k \in 1..(Len(g) - 1)
        PROVE  targetLength(g[k]) = baseLength(g[k + 1])
    <2>1. /\ k \in 1..Len(g) /\ k + 1 \in 1..Len(g)
          /\ k + x \in 1..n /\ (k + 1) + x = (k + x) + 1
      BY <1>1, <1>3
    <2>2. g[k] = h[k + x] /\ g[k + 1] = longer[(k + x) + 1]
      BY <1>1, <1>3, <2>1
    <2>3. CASE k + x = n
      <3>1. n # 0
        BY <2>1, <2>3
      <3> QED
        BY <1>2, <1>3, <2>2, <2>3, <3>1
    <2>4. CASE k + x \in 1..(n - 1)
      <3>1. (k + x) + 1 \in 1..n
        BY <1>3, <2>4
      <3> QED
        BY <1>2, <1>3, <2>2, <2>4, <3>1
    <2> QED
      BY <1>3, <2>1, <2>3, <2>4
  <1>5. g[Len(g)] = op
    <2>1. Len(g) \in 1..Len(g) /\ Len(g) + x = n + 1
      BY <1>1, <1>3
    <2> QED
      BY <1>1, <1>3, <2>1
  <1>6. g # <<>>
    BY <1>1
  <1> QED
    BY <1>4, <1>5, <1>6 DEF Consecutive, g

\* A clamped position is inside.
LEMMA Clamped ==
    ASSUME NEW position \in Nat, NEW length \in Nat
    PROVE  Clamp(position, length) \in 0..length
  BY DEF Clamp

\* What CollabRoom.receive makes of a sound room.
LEMMA ReceivedSound ==
    ASSUME NEW room, WellKept(room), RoomSound(room), NEW c \in Members(room),
           NEW m, NEW mine, Pending(room, m, mine), InWindow(room, m.revision),
           baseLength(mine) = Len(room.text),
           NEW new, new = Received(room, c, m)
    PROVE  /\ Rebased(room, m.revision, m.operation) = mine
           /\ RoomSound(new)
           /\ Last(new.history) = mine
           /\ \E x : Grown(room, mine, new, x)
  <1> DEFINE text == applyOperation(room.text, mine)
             carets == MoveCarets(room, c, mine)
             silent == m.caret = None
             caret == IF silent THEN carets
                      ELSE [carets EXCEPT ![c] = Clamp(m.caret, Len(text))]
             blind == IF silent THEN room.blind \cup {c} ELSE room.blind \ {c}
             kept == Remember(room, mine)
  <1>1. /\ mine \in Operation /\ m.caret \in Nat \cup {None}
        /\ CarriedOver(m.operation, Since(room, m.revision)) = mine
    BY DEF Pending
  <1>2. Rebased(room, m.revision, m.operation) = mine
    BY <1>1, OfAlphabet DEF Rebased
  <1>3. room.text \in Text /\ room.history \in Seq(Operation)
    BY DEF RoomSound
  <1>4. new = [kept EXCEPT !.text = text, !.caret = caret, !.blind = blind]
    <2>1. kept.blind = room.blind
      BY DEF Remember, WellKept, RoomFields
    <2> QED
      BY <1>2, <2>1 DEF Received
  <1>5. text \in Text /\ Len(text) = targetLength(mine)
    BY <1>1, <1>3, Applies
  <1>6. PICK x \in 0..1 :
               /\ kept.base = room.base + x
               /\ kept.history \in Seq(Operation)
               /\ Len(kept.history) \in Nat \ {0}
               /\ Len(kept.history) = Len(room.history) + 1 - x
               /\ \A k \in 1..Len(kept.history) :
                      kept.history[k] = Append(room.history, mine)[k + x]
    BY <1>1, <1>3, RememberGrown
  <1>7. DOMAIN kept = RoomFields
    BY RememberGrows
  <1>8. DOMAIN caret = Members(room)
    BY DEF MoveCarets
  <1>9. ASSUME NEW k \in Members(room) \ blind, caret[k] # None
        PROVE  caret[k] \in 0..Len(text)
    <2>1. Len(text) \in Nat
      BY <1>5, LenProperties DEF Text
    <2>2. CASE k = c
      <3>1. m.caret # None
        BY <1>9, <2>2
      <3>2. caret[k] = Clamp(m.caret, Len(text)) /\ m.caret \in Nat
        BY <1>1, <2>2, <3>1 DEF MoveCarets
      <3> QED
        BY <2>1, <3>2, Clamped
    <2>3. CASE k # c /\ room.caret[k] = None
      <3>1. caret[k] = None
        BY <2>3 DEF MoveCarets
      <3> QED
        BY <1>9, <3>1
    <2>4. CASE k # c /\ room.caret[k] # None
      <3> DEFINE p == room.caret[k]
                 to == transformPosition(p, mine)
      <3>1. caret[k] = to
        BY <2>4 DEF MoveCarets
      <3>2. p \in 0..Len(room.text)
        <4>1. k \in Members(room) \ room.blind
          BY <1>9, <2>4
        <4> QED
          BY <2>4, <4>1 DEF RoomSound
      <3>3. mine \in Seq(Alphabet \cup {Keep, Cut}) /\ Len(room.text) \in Nat
        BY <1>1, <1>3, LenProperties DEF Operation, Text
      <3>4. p \in Nat /\ p <= baseLength(mine)
        BY <3>2, <3>3
      <3> HIDE DEF p
      <3>5. to \in Nat /\ to <= targetLength(mine)
        BY <3>3, <3>4, PositionInside
      <3> HIDE DEF to
      <3> QED
        BY <1>5, <2>1, <3>1, <3>5
    <2> QED
      BY <2>2, <2>3, <2>4
  <1> HIDE DEF text, caret, kept, blind
  <1>10. /\ new.text = text /\ new.caret = caret /\ new.blind = blind
         /\ new.history = kept.history /\ new.base = kept.base
    BY <1>4, <1>7 DEF RoomFields
  <1>11. Grown(room, mine, new, x)
    BY <1>1, <1>6, <1>10 DEF Grown, text
  <1>12. /\ Consecutive(new.history)
         /\ new.history # <<>>
         /\ new.history[Len(new.history)] = mine
    BY <1>11, GrownConsecutive
  <1>13. RoomSound(new)
    <2>1. new.history \in Seq(Operation)
      BY <1>6, <1>10
    <2>2. Members(new) = Members(room)
      BY <1>8, <1>10 DEF Members
    <2>3. \A k \in Members(new) \ new.blind :
              new.caret[k] # None => new.caret[k] \in 0..Len(new.text)
      BY <1>9, <1>10, <2>2
    <2> QED
      BY <1>5, <1>10, <1>12, <2>1, <2>3 DEF RoomSound
  <1>14. Last(new.history) = mine
    BY <1>12 DEF Last
  <1> QED
    BY <1>2, <1>11, <1>13, <1>14

\* What CollabRoom.setSelection does.
LEMMA PlacedSound ==
    ASSUME NEW room, WellKept(room), RoomSound(room), NEW c,
           NEW m, m.caret \in Nat, InWindow(room, m.revision),
           NEW new, new = Placed(room, c, m)
    PROVE  /\ RoomSound(new)
           /\ DOMAIN new = RoomFields
           /\ new.text = room.text /\ new.history = room.history
           /\ new.base = room.base /\ new.saved = room.saved
           /\ Members(new) = Members(room)
  <1> DEFINE missed == Since(room, m.revision)
             catchUp == IF missed = <<>> THEN identityOperation(Len(room.text))
                        ELSE Composed(missed)
             to == transformPosition(m.caret, catchUp)
             at == Clamp(to, Len(room.text))
             h == room.history
  <1>1. /\ room.text \in Text /\ h \in Seq(Operation)
        /\ Consecutive(h) /\ room.base \in Nat
    BY DEF RoomSound, WellKept
  <1>2. Len(room.text) \in Nat
    BY <1>1, LenProperties DEF Text
  <1>3. catchUp \in Operation
    <2>1. CASE missed = <<>>
      <3> DEFINE id == identityOperation(Len(room.text))
      <3>1. id \in [1..Len(room.text) -> Alphabet \cup {Keep, Cut}]
        BY DEF identityOperation
      <3>2. id \in Operation
        BY <1>2, <3>1, SeqDef DEF Operation
      <3> QED
        BY <2>1, <3>2
    <2>2. CASE missed # <<>>
      <3> DEFINE n == Len(missed)
                 from == m.revision - room.base
      <3>1. /\ missed \in Seq(Operation) /\ m.revision \in Nat
            /\ n = Revision(room) - m.revision
            /\ \A i \in 1..n : missed[i] = h[m.revision - room.base + i]
        BY <1>1, SinceIs
      <3>2. /\ Len(h) \in Nat /\ Revision(room) = room.base + Len(h)
            /\ m.revision \in room.base..(room.base + Len(h))
        BY <1>1, LenProperties DEF Revision, InWindow
      <3>3. from \in 0..Len(h) /\ n = Len(h) - from /\ n \in Nat
        <4> DEFINE b == room.base
                   k == m.revision
        <4>1. b \in Nat /\ k \in b..(b + Len(h)) /\ n = (b + Len(h)) - k
              /\ from = k - b
          BY <1>1, <3>1, <3>2
        <4> HIDE DEF b, k, h, n, from
        <4> QED
          BY <3>2, <4>1
      <3> HIDE DEF from, missed
      <3>4. \A i \in 1..n : missed[i] = h[from + i]
        BY <3>1 DEF from
      <3>5. ASSUME NEW k \in 1..(n - 1)
            PROVE  targetLength(missed[k]) = baseLength(missed[k + 1])
        <4>1. /\ k \in 1..n /\ k + 1 \in 1..n
              /\ from + k \in 1..(Len(h) - 1) /\ from + (k + 1) = (from + k) + 1
          BY <3>2, <3>3
        <4>2. missed[k] = h[from + k] /\ missed[k + 1] = h[(from + k) + 1]
          BY <3>4, <4>1
        <4> QED
          BY <1>1, <4>1, <4>2 DEF Consecutive
      <3>6. Consecutive(missed)
        BY <3>5 DEF Consecutive
      <3>7. Composed(missed) \in Operation
        BY <2>2, <3>1, <3>6, ComposedIsOperation
      <3> QED
        BY <2>2, <3>7 DEF missed
    <2> QED
      BY <2>1, <2>2
  <1> HIDE DEF catchUp
  <1>4. to \in Nat
    <2>1. catchUp \in Seq(Alphabet \cup {Keep, Cut})
      BY <1>3 DEF Operation
    <2> QED
      BY <2>1, PositionInside
  <1> HIDE DEF to
  <1>5. at \in 0..Len(room.text)
    BY <1>2, <1>4, Clamped
  <1>6. new = [room EXCEPT !.caret = [@ EXCEPT ![c] = at], !.blind = @ \ {c}]
    BY DEF Placed, at, to, catchUp
  <1> HIDE DEF at
  <1>7. /\ DOMAIN new = RoomFields
        /\ new.text = room.text /\ new.history = room.history
        /\ new.base = room.base /\ new.saved = room.saved
        /\ new.caret = [room.caret EXCEPT ![c] = at]
        /\ new.blind = room.blind \ {c}
    BY <1>6 DEF WellKept, RoomFields
  <1>8. Members(new) = Members(room)
    BY <1>7 DEF Members
  <1>9. ASSUME NEW k \in Members(new) \ new.blind, new.caret[k] # None
        PROVE  new.caret[k] \in 0..Len(new.text)
    <2>1. k \in DOMAIN room.caret
      BY <1>8 DEF Members
    <2>2. CASE k = c
      BY <1>5, <1>7, <2>1, <2>2
    <2>3. CASE k # c
      <3>1. new.caret[k] = room.caret[k]
        BY <1>7, <2>1, <2>3
      <3>2. k \in Members(room) \ room.blind
        BY <1>7, <1>8, <1>9, <2>3
      <3> QED
        BY <1>7, <1>9, <3>1, <3>2 DEF RoomSound
    <2> QED
      BY <2>2, <2>3
  <1>10. RoomSound(new)
    BY <1>7, <1>9 DEF RoomSound
  <1> QED
    BY <1>7, <1>8, <1>10

----------------------------------------------------------------------------
(* A tab, its queues and its room.                                         *)

\* What a tab shows: the text it agrees on, with its operations applied.
Shows(t, v) ==
    /\ t.buffer # None => /\ t.outstanding # None
                          /\ t.buffer \in Operation
                          /\ baseLength(t.buffer) = targetLength(t.outstanding)
    /\ t.text = IF t.outstanding = None THEN v.text
                ELSE IF t.buffer = None
                THEN applyOperation(v.text, t.outstanding)
                ELSE applyOperation(applyOperation(v.text, t.outstanding), t.buffer)

\* The view v of the tab, and the view w that the room is at, where the
\* messages under way lead.
Agreed(t, room, u, d, v, w) ==
    /\ v \in Views /\ w \in Views
    /\ Reaches(d, v, w)
    /\ v.mine = t.outstanding /\ v.revision = t.revision
    /\ t.live => Shows(t, v)
    /\ w.text = room.text /\ w.revision = Revision(room)
    /\ \A i \in DOMAIN u : u[i].type = "op" => Pending(room, u[i], w.mine)

Asks(m) == m.type \in {"op", "resync"}

\* One thing is asked or answered at a time, and only by a tab that waits
\* for an acknowledgement; a tab that has not begun has its welcome to take.
InFlight(t, u, d) ==
    /\ Quiet(u) \/ OpsOnly(d)
    /\ \A i, j \in DOMAIN u : Asks(u[i]) /\ Asks(u[j]) => i = j
    /\ \A i, j \in DOMAIN d : d[i].type # "op" /\ d[j].type # "op" => i = j
    /\ t.live /\ t.outstanding = None => Quiet(u) /\ OpsOnly(d)
    /\ ~t.live => /\ d # <<>> /\ Head(d).type = "welcome" /\ u = <<>>
                  /\ t.outstanding = None
    /\ t.buffer # None => t.outstanding # None

Connected(t, room, u, d) ==
    /\ Queue(u) /\ Queue(d)
    /\ InFlight(t, u, d)
    /\ Aligned(d, room.history)
    /\ \E v, w : Agreed(t, room, u, d, v, w)
    /\ \A i \in DOMAIN u : u[i].type = "selection" => u[i].caret \in Nat

\* Nothing of it depends on the room's carets, nor on what is saved.
LEMMA SameDocument ==
    ASSUME NEW t, NEW room, NEW u, NEW d, Connected(t, room, u, d),
           NEW new, new.text = room.text, new.history = room.history,
           new.base = room.base
    PROVE  Connected(t, new, u, d)
  <1>1. Revision(new) = Revision(room)
    BY DEF Revision
  <1>2. \A m, mine : Pending(room, m, mine) => Pending(new, m, mine)
    BY <1>1 DEF Pending, InWindow, Since
  <1>3. \A v, w : Agreed(t, room, u, d, v, w) => Agreed(t, new, u, d, v, w)
    BY <1>1, <1>2 DEF Agreed
  <1> QED
    BY <1>3 DEF Connected

\* The queue of a socket without its first message, and with one more.
LEMMA UpTail ==
    ASSUME NEW u, Queue(u), u # <<>>
    PROVE  /\ Queue(Tail(u)) /\ 1 \in DOMAIN u /\ Head(u) = u[1]
           /\ \A i \in DOMAIN Tail(u) : /\ i + 1 \in DOMAIN u
                                        /\ Tail(u)[i] = u[i + 1] /\ i \in Nat
  <1>1. /\ Len(u) \in Nat \ {0} /\ DOMAIN u = 1..Len(u)
        /\ \A i \in 1..(Len(u) - 1) : Tail(u)[i] = u[i + 1]
        /\ DOMAIN Tail(u) = 1..(Len(u) - 1) /\ Head(u) = u[1]
        /\ Queue(Tail(u))
    BY OwnTail DEF Queue
  <1> QED
    BY <1>1

\* The messages of a queue with one more.
LEMMA UpAppend ==
    ASSUME NEW u, Queue(u), NEW m
    PROVE  /\ Queue(Append(u, m))
           /\ \A i \in DOMAIN u : /\ i \in DOMAIN Append(u, m)
                                  /\ Append(u, m)[i] = u[i]
           /\ \A i \in DOMAIN Append(u, m) :
                  \/ i \in DOMAIN u /\ Append(u, m)[i] = u[i]
                  \/ i = Len(u) + 1 /\ Append(u, m)[i] = m
           /\ Append(u, m) # <<>>
           /\ u # <<>> => Head(Append(u, m)) = Head(u)
           /\ u = <<>> => Head(Append(u, m)) = m
  <1>1. /\ Len(u) \in Nat /\ DOMAIN u = 1..Len(u)
        /\ DOMAIN Append(u, m) = 1..(Len(u) + 1)
        /\ Append(u, m)[Len(u) + 1] = m
        /\ \A i \in 1..Len(u) : Append(u, m)[i] = u[i]
        /\ Queue(Append(u, m))
    BY OwnAppend DEF Queue
  <1> DEFINE r == Append(u, m)
  <1> HIDE DEF r
  <1>2. \A i \in DOMAIN u : i \in DOMAIN r /\ r[i] = u[i]
    BY <1>1 DEF r
  <1>3. \A i \in DOMAIN r : \/ i \in DOMAIN u /\ r[i] = u[i]
                            \/ i = Len(u) + 1 /\ r[i] = m
    BY <1>1 DEF r
  <1>4. Len(u) + 1 \in DOMAIN r
    BY <1>1 DEF r
  <1>5. r # <<>> /\ Queue(r)
    BY <1>1, <1>4 DEF r
  <1>6. Head(r) = r[1]
    BY <1>5, OwnTail DEF Queue
  <1>7. u # <<>> => Head(r) = Head(u)
    <2> SUFFICES ASSUME u # <<>> PROVE Head(r) = Head(u)
      OBVIOUS
    <2>1. Head(u) = u[1] /\ 1 \in DOMAIN u
      BY UpTail
    <2> QED
      BY <1>2, <1>6, <2>1
  <1>8. u = <<>> => Head(r) = m
    BY <1>1, <1>6 DEF r
  <1> QED
    BY <1>2, <1>3, <1>5, <1>7, <1>8 DEF r

----------------------------------------------------------------------------
(* The hub takes a message.                                                *)

\* A caret or a save leaves what is in flight as it is.
LEMMA QuietTaken ==
    ASSUME NEW t, NEW room, NEW u, NEW d, Connected(t, room, u, d),
           u # <<>>, Head(u).type \in {"selection", "save"}
    PROVE  /\ Connected(t, room, Tail(u), d)
           /\ Head(u).type = "selection" => Head(u).caret \in Nat
  <1> DEFINE r == Tail(u)
  <1>1. /\ Queue(r) /\ 1 \in DOMAIN u /\ Head(u) = u[1]
        /\ \A i \in DOMAIN r : /\ i + 1 \in DOMAIN u
                               /\ r[i] = u[i + 1] /\ i \in Nat
    BY UpTail DEF Connected
  <1> HIDE DEF r
  <1>2. InFlight(t, r, d)
    <2>1. Quiet(u) => Quiet(r)
      BY <1>1 DEF Quiet
    <2>2. t.live
      BY DEF Connected, InFlight
    <2>3. \A i, j \in DOMAIN r : Asks(r[i]) /\ Asks(r[j]) => i = j
      BY <1>1 DEF Connected, InFlight
    <2> QED
      BY <2>1, <2>2, <2>3 DEF Connected, InFlight
  <1>3. PICK v, w : Agreed(t, room, u, d, v, w)
    BY DEF Connected
  <1>4. Agreed(t, room, r, d, v, w)
    BY <1>1, <1>3 DEF Agreed
  <1>5. \A i \in DOMAIN r : r[i].type = "selection" => r[i].caret \in Nat
    BY <1>1 DEF Connected
  <1>6. Connected(t, room, r, d)
    BY <1>1, <1>2, <1>4, <1>5 DEF Connected
  <1> QED
    BY <1>1, <1>6 DEF Connected, r

\* What is in flight once a question is answered.
LEMMA AnswerInFlight ==
    ASSUME NEW t, NEW room, NEW u, NEW d, Connected(t, room, u, d),
           u # <<>>, Asks(Head(u)), NEW m, m.type # "op"
    PROVE  /\ InFlight(t, Tail(u), Append(d, m)) /\ Quiet(Tail(u))
           /\ t.live /\ t.outstanding # None /\ OpsOnly(d)
           /\ Queue(Tail(u)) /\ Queue(Append(d, m))
           /\ \A i \in DOMAIN Tail(u) :
                  Tail(u)[i].type = "selection" => Tail(u)[i].caret \in Nat
  <1> DEFINE r == Tail(u)
             e == Append(d, m)
  <1>1. /\ Queue(r) /\ 1 \in DOMAIN u /\ Head(u) = u[1]
        /\ \A i \in DOMAIN r : /\ i + 1 \in DOMAIN u
                               /\ r[i] = u[i + 1] /\ i \in Nat
    BY UpTail DEF Connected
  <1>2. /\ Queue(e)
        /\ \A i \in DOMAIN e : \/ i \in DOMAIN d /\ e[i] = d[i]
                               \/ i = Len(d) + 1 /\ e[i] = m
    BY UpAppend DEF Connected
  <1> HIDE DEF r, e
  <1>3. InFlight(t, u, d)
    BY DEF Connected
  <1>4. ~Quiet(u)
    BY <1>1 DEF Quiet, Asks
  <1>5. t.live /\ t.outstanding # None /\ OpsOnly(d)
    BY <1>3, <1>4 DEF InFlight
  <1>6. Quiet(r)
    <2> SUFFICES ASSUME NEW i \in DOMAIN r, Asks(r[i]) PROVE FALSE
      BY DEF Quiet, Asks
    <2>1. i + 1 \in DOMAIN u /\ Asks(u[i + 1]) /\ i + 1 # 1 /\ i \in Nat
      <3>1. i + 1 \in DOMAIN u /\ r[i] = u[i + 1] /\ i \in Nat
        BY <1>1
      <3>2. i # 0
        BY <1>1, OwnSeq, LenProperties DEF Queue
      <3> QED
        BY <3>1, <3>2
    <2> QED
      BY <1>1, <1>3, <2>1 DEF InFlight
  <1>7. \A i, j \in DOMAIN r : Asks(r[i]) /\ Asks(r[j]) => i = j
    BY <1>6 DEF Quiet, Asks
  <1>8. \A i, j \in DOMAIN e : e[i].type # "op" /\ e[j].type # "op" => i = j
    BY <1>2, <1>5 DEF OpsOnly
  <1>9. InFlight(t, r, e)
    BY <1>3, <1>5, <1>6, <1>7, <1>8 DEF InFlight
  <1>10. \A i \in DOMAIN r : r[i].type = "selection" => r[i].caret \in Nat
    BY <1>1 DEF Connected
  <1> QED
    BY <1>1, <1>2, <1>5, <1>6, <1>9, <1>10 DEF r, e

\* A refusal and a snapshot.
LEMMA AnswerConnected ==
    ASSUME NEW t, NEW room, NEW u, NEW d, Connected(t, room, u, d),
           room.text \in Text, Revision(room) \in Nat,
           u # <<>>, Asks(Head(u)), NEW m, m.type = "error" \/ m = Welcome(room)
    PROVE  Connected(t, room, Tail(u), Append(d, m))
  <1>1. m.type # "op"
    BY DEF Welcome
  <1>2. /\ InFlight(t, Tail(u), Append(d, m)) /\ Quiet(Tail(u))
        /\ Queue(Tail(u)) /\ Queue(Append(d, m)) /\ Queue(d)
        /\ \A i \in DOMAIN Tail(u) :
               Tail(u)[i].type = "selection" => Tail(u)[i].caret \in Nat
    <2>1. Queue(d)
      BY DEF Connected
    <2> QED
      BY <1>1, <2>1, AnswerInFlight
  <1>3. Aligned(Append(d, m), room.history)
    BY <1>1, <1>2, AlignedAnswer
  <1>4. PICK v, w : Agreed(t, room, u, d, v, w)
    BY DEF Connected
  <1>5. \E x \in Views : Link(w, m, x) /\ x.text = room.text
                         /\ x.revision = Revision(room)
    <2>1. CASE m.type = "error"
      BY <1>4, <2>1 DEF Link, Agreed
    <2>2. CASE m = Welcome(room)
      <3> DEFINE x == [text |-> room.text, mine |-> None,
                       revision |-> Revision(room)]
      <3>1. x \in Views
        BY ViewMade
      <3>2. Link(w, m, x)
        BY <2>2 DEF Link, Welcome
      <3> QED
        BY <3>1, <3>2
    <2> QED
      BY <2>1, <2>2
  <1>6. PICK x \in Views : Link(w, m, x) /\ x.text = room.text
                           /\ x.revision = Revision(room)
    BY <1>5
  <1>7. Reaches(Append(d, m), v, x)
    BY <1>2, <1>4, <1>6, WayAppend DEF Agreed
  <1>8. Agreed(t, room, Tail(u), Append(d, m), v, x)
    BY <1>2, <1>4, <1>6, <1>7 DEF Agreed, Quiet
  <1> QED
    BY <1>2, <1>3, <1>8 DEF Connected

\* The operation at the head of a queue waits for the hub.
LEMMA HeadPending ==
    ASSUME NEW t, NEW room, NEW u, NEW d, Connected(t, room, u, d),
           u # <<>>, Head(u).type = "op"
    PROVE  \E mine : Pending(room, Head(u), mine) /\ baseLength(mine) = Len(room.text)
  <1>1. PICK v, w : Agreed(t, room, u, d, v, w)
    BY DEF Connected
  <1>2. 1 \in DOMAIN u /\ Head(u) = u[1]
    BY UpTail DEF Connected
  <1>3. Pending(room, Head(u), w.mine)
    BY <1>1, <1>2 DEF Agreed
  <1>4. w.mine # None /\ w \in Views /\ w.text = room.text
    BY <1>1, <1>3, OfAlphabet DEF Pending, Agreed
  <1>5. baseLength(w.mine) = Len(room.text)
    BY <1>4, ViewFields
  <1> QED
    BY <1>3, <1>5

\* The operation of the tab itself is applied and acknowledged.
LEMMA AckedConnected ==
    ASSUME NEW t, NEW room, NEW u, NEW d, Connected(t, room, u, d),
           room.text \in Text, room.history \in Seq(Operation), room.base \in Nat,
           u # <<>>, Head(u).type = "op", InWindow(room, Head(u).revision),
           NEW mine, Rebased(room, Head(u).revision, Head(u).operation) = mine,
           NEW new, NEW x, Grown(room, mine, new, x),
           NEW m, m.type = "ack"
    PROVE  Connected(t, new, Tail(u), Append(d, m))
  <1>1. m.type # "op" /\ Asks(Head(u))
    BY DEF Asks
  <1>2. /\ InFlight(t, Tail(u), Append(d, m)) /\ Quiet(Tail(u))
        /\ Queue(Tail(u)) /\ Queue(Append(d, m)) /\ Queue(d)
        /\ \A i \in DOMAIN Tail(u) :
               Tail(u)[i].type = "selection" => Tail(u)[i].caret \in Nat
    <2>1. Queue(d)
      BY DEF Connected
    <2> QED
      BY <1>1, <2>1, AnswerInFlight
  <1>3. Aligned(Append(d, m), new.history)
    BY <1>1, <1>2, AlignedAnswer
  <1>4. PICK v, w : Agreed(t, room, u, d, v, w)
    BY DEF Connected
  <1>5. 1 \in DOMAIN u /\ Head(u) = u[1]
    BY UpTail DEF Connected
  <1>6. Pending(room, Head(u), w.mine)
    BY <1>4, <1>5 DEF Agreed
  <1>7. w \in Views /\ w.text = room.text /\ w.revision = Revision(room)
    BY <1>4 DEF Agreed
  <1>8. w.mine # None /\ w.mine \in Operation
    BY <1>6, OfAlphabet DEF Pending
  <1>9. baseLength(w.mine) = Len(room.text)
    BY <1>7, <1>8, ViewFields
  <1>10. mine = w.mine
    <2>1. CarriedOver(Head(u).operation, Since(room, Head(u).revision)) = w.mine
      BY <1>6 DEF Pending
    <2> QED
      BY <1>8, <1>9, <2>1 DEF Rebased
  <1> DEFINE y == [text |-> new.text, mine |-> None, revision |-> Revision(new)]
  <1>11. new.text = applyOperation(room.text, mine)
    BY DEF Grown
  <1>12. Revision(new) = Revision(room) + 1 /\ Revision(room) \in Nat
    BY GrownRevision
  <1>13. new.text \in Text
    BY <1>8, <1>9, <1>10, <1>11, Applies
  <1>14. y \in Views
    <2>1. Revision(new) \in Nat
      BY <1>12
    <2> QED
      BY <1>13, <2>1, ViewMade
  <1>15. Link(w, m, y)
    BY <1>7, <1>8, <1>10, <1>11, <1>12 DEF Link
  <1>16. y.text = new.text /\ y.revision = Revision(new)
    OBVIOUS
  <1> HIDE DEF y
  <1>17. Reaches(Append(d, m), v, y)
    BY <1>2, <1>4, <1>14, <1>15, WayAppend DEF Agreed
  <1>18. Agreed(t, new, Tail(u), Append(d, m), v, y)
    BY <1>2, <1>4, <1>14, <1>16, <1>17 DEF Agreed, Quiet
  <1> QED
    BY <1>2, <1>3, <1>18 DEF Connected

\* An operation of another tab is applied and broadcast.
LEMMA BroadcastConnected ==
    ASSUME NEW t, NEW room, NEW u, NEW d, Connected(t, room, u, d),
           room.history \in Seq(Operation), room.base \in Nat,
           NEW op, baseLength(op) = Len(room.text),
           NEW new, NEW x, Grown(room, op, new, x),
           NEW m, m.type = "op", m.operation = op
    PROVE  Connected(t, new, u, Append(d, m))
  <1> DEFINE e == Append(d, m)
  <1>1. Queue(d) /\ Queue(u) /\ InFlight(t, u, d) /\ Aligned(d, room.history)
    BY DEF Connected
  <1>2. /\ Queue(e)
        /\ \A i \in DOMAIN e : \/ i \in DOMAIN d /\ e[i] = d[i]
                               \/ i = Len(d) + 1 /\ e[i] = m
        /\ e # <<>> /\ (d # <<>> => Head(e) = Head(d))
    BY <1>1, UpAppend
  <1>3. Aligned(e, new.history)
    BY <1>1, AlignedGrown
  <1> HIDE DEF e
  <1>4. InFlight(t, u, e)
    <2>1. OpsOnly(d) => OpsOnly(e)
      BY <1>2 DEF OpsOnly
    <2>2. \A i, j \in DOMAIN e : e[i].type # "op" /\ e[j].type # "op" => i = j
      BY <1>1, <1>2 DEF InFlight
    <2> QED
      BY <1>1, <1>2, <2>1, <2>2 DEF InFlight
  <1>5. PICK v, w : Agreed(t, room, u, d, v, w)
    BY DEF Connected
  <1>6. w \in Views /\ w.text = room.text /\ w.revision = Revision(room)
    BY <1>5 DEF Agreed
  <1>7. op \in Operation /\ new.text = applyOperation(room.text, op)
    BY DEF Grown
  <1>8. PICK y \in Views :
               /\ Link(w, m, y)
               /\ y.text = applyOperation(w.text, m.operation)
               /\ y.revision = w.revision + 1
               /\ w.mine # None => /\ y.mine = CarriedStep(w.mine, m.operation)
                                   /\ y.mine \in Operation
                                   /\ Typed(y.mine) = Typed(w.mine)
    BY <1>6, <1>7, LinkOp
  <1>9. Revision(new) = Revision(room) + 1
    BY GrownRevision
  <1>10. Reaches(e, v, y)
    BY <1>1, <1>5, <1>8, WayAppend DEF Agreed, e
  <1>11. ASSUME NEW i \in DOMAIN u, u[i].type = "op"
         PROVE  Pending(new, u[i], y.mine)
    <2>1. Pending(room, u[i], w.mine)
      BY <1>5, <1>11 DEF Agreed
    <2>2. w.mine # None
      BY <2>1, OfAlphabet DEF Pending
    <2> QED
      BY <1>8, <2>1, <2>2, PendingGrown
  <1>12. Agreed(t, new, u, e, v, y)
    BY <1>5, <1>6, <1>7, <1>8, <1>9, <1>10, <1>11 DEF Agreed
  <1> QED
    BY <1>1, <1>2, <1>3, <1>4, <1>12 DEF Connected, e

----------------------------------------------------------------------------
(* A person in a tab, and the browser.                                     *)

\* What a tab shows is a text.
LEMMA ShownText ==
    ASSUME NEW t, NEW v \in Views, v.mine = t.outstanding, Shows(t, v)
    PROVE  /\ t.text \in Text /\ Len(t.text) \in Nat
           /\ t.outstanding = None => t.text = v.text
           /\ t.outstanding # None /\ t.buffer = None
                => Len(t.text) = targetLength(t.outstanding)
           /\ t.buffer # None => Len(t.text) = targetLength(t.buffer)
  <1> DEFINE a == t.outstanding
             b == t.buffer
             mid == applyOperation(v.text, a)
             end == applyOperation(mid, b)
  <1>1. /\ v.text \in Text
        /\ a # None => a \in Operation /\ baseLength(a) = Len(v.text)
    BY ViewFields
  <1>2. a # None => mid \in Text /\ Len(mid) = targetLength(a)
    BY <1>1, Applies
  <1>3. /\ b # None => a # None /\ b \in Operation /\ baseLength(b) = targetLength(a)
        /\ t.text = IF a = None THEN v.text ELSE IF b = None THEN mid ELSE end
    BY DEF Shows
  <1> HIDE DEF a, b, mid
  <1>4. b # None => end \in Text /\ Len(end) = targetLength(b)
    BY <1>2, <1>3, Applies
  <1> HIDE DEF end
  <1>5. /\ t.text \in Text
        /\ a = None => t.text = v.text
        /\ a # None /\ b = None => Len(t.text) = targetLength(a)
        /\ b # None => Len(t.text) = targetLength(b)
    BY <1>1, <1>2, <1>3, <1>4
  <1>6. Len(t.text) \in Nat
    BY <1>5, LenProperties DEF Text
  <1> QED
    BY <1>5, <1>6 DEF a, b

\* An edit is an operation on the text it is made to.
LEMMA EditFits ==
    ASSUME NEW c \in Clients, NEW n \in Nat, NEW e \in Edits(c, n)
    PROVE  /\ e.operation \in Operation /\ baseLength(e.operation) = n
           /\ e.caret \in Nat
  <1> DEFINE U == Alphabet \cup {Keep, Cut}
  <1>1. c \in U /\ Keep \in U /\ Cut \in U
    BY DEF Alphabet
  <1>2. IsLetter(c) /\ ~IsLetter(Keep) /\ ~IsLetter(Cut)
    BY CollabAssumption DEF Alphabet, IsLetter
  <1> HIDE DEF U
  <1>3. CASE \E i \in 1..(n + 1) :
                 e = [operation |-> [j \in 1..(n + 1) |->
                                        IF j = i THEN c ELSE Keep],
                      caret |-> i]
    <2>1. PICK i \in 1..(n + 1) :
                 e = [operation |-> [j \in 1..(n + 1) |->
                                        IF j = i THEN c ELSE Keep],
                      caret |-> i]
      BY <1>3
    <2> DEFINE op == [j \in 1..(n + 1) |-> IF j = i THEN c ELSE Keep]
    <2>2. e.operation = op /\ e.caret = i
      BY <2>1
    <2>3. op \in [1..(n + 1) -> U]
      BY <1>1
    <2>4. op \in Seq(U)
      BY <2>3, SeqDef
    <2>5. {j \in DOMAIN op : ~IsLetter(op[j])} = (1..(n + 1)) \ {i}
      BY <1>2
    <2>6. IsFiniteSet(1..(n + 1)) /\ Cardinality(1..(n + 1)) = n + 1
      BY FS_Interval
    <2>7. Cardinality((1..(n + 1)) \ {i}) = n
      <3>1. Cardinality((1..(n + 1)) \ {i}) = Cardinality(1..(n + 1)) - 1
        BY <2>6, FS_RemoveElement
      <3> QED
        BY <2>6, <3>1
    <2>8. baseLength(op) = n
      BY <2>5, <2>7 DEF baseLength
    <2> QED
      BY <2>2, <2>4, <2>8 DEF Operation, U
  <1>4. CASE \E i \in 1..n :
                 e = [operation |-> [j \in 1..n |-> IF j = i THEN Cut ELSE Keep],
                      caret |-> i - 1]
    <2>1. PICK i \in 1..n :
                 e = [operation |-> [j \in 1..n |-> IF j = i THEN Cut ELSE Keep],
                      caret |-> i - 1]
      BY <1>4
    <2> DEFINE op == [j \in 1..n |-> IF j = i THEN Cut ELSE Keep]
    <2>2. e.operation = op /\ e.caret = i - 1
      BY <2>1
    <2>3. op \in [1..n -> U]
      BY <1>1
    <2>4. op \in Seq(U)
      BY <2>3, SeqDef
    <2>5. {j \in DOMAIN op : ~IsLetter(op[j])} = 1..n
      BY <1>2
    <2>6. Cardinality(1..n) = n
      BY FS_Interval
    <2>7. baseLength(op) = n
      BY <2>5, <2>6 DEF baseLength
    <2> QED
      BY <2>2, <2>4, <2>7 DEF Operation, U
  <1> QED
    BY <1>3, <1>4 DEF Edits

\* An operation is sent while only broadcasts are under way: the hub will
\* carry it over just those.
LEMMA TakenUp ==
    ASSUME NEW room, room.history \in Seq(Operation), room.base \in Nat,
           NEW d, Queue(d), OpsOnly(d), Aligned(d, room.history),
           NEW v, NEW w, Reaches(d, v, w), v.mine = None,
           w.text = room.text, w.revision = Revision(room),
           NEW op \in Operation, baseLength(op) = Len(v.text),
           NEW m, m.operation = op, m.caret \in Nat \cup {None},
           m.revision = v.revision
    PROVE  \E y, z : /\ y \in Views /\ z \in Views
                     /\ Reaches(d, y, z)
                     /\ y.text = v.text /\ y.mine = op /\ y.revision = v.revision
                     /\ z.text = room.text /\ z.revision = Revision(room)
                     /\ Pending(room, m, z.mine)
  <1> DEFINE mine == CarriedOver(op, Operations(d))
             y == [v EXCEPT !.mine = op]
             z == [w EXCEPT !.mine = mine]
  <1>1. TakingUp(d, op) /\ Carrying(d)
    BY WaysTakeUp, WaysCarry
  <1>2. /\ mine \in Operation /\ Typed(mine) = Typed(op)
        /\ z \in Views /\ Reaches(d, y, z)
    BY <1>1 DEF TakingUp
  <1>3. /\ w.revision = v.revision + Len(d)
        /\ v \in Views /\ w \in Views
    BY <1>1 DEF Carrying
  <1> HIDE DEF mine
  <1>4. /\ y.text = v.text /\ y.mine = op /\ y.revision = v.revision
        /\ y = [text |-> v.text, mine |-> op, revision |-> v.revision]
    BY <1>3, ViewFields
  <1>5. z.text = w.text /\ z.mine = mine /\ z.revision = w.revision
    BY <1>3, ViewFields
  <1>6. v.text \in Text /\ v.revision \in Nat /\ Len(d) \in Nat
    BY <1>3, ViewFields, LenProperties DEF Queue
  <1>7. y \in Views
    BY <1>4, <1>6, ViewMade
  <1> HIDE DEF y, z
  <1>8. Pending(room, m, mine)
    <2>1. v.revision \in 0..Revision(room) /\ Revision(room) = v.revision + Len(d)
      BY <1>3, <1>6
    <2>2. ASSUME InWindow(room, v.revision)
          PROVE  CarriedOver(op, Since(room, v.revision)) = mine
      <3>1. Since(room, v.revision) = Operations(d)
        BY <1>6, <2>1, <2>2, SinceAligned
      <3> QED
        BY <3>1 DEF mine
    <2> QED
      BY <1>2, <2>1, <2>2 DEF Pending
  <1> QED
    BY <1>2, <1>4, <1>5, <1>7, <1>8

\* Somebody joins: the welcome is under way.
LEMMA JoinConnected ==
    ASSUME NEW room, room.text \in Text, Revision(room) \in Nat, NEW r,
           NEW t, t = [Away EXCEPT !.room = r]
    PROVE  Connected(t, room, <<>>, <<Welcome(room)>>)
  <1> DEFINE m == Welcome(room)
             d == <<m>>
             v == [text |-> <<>>, mine |-> None, revision |-> 0]
             w == [text |-> room.text, mine |-> None, revision |-> Revision(room)]
  <1>1. /\ ~t.live /\ t.outstanding = None /\ t.buffer = None /\ t.revision = 0
    BY DEF Away
  <1>2. <<>> \in Text
    BY EmptySeq DEF Text
  <1>3. v \in Views /\ w \in Views
    BY <1>2, ViewMade
  <1>4. Link(v, m, w) /\ m.type = "welcome"
    BY DEF Link, Welcome
  <1>5. v.mine = None /\ v.revision = 0 /\ w.text = room.text
        /\ w.revision = Revision(room)
    OBVIOUS
  <1> HIDE DEF v, w, m
  <1>6. Queue(<<>>) /\ DOMAIN <<>> = {}
    BY EmptySeq DEF Queue
  <1>7. Append(<<>>, m) = d
    OBVIOUS
  <1>8. Reaches(d, v, w)
    <2>1. Reaches(<<>>, v, v)
      BY <1>3, NoWay
    <2> QED
      BY <1>3, <1>4, <1>6, <1>7, <2>1, WayAppend
  <1>9. /\ Queue(d) /\ d # <<>> /\ Head(d) = m
        /\ \A i \in DOMAIN d : i = 1 /\ d[i] = m
    <2>1. Queue(d)
      BY <1>6, <1>7, UpAppend
    <2> QED
      BY <2>1
  <1>10. Quiet(<<>>)
    BY <1>6 DEF Quiet
  <1>11. Aligned(d, room.history)
    BY <1>4, <1>6, <1>7, AlignedAnswer
  <1> HIDE DEF d
  <1>12. InFlight(t, <<>>, d)
    BY <1>1, <1>4, <1>6, <1>9, <1>10 DEF InFlight
  <1>13. Agreed(t, room, <<>>, d, v, w)
    BY <1>1, <1>3, <1>5, <1>6, <1>8 DEF Agreed
  <1> QED
    BY <1>6, <1>9, <1>11, <1>12, <1>13 DEF Connected, d, m

\* A caret is reported, or a save asked for.
LEMMA ReportConnected ==
    ASSUME NEW t, NEW room, NEW u, NEW d, Connected(t, room, u, d), t.live,
           NEW m, m.type \in {"selection", "save"},
           m.type = "selection" => m.caret \in Nat
    PROVE  Connected(t, room, Append(u, m), d)
  <1> DEFINE r == Append(u, m)
  <1>1. Queue(u) /\ InFlight(t, u, d)
    BY DEF Connected
  <1>2. /\ Queue(r)
        /\ \A i \in DOMAIN r : \/ i \in DOMAIN u /\ r[i] = u[i]
                               \/ i = Len(u) + 1 /\ r[i] = m
    BY <1>1, UpAppend
  <1> HIDE DEF r
  <1>3. Quiet(u) => Quiet(r)
    BY <1>2 DEF Quiet
  <1>4. \A i, j \in DOMAIN r : Asks(r[i]) /\ Asks(r[j]) => i = j
    BY <1>1, <1>2 DEF InFlight, Asks
  <1>5. InFlight(t, r, d)
    BY <1>1, <1>3, <1>4 DEF InFlight
  <1>6. PICK v, w : Agreed(t, room, u, d, v, w)
    BY DEF Connected
  <1>7. Agreed(t, room, r, d, v, w)
    BY <1>2, <1>6 DEF Agreed
  <1>8. \A i \in DOMAIN r : r[i].type = "selection" => r[i].caret \in Nat
    BY <1>2 DEF Connected
  <1> QED
    BY <1>2, <1>5, <1>7, <1>8 DEF Connected, r

\* A question is asked when none is.
LEMMA AskInFlight ==
    ASSUME NEW t, t.live, t.outstanding # None, NEW u, Queue(u), Quiet(u),
           NEW d, OpsOnly(d), NEW m, Asks(m)
    PROVE  /\ InFlight(t, Append(u, m), d) /\ Queue(Append(u, m))
           /\ \A i \in DOMAIN Append(u, m) :
                  \/ i \in DOMAIN u /\ Append(u, m)[i] = u[i] /\ ~Asks(u[i])
                  \/ Append(u, m)[i] = m
  <1> DEFINE r == Append(u, m)
  <1>1. /\ Queue(r)
        /\ \A i \in DOMAIN r : \/ i \in DOMAIN u /\ r[i] = u[i]
                               \/ i = Len(u) + 1 /\ r[i] = m
    BY UpAppend
  <1> HIDE DEF r
  <1>2. \A i \in DOMAIN u : ~Asks(u[i])
    BY DEF Quiet, Asks
  <1>3. \A i, j \in DOMAIN r : Asks(r[i]) /\ Asks(r[j]) => i = j
    BY <1>1, <1>2
  <1>4. \A i, j \in DOMAIN d : d[i].type # "op" /\ d[j].type # "op" => i = j
    BY DEF OpsOnly
  <1>5. InFlight(t, r, d)
    BY <1>3, <1>4 DEF InFlight
  <1> QED
    BY <1>1, <1>2, <1>5 DEF r

\* Nothing is asked, and only broadcasts are under way.
LEMMA QuietInFlight ==
    ASSUME NEW t, t.live, t.buffer # None => t.outstanding # None,
           NEW u, Quiet(u), NEW d, OpsOnly(d)
    PROVE  InFlight(t, u, d)
  <1>1. \A i \in DOMAIN u : ~Asks(u[i])
    BY DEF Quiet, Asks
  <1>2. \A i \in DOMAIN d : d[i].type = "op"
    BY DEF OpsOnly
  <1> QED
    BY <1>1, <1>2 DEF InFlight

\* An edit that is sent at once.
LEMMA EditSent ==
    ASSUME NEW t, DOMAIN t = TabFields, NEW room, NEW u, NEW d,
           Connected(t, room, u, d), t.live, t.outstanding = None,
           room.history \in Seq(Operation), room.base \in Nat,
           NEW op \in Operation, baseLength(op) = Len(t.text),
           NEW caret \in Nat \cup {None}
    PROVE  Connected(ApplyLocal(t, op), room,
                     Append(u, OpMessage(t.revision, op, caret)), d)
  <1> DEFINE s == ApplyLocal(t, op)
             m == OpMessage(t.revision, op, caret)
             r == Append(u, m)
  <1>1. /\ s.text = applyOperation(t.text, op) /\ s.outstanding = op
        /\ s.buffer = None /\ s.live = t.live /\ s.revision = t.revision
    BY DEF ApplyLocal, TabFields
  <1>2. /\ m.type = "op" /\ m.operation = op /\ m.caret = caret
        /\ m.revision = t.revision
    BY DEF OpMessage
  <1>3. Queue(u) /\ Queue(d) /\ Quiet(u) /\ OpsOnly(d) /\ Aligned(d, room.history)
    BY DEF Connected, InFlight
  <1> HIDE DEF s, m
  <1>4. PICK v, w : Agreed(t, room, u, d, v, w)
    BY DEF Connected
  <1>5. /\ v \in Views /\ Reaches(d, v, w) /\ v.mine = None
        /\ w.text = room.text /\ w.revision = Revision(room)
        /\ v.revision = t.revision /\ Shows(t, v) /\ v.mine = t.outstanding
    BY <1>4 DEF Agreed
  <1>6. t.text = v.text
    BY <1>5 DEF Shows
  <1>7. op # None
    BY OfAlphabet
  <1>8. PICK y, z : /\ y \in Views /\ z \in Views
                    /\ Reaches(d, y, z)
                    /\ y.text = v.text /\ y.mine = op /\ y.revision = v.revision
                    /\ z.text = room.text /\ z.revision = Revision(room)
                    /\ Pending(room, m, z.mine)
    <2>1. /\ m.operation = op /\ m.caret \in Nat \cup {None}
          /\ m.revision = v.revision
          /\ baseLength(op) = Len(v.text)
      BY <1>2, <1>5, <1>6
    <2> QED
      BY <1>3, <1>5, <2>1, TakenUp
  <1>9. Asks(m)
    BY <1>2 DEF Asks
  <1>10. /\ InFlight(s, r, d) /\ Queue(r)
         /\ \A i \in DOMAIN r :
                \/ i \in DOMAIN u /\ r[i] = u[i] /\ ~Asks(u[i])
                \/ r[i] = m
    <2>1. s.live /\ s.outstanding # None
      BY <1>1, <1>7
    <2> QED
      BY <1>3, <1>9, <2>1, AskInFlight
  <1> HIDE DEF r
  <1>11. Shows(s, y)
    BY <1>1, <1>6, <1>7, <1>8 DEF Shows
  <1>12. \A i \in DOMAIN r : r[i].type = "op" => Pending(room, r[i], z.mine)
    BY <1>8, <1>10 DEF Asks
  <1>13. Agreed(s, room, r, d, y, z)
    BY <1>1, <1>5, <1>8, <1>11, <1>12 DEF Agreed
  <1>14. \A i \in DOMAIN r : r[i].type = "selection" => r[i].caret \in Nat
    BY <1>2, <1>10 DEF Connected
  <1> QED
    BY <1>3, <1>10, <1>13, <1>14 DEF Connected, s, m, r

\* An edit that waits in the buffer.
LEMMA EditKept ==
    ASSUME NEW t, DOMAIN t = TabFields, NEW room, NEW u, NEW d,
           Connected(t, room, u, d), t.live, t.outstanding # None,
           NEW op \in Operation, baseLength(op) = Len(t.text)
    PROVE  Connected(ApplyLocal(t, op), room, u, d)
  <1> DEFINE s == ApplyLocal(t, op)
             a == t.outstanding
             b == t.buffer
             new == IF b = None THEN op ELSE composeOperations(b, op)
  <1>1. /\ s.text = applyOperation(t.text, op) /\ s.outstanding = a
        /\ s.buffer = new /\ s.live = t.live /\ s.revision = t.revision
    BY DEF ApplyLocal, TabFields
  <1>2. PICK v, w : Agreed(t, room, u, d, v, w)
    BY DEF Connected
  <1>3. v \in Views /\ Shows(t, v) /\ v.mine = t.outstanding
    BY <1>2 DEF Agreed
  <1>4. /\ v.text \in Text /\ a \in Operation /\ baseLength(a) = Len(v.text)
    BY <1>3, ViewFields
  <1> DEFINE mid == applyOperation(v.text, a)
  <1>5. mid \in Text /\ Len(mid) = targetLength(a)
    BY <1>4, Applies
  <1>6. /\ b # None => b \in Operation /\ baseLength(b) = targetLength(a)
        /\ t.text = IF b = None THEN mid ELSE applyOperation(mid, b)
    BY <1>3 DEF Shows
  <1>7. /\ b = None => Len(t.text) = targetLength(a)
        /\ b # None => Len(t.text) = targetLength(b)
    BY <1>3, ShownText
  <1> HIDE DEF s, a, b, mid
  <1>8. /\ new \in Operation /\ baseLength(new) = targetLength(a)
        /\ s.text = applyOperation(mid, new)
    <2>1. CASE b = None
      BY <1>1, <1>6, <1>7, <2>1
    <2>2. CASE b # None
      <3> DEFINE both == composeOperations(b, op)
      <3>1. /\ b \in Seq(Units(Alphabet)) /\ op \in Seq(Units(Alphabet))
            /\ Letters(Alphabet) /\ targetLength(b) = baseLength(op)
            /\ mid \in Seq(Alphabet) /\ Len(mid) = baseLength(b)
        BY <1>5, <1>6, <1>7, <2>2, OfAlphabet
      <3>2. /\ both \in Seq(Units(Alphabet))
            /\ baseLength(both) = baseLength(b)
            /\ \A text \in Seq(Alphabet) : Len(text) = baseLength(b) =>
                   applyOperation(text, both)
                       = applyOperation(applyOperation(text, b), op)
        BY <3>1, ComposeIsBoth
      <3> HIDE DEF both
      <3>3. applyOperation(mid, both) = applyOperation(applyOperation(mid, b), op)
        BY <3>1, <3>2
      <3>4. new = both /\ both \in Operation
        BY <2>2, <3>2, OfAlphabet DEF both
      <3> QED
        BY <1>1, <1>6, <2>2, <3>2, <3>3, <3>4
    <2> QED
      BY <2>1, <2>2
  <1>9. new # None /\ a # None
    BY <1>8, OfAlphabet DEF a
  <1> HIDE DEF new
  <1>10. Shows(s, v)
    BY <1>1, <1>8, <1>9 DEF Shows, mid
  <1>11. Agreed(s, room, u, d, v, w)
    BY <1>1, <1>2, <1>10 DEF Agreed, a
  <1>12. InFlight(s, u, d)
    BY <1>1, <1>9 DEF Connected, InFlight, a
  <1> QED
    BY <1>11, <1>12 DEF Connected, s

\* An answer is taken: it was the only one.
LEMMA AnswerTaken ==
    ASSUME NEW t, NEW room, NEW u, NEW d, Connected(t, room, u, d),
           d # <<>>, Head(d).type # "op"
    PROVE  /\ Queue(u) /\ Queue(Tail(d)) /\ Quiet(u) /\ OpsOnly(Tail(d))
           /\ Aligned(Tail(d), room.history)
           /\ t.live => t.outstanding # None
           /\ Head(d).type # "welcome" => t.live
  <1> DEFINE e == Tail(d)
  <1>1. Queue(d) /\ InFlight(t, u, d) /\ Queue(u)
    BY DEF Connected
  <1>2. /\ Queue(e) /\ 1 \in DOMAIN d /\ Head(d) = d[1]
        /\ \A i \in DOMAIN e : /\ i + 1 \in DOMAIN d
                               /\ e[i] = d[i + 1] /\ i \in Nat
    BY <1>1, UpTail
  <1>3. Aligned(e, room.history)
    BY <1>1, AlignedTail DEF Connected
  <1> HIDE DEF e
  <1>4. ~OpsOnly(d)
    BY <1>2 DEF OpsOnly
  <1>5. Quiet(u) /\ (t.live => t.outstanding # None)
        /\ (Head(d).type # "welcome" => t.live)
    BY <1>1, <1>4 DEF InFlight
  <1>6. OpsOnly(e)
    <2> SUFFICES ASSUME NEW i \in DOMAIN e, e[i].type # "op" PROVE FALSE
      BY DEF OpsOnly
    <2>1. i + 1 \in DOMAIN d /\ d[i + 1].type # "op" /\ i \in Nat
      BY <1>2
    <2>2. i # 0
      BY <1>2, LenProperties DEF Queue
    <2>3. i + 1 # 1
      BY <2>1, <2>2
    <2> QED
      BY <1>1, <1>2, <2>1, <2>3 DEF InFlight
  <1> QED
    BY <1>1, <1>2, <1>3, <1>5, <1>6 DEF e

\* A snapshot starts the tab afresh.
LEMMA WelcomeTaken ==
    ASSUME NEW t, DOMAIN t = TabFields, NEW room, NEW u, NEW d,
           Connected(t, room, u, d), d # <<>>, Head(d).type = "welcome"
    PROVE  Connected(Reset(t, Head(d)), room, u, Tail(d))
  <1> DEFINE m == Head(d)
             s == Reset(t, m)
  <1>1. /\ s.text = m.content /\ s.outstanding = None
        /\ s.buffer = None /\ s.live /\ s.revision = m.revision
    BY DEF Reset, TabFields
  <1>2. /\ Queue(u) /\ Queue(Tail(d)) /\ Quiet(u) /\ OpsOnly(Tail(d))
        /\ Aligned(Tail(d), room.history)
    BY AnswerTaken
  <1> HIDE DEF s
  <1>3. PICK v, w : Agreed(t, room, u, d, v, w)
    BY DEF Connected
  <1>4. PICK x \in Views : Link(v, m, x) /\ Reaches(Tail(d), x, w)
    BY <1>3, WayTail DEF Agreed, Connected
  <1>5. x.text = m.content /\ x.mine = None /\ x.revision = m.revision
    BY <1>4 DEF Link
  <1>6. Shows(s, x)
    BY <1>1, <1>5 DEF Shows
  <1>7. Agreed(s, room, u, Tail(d), x, w)
    BY <1>1, <1>2, <1>3, <1>4, <1>5, <1>6 DEF Agreed, Quiet
  <1>8. InFlight(s, u, Tail(d))
    BY <1>1, <1>2, QuietInFlight
  <1> QED
    BY <1>2, <1>7, <1>8 DEF Connected, s

\* An acknowledgement is taken, and nothing waits in the buffer.
LEMMA AckTaken ==
    ASSUME NEW t, DOMAIN t = TabFields, NEW room, NEW u, NEW d,
           Connected(t, room, u, d), d # <<>>, Head(d).type = "ack",
           t.buffer = None
    PROVE  Connected(Acknowledge(t), room, u, Tail(d))
  <1> DEFINE m == Head(d)
             s == Acknowledge(t)
  <1>1. /\ s.text = t.text /\ s.outstanding = None
        /\ s.buffer = None /\ s.live = t.live /\ s.revision = t.revision + 1
    BY DEF Acknowledge, TabFields
  <1>2. /\ Queue(u) /\ Queue(Tail(d)) /\ Quiet(u) /\ OpsOnly(Tail(d))
        /\ Aligned(Tail(d), room.history) /\ t.live /\ t.outstanding # None
    BY AnswerTaken
  <1> HIDE DEF s
  <1>3. PICK v, w : Agreed(t, room, u, d, v, w)
    BY DEF Connected
  <1>4. PICK x \in Views : Link(v, m, x) /\ Reaches(Tail(d), x, w)
    BY <1>3, WayTail DEF Agreed, Connected
  <1>5. /\ x.text = applyOperation(v.text, v.mine) /\ x.mine = None
        /\ x.revision = v.revision + 1
    BY <1>4 DEF Link
  <1>6. Shows(t, v) /\ v.mine = t.outstanding /\ v.revision = t.revision
    BY <1>2, <1>3 DEF Agreed
  <1>7. Shows(s, x)
    BY <1>1, <1>2, <1>5, <1>6 DEF Shows
  <1>8. Agreed(s, room, u, Tail(d), x, w)
    BY <1>1, <1>2, <1>3, <1>4, <1>5, <1>6, <1>7 DEF Agreed, Quiet
  <1>9. InFlight(s, u, Tail(d))
    BY <1>1, <1>2, QuietInFlight
  <1> QED
    BY <1>2, <1>8, <1>9 DEF Connected, s

\* An acknowledgement is taken, and the buffer is sent.
LEMMA AckSends ==
    ASSUME NEW t, DOMAIN t = TabFields, NEW room, NEW u, NEW d,
           Connected(t, room, u, d), d # <<>>, Head(d).type = "ack",
           t.buffer # None, NEW caret \in Nat \cup {None},
           room.history \in Seq(Operation), room.base \in Nat
    PROVE  Connected(Acknowledge(t), room,
                     Append(u, OpMessage(Acknowledge(t).revision, t.buffer,
                                         caret)), Tail(d))
  <1> DEFINE k == Head(d)
             e == Tail(d)
             s == Acknowledge(t)
             op == t.buffer
             m == OpMessage(s.revision, op, caret)
             r == Append(u, m)
  <1>1. /\ s.text = t.text /\ s.outstanding = op
        /\ s.buffer = None /\ s.live = t.live /\ s.revision = t.revision + 1
    BY DEF Acknowledge, TabFields
  <1>2. /\ Queue(u) /\ Queue(e) /\ Quiet(u) /\ OpsOnly(e)
        /\ Aligned(e, room.history) /\ t.live /\ t.outstanding # None
    BY AnswerTaken
  <1>3. /\ m.type = "op" /\ m.operation = op /\ m.caret = caret
        /\ m.revision = s.revision
    BY DEF OpMessage
  <1> HIDE DEF s, m
  <1>4. PICK v, w : Agreed(t, room, u, d, v, w)
    BY DEF Connected
  <1>5. PICK x \in Views : Link(v, k, x) /\ Reaches(e, x, w)
    BY <1>4, WayTail DEF Agreed, Connected
  <1>6. /\ x.text = applyOperation(v.text, v.mine) /\ x.mine = None
        /\ x.revision = v.revision + 1
    BY <1>5 DEF Link
  <1>7. /\ v \in Views /\ Shows(t, v) /\ v.mine = t.outstanding
        /\ v.revision = t.revision
        /\ w.text = room.text /\ w.revision = Revision(room)
    BY <1>2, <1>4 DEF Agreed
  <1>8. /\ op \in Operation /\ baseLength(op) = targetLength(t.outstanding)
        /\ t.text = applyOperation(x.text, op)
    BY <1>2, <1>6, <1>7 DEF Shows
  <1>9. baseLength(op) = Len(x.text)
    <2>1. /\ v.text \in Text /\ v.mine \in Operation
          /\ baseLength(v.mine) = Len(v.text)
      BY <1>2, <1>7, ViewFields
    <2>2. Len(x.text) = targetLength(v.mine)
      BY <1>6, <2>1, Applies
    <2> QED
      BY <1>7, <1>8, <2>2
  <1>10. op # None
    OBVIOUS
  <1> HIDE DEF op, e, k
  <1>11. PICK y, z : /\ y \in Views /\ z \in Views
                     /\ Reaches(e, y, z)
                     /\ y.text = x.text /\ y.mine = op /\ y.revision = x.revision
                     /\ z.text = room.text /\ z.revision = Revision(room)
                     /\ Pending(room, m, z.mine)
    <2>1. /\ m.operation = op /\ m.caret \in Nat \cup {None}
          /\ m.revision = x.revision
      BY <1>1, <1>3, <1>6, <1>7
    <2> QED
      BY <1>2, <1>5, <1>6, <1>7, <1>8, <1>9, <2>1, TakenUp
  <1>12. /\ InFlight(s, r, e) /\ Queue(r)
         /\ \A i \in DOMAIN r :
                \/ i \in DOMAIN u /\ r[i] = u[i] /\ ~Asks(u[i])
                \/ r[i] = m
    <2>1. s.live /\ s.outstanding # None /\ Asks(m)
      BY <1>1, <1>2, <1>3, <1>10 DEF Asks
    <2> QED
      BY <1>2, <2>1, AskInFlight
  <1> HIDE DEF r
  <1>13. Shows(s, y)
    BY <1>1, <1>8, <1>10, <1>11 DEF Shows
  <1>14. \A i \in DOMAIN r : r[i].type = "op" => Pending(room, r[i], z.mine)
    BY <1>11, <1>12 DEF Asks
  <1>15. Agreed(s, room, r, e, y, z)
    BY <1>1, <1>6, <1>7, <1>11, <1>13, <1>14 DEF Agreed
  <1>16. \A i \in DOMAIN r : r[i].type = "selection" => r[i].caret \in Nat
    BY <1>3, <1>12 DEF Connected
  <1> QED
    BY <1>2, <1>12, <1>15, <1>16 DEF Connected, s, m, r, op, e

\* An error is taken: the tab asks for a snapshot, or gives up.
LEMMA ErrorTaken ==
    ASSUME NEW t, DOMAIN t = TabFields, NEW room, NEW u, NEW d,
           Connected(t, room, u, d), d # <<>>, Head(d).type = "error"
    PROVE  /\ Connected(t, room, Append(u, [type |-> "resync"]), Tail(d))
           /\ Connected([t EXCEPT !.refused = TRUE], room, u, Tail(d))
  <1> DEFINE m == [type |-> "resync"]
             r == Append(u, m)
             e == Tail(d)
             s == [t EXCEPT !.refused = TRUE]
  <1>1. /\ s.text = t.text /\ s.outstanding = t.outstanding
        /\ s.buffer = t.buffer /\ s.live = t.live /\ s.revision = t.revision
    BY DEF TabFields
  <1>2. /\ Queue(u) /\ Queue(e) /\ Quiet(u) /\ OpsOnly(e)
        /\ Aligned(e, room.history) /\ t.live /\ t.outstanding # None
    BY AnswerTaken
  <1>3. m.type = "resync" /\ Asks(m)
    BY DEF Asks
  <1> HIDE DEF s, m
  <1>4. PICK v, w : Agreed(t, room, u, d, v, w)
    BY DEF Connected
  <1>5. Link(v, Head(d), v) /\ Reaches(e, v, w)
    <2>1. PICK x \in Views : Link(v, Head(d), x) /\ Reaches(e, x, w)
      BY <1>4, WayTail DEF Agreed, Connected
    <2>2. x = v
      BY <2>1 DEF Link
    <2> QED
      BY <2>1, <2>2
  <1>6. /\ InFlight(t, r, e) /\ Queue(r)
        /\ \A i \in DOMAIN r :
               \/ i \in DOMAIN u /\ r[i] = u[i] /\ ~Asks(u[i])
               \/ r[i] = m
    BY <1>2, <1>3, AskInFlight
  <1> HIDE DEF r, e
  <1>7. \A i \in DOMAIN r : /\ r[i].type # "op"
                            /\ r[i].type = "selection" => r[i].caret \in Nat
    BY <1>3, <1>6 DEF Connected, Asks
  <1>8. Agreed(t, room, r, e, v, w)
    BY <1>4, <1>5, <1>7 DEF Agreed
  <1>9. Connected(t, room, r, e)
    BY <1>2, <1>6, <1>7, <1>8 DEF Connected
  <1>10. InFlight(s, u, e)
    BY <1>1, <1>2, QuietInFlight
  <1>11. Shows(s, v)
    BY <1>1, <1>2, <1>4 DEF Shows, Agreed
  <1>12. Agreed(s, room, u, e, v, w)
    BY <1>1, <1>2, <1>4, <1>5, <1>11 DEF Agreed
  <1>13. Connected(s, room, u, e)
    BY <1>2, <1>10, <1>12 DEF Connected
  <1> QED
    BY <1>9, <1>13 DEF s, r, e, m

\* What is in flight once a broadcast is taken.
LEMMA OpInFlight ==
    ASSUME NEW t, NEW room, NEW u, NEW d, Connected(t, room, u, d),
           d # <<>>, Head(d).type = "op",
           NEW s, s.live = t.live,
           s.outstanding = None <=> t.outstanding = None,
           s.buffer = None <=> t.buffer = None
    PROVE  /\ t.live /\ InFlight(s, u, Tail(d))
           /\ Queue(u) /\ Queue(Tail(d)) /\ Aligned(Tail(d), room.history)
  <1> DEFINE e == Tail(d)
  <1>1. Queue(d) /\ InFlight(t, u, d) /\ Queue(u)
    BY DEF Connected
  <1>2. /\ Queue(e) /\ 1 \in DOMAIN d /\ Head(d) = d[1]
        /\ \A i \in DOMAIN e : /\ i + 1 \in DOMAIN d
                               /\ e[i] = d[i + 1] /\ i \in Nat
    BY <1>1, UpTail
  <1>3. Aligned(e, room.history)
    BY <1>1, AlignedTail DEF Connected
  <1> HIDE DEF e
  <1>4. t.live
    BY <1>1 DEF InFlight
  <1>5. OpsOnly(d) => OpsOnly(e)
    BY <1>2 DEF OpsOnly
  <1>6. \A i, j \in DOMAIN e : e[i].type # "op" /\ e[j].type # "op" => i = j
    <2> SUFFICES ASSUME NEW i \in DOMAIN e, NEW j \in DOMAIN e,
                        e[i].type # "op", e[j].type # "op"
                 PROVE  i = j
      OBVIOUS
    <2>1. /\ i + 1 \in DOMAIN d /\ j + 1 \in DOMAIN d
          /\ d[i + 1].type # "op" /\ d[j + 1].type # "op"
          /\ i \in Nat /\ j \in Nat
      BY <1>2
    <2>2. i + 1 = j + 1
      BY <1>1, <2>1 DEF InFlight
    <2> QED
      BY <2>1, <2>2
  <1>7. InFlight(s, u, e)
    BY <1>1, <1>4, <1>5, <1>6 DEF InFlight
  <1> QED
    BY <1>1, <1>2, <1>3, <1>4, <1>7 DEF e

\* What a tab shows after a broadcast: its own operations are carried over
\* it, and it is carried over them.
LEMMA OpShown ==
    ASSUME NEW t, DOMAIN t = TabFields, NEW v \in Views, Shows(t, v),
           v.mine = t.outstanding, NEW op \in Operation,
           baseLength(op) = Len(v.text),
           NEW x, x.text = applyOperation(v.text, op),
           x.mine = IF v.mine = None THEN None
                    ELSE transformOperations(v.mine, op)[1],
           NEW s, s = ApplyServer(t, op)
    PROVE  /\ Fits(t, op)
           /\ Shows(s, x)
           /\ s.outstanding = x.mine
           /\ s.outstanding = None <=> t.outstanding = None
           /\ s.buffer = None <=> t.buffer = None
  <1> DEFINE a == t.outstanding
             b == t.buffer
             a1 == transformOperations(a, op)[1]
             op1 == transformOperations(a, op)[2]
             b1 == transformOperations(b, op1)[1]
             op2 == transformOperations(b, op1)[2]
             mid == applyOperation(v.text, a)
  <1>1. /\ s.outstanding = (IF a = None THEN None ELSE a1)
        /\ s.buffer = (IF b = None THEN None ELSE b1)
        /\ s.text = applyOperation(t.text, IF a = None THEN op
                                           ELSE IF b = None THEN op1 ELSE op2)
    BY DEF ApplyServer, TabFields
  <1>2. /\ v.text \in Text
        /\ a # None => a \in Operation /\ baseLength(a) = Len(v.text)
    BY ViewFields
  <1>3. /\ b # None => a # None /\ b \in Operation /\ baseLength(b) = targetLength(a)
        /\ t.text = IF a = None THEN v.text
                    ELSE IF b = None THEN mid ELSE applyOperation(mid, b)
    BY DEF Shows
  <1>4. x.mine = IF a = None THEN None ELSE a1
    OBVIOUS
  <1>5. a # None =>
            /\ a1 \in Operation /\ a1 # None /\ op1 \in Operation
            /\ baseLength(a1) = targetLength(op)
            /\ baseLength(op1) = targetLength(a)
            /\ targetLength(a1) = targetLength(op1)
            /\ applyOperation(mid, op1) = applyOperation(x.text, a1)
    <2> SUFFICES ASSUME a # None
                 PROVE  /\ a1 \in Operation /\ a1 # None /\ op1 \in Operation
                        /\ baseLength(a1) = targetLength(op)
                        /\ baseLength(op1) = targetLength(a)
                        /\ targetLength(a1) = targetLength(op1)
                        /\ applyOperation(mid, op1) = applyOperation(x.text, a1)
      OBVIOUS
    <2>1. a \in Operation /\ baseLength(a) = Len(v.text)
      BY <1>2
    <2> QED
      BY <1>2, <2>1, Crosses
  <1>6. a # None => mid \in Text /\ Len(mid) = targetLength(a)
    BY <1>2, Applies
  <1> HIDE DEF a1, op1, mid
  <1>7. b # None =>
            /\ b1 \in Operation /\ b1 # None
            /\ baseLength(b1) = targetLength(op1)
            /\ applyOperation(applyOperation(mid, b), op2)
                 = applyOperation(applyOperation(mid, op1), b1)
    <2> SUFFICES ASSUME b # None
                 PROVE  /\ b1 \in Operation /\ b1 # None
                        /\ baseLength(b1) = targetLength(op1)
                        /\ applyOperation(applyOperation(mid, b), op2)
                             = applyOperation(applyOperation(mid, op1), b1)
      OBVIOUS
    <2>1. /\ mid \in Text /\ b \in Operation /\ op1 \in Operation
          /\ baseLength(b) = Len(mid) /\ baseLength(op1) = Len(mid)
      BY <1>3, <1>5, <1>6
    <2> QED
      BY <2>1, Crosses
  <1> HIDE DEF b1, op2, a, b
  <1>8. Fits(t, op)
    BY <1>2, <1>3 DEF Fits, a
  <1>9. s.outstanding = x.mine
    BY <1>1, <1>4
  <1>10. s.outstanding = None <=> a = None
    BY <1>1, <1>5
  <1>11. s.buffer = None <=> b = None
    BY <1>1, <1>7
  <1>12. s.buffer # None => /\ s.outstanding # None
                            /\ s.buffer \in Operation
                            /\ baseLength(s.buffer) = targetLength(s.outstanding)
    BY <1>1, <1>3, <1>5, <1>7
  <1>13. s.text = IF s.outstanding = None THEN x.text
                  ELSE IF s.buffer = None
                  THEN applyOperation(x.text, s.outstanding)
                  ELSE applyOperation(applyOperation(x.text, s.outstanding), s.buffer)
    <2>1. CASE a = None
      BY <1>1, <1>3, <2>1
    <2>2. CASE a # None /\ b = None
      BY <1>1, <1>3, <1>5, <2>2
    <2>3. CASE a # None /\ b # None
      BY <1>1, <1>3, <1>5, <1>7, <2>3
    <2> QED
      BY <2>1, <2>2, <2>3
  <1>14. Shows(s, x)
    BY <1>12, <1>13 DEF Shows
  <1> QED
    BY <1>8, <1>9, <1>10, <1>11, <1>14 DEF a, b

\* A broadcast is taken.
LEMMA OpTaken ==
    ASSUME NEW t, DOMAIN t = TabFields, NEW room, NEW u, NEW d,
           Connected(t, room, u, d), d # <<>>, Head(d).type = "op"
    PROVE  /\ Fits(t, Head(d).operation)
           /\ Connected(ApplyServer(t, Head(d).operation), room, u, Tail(d))
  <1> DEFINE m == Head(d)
             op == m.operation
             s == ApplyServer(t, op)
  <1>1. /\ s.live = t.live /\ s.revision = t.revision + 1
    BY DEF ApplyServer, TabFields
  <1>2. t.live
    <2>1. (t.outstanding = None <=> t.outstanding = None)
          /\ (t.buffer = None <=> t.buffer = None) /\ t.live = t.live
      OBVIOUS
    <2> QED
      BY <2>1, OpInFlight
  <1> HIDE DEF s
  <1>3. PICK v, w : Agreed(t, room, u, d, v, w)
    BY DEF Connected
  <1>4. PICK x \in Views : Link(v, m, x) /\ Reaches(Tail(d), x, w)
    BY <1>3, WayTail DEF Agreed, Connected
  <1>5. /\ op \in Operation /\ baseLength(op) = Len(v.text)
        /\ x.text = applyOperation(v.text, op)
        /\ x.mine = IF v.mine = None THEN None
                    ELSE transformOperations(v.mine, op)[1]
        /\ x.revision = v.revision + 1
    BY <1>4 DEF Link
  <1>6. /\ v \in Views /\ Shows(t, v) /\ v.mine = t.outstanding
        /\ v.revision = t.revision
    BY <1>2, <1>3 DEF Agreed
  <1> HIDE DEF op, m
  <1>7. /\ Fits(t, op) /\ Shows(s, x) /\ s.outstanding = x.mine
        /\ s.outstanding = None <=> t.outstanding = None
        /\ s.buffer = None <=> t.buffer = None
    <2>1. s = ApplyServer(t, op)
      BY DEF s
    <2> QED
      BY <1>5, <1>6, <2>1, OpShown
  <1>8. /\ InFlight(s, u, Tail(d))
        /\ Queue(u) /\ Queue(Tail(d)) /\ Aligned(Tail(d), room.history)
    BY <1>1, <1>7, OpInFlight
  <1>9. Agreed(s, room, u, Tail(d), x, w)
    BY <1>1, <1>3, <1>4, <1>5, <1>6, <1>7 DEF Agreed
  <1>10. \A i \in DOMAIN u : u[i].type = "selection" => u[i].caret \in Nat
    BY DEF Connected
  <1> QED
    BY <1>7, <1>8, <1>9, <1>10 DEF Connected, s, op, m

----------------------------------------------------------------------------
(* The inductive invariant.                                                *)

\* Every room is sound, and its participants are those who are in it.
RoomsSound ==
    \A r \in DOMAIN rooms :
        /\ RoomSound(rooms[r])
        /\ Members(rooms[r]) = {c \in Clients : tab[c].room = r}

\* What is on disk and on its way there is a text, and whoever waits for the
\* file is in no room and waits for it once.
DiskSound ==
    /\ file \in Text
    /\ \A i \in DOMAIN disk :
        /\ disk[i].type = "write" => disk[i].content \in Text
        /\ disk[i].type = "read" => tab[disk[i].by].room = 0
    /\ \A i, j \in DOMAIN disk :
        disk[i].type = "read" /\ disk[j].type = "read" /\ disk[i].by = disk[j].by
            => i = j

\* Whoever is in a room agrees with it on the text, but for what is under way.
TabsSound ==
    \A c \in Clients :
        /\ tab[c].room = 0 => tab[c] = Away
        /\ tab[c].room # 0
            => Connected(tab[c], rooms[tab[c].room], up[c], down[c])

Sound ==
    /\ RoomsSound
    /\ DiskSound
    /\ TabsSound
    /\ byRoom \subseteq Clients

----------------------------------------------------------------------------
(* What a step leaves as it was.                                           *)

\* Nobody enters or leaves a room.
LEMMA SoundFrame ==
    ASSUME Sound, Talks, DOMAIN rooms' = DOMAIN rooms, byRoom' = byRoom,
           \A r \in DOMAIN rooms :
               RoomSound(rooms'[r]) /\ Members(rooms'[r]) = Members(rooms[r]),
           DiskSound',
           \A d \in Clients : tab[d].room # 0 =>
               Connected(tab'[d], rooms'[tab[d].room], up'[d], down'[d])
    PROVE  Sound'
  <1>1. \A d \in Clients : /\ tab'[d].room = tab[d].room
                           /\ tab[d].room = 0 => tab'[d] = tab[d]
    BY DEF Talks
  <1>2. RoomsSound'
    <2> SUFFICES ASSUME NEW r \in DOMAIN rooms'
                 PROVE  /\ RoomSound(rooms'[r])
                        /\ Members(rooms'[r]) = {c \in Clients : tab'[c].room = r}
      BY DEF RoomsSound
    <2>1. Members(rooms[r]) = {c \in Clients : tab[c].room = r}
      BY DEF Sound, RoomsSound
    <2>2. {c \in Clients : tab'[c].room = r} = {c \in Clients : tab[c].room = r}
      BY <1>1
    <2> QED
      BY <2>1, <2>2
  <1>3. TabsSound'
    <2> SUFFICES ASSUME NEW d \in Clients
                 PROVE  /\ tab'[d].room = 0 => tab'[d] = Away
                        /\ tab'[d].room # 0 =>
                             Connected(tab'[d], rooms'[tab'[d].room], up'[d], down'[d])
      BY DEF TabsSound
    <2>1. tab[d].room = 0 => tab[d] = Away
      BY DEF Sound, TabsSound
    <2> QED
      BY <1>1, <2>1
  <1>4. byRoom' \subseteq Clients
    BY DEF Sound
  <1> QED
    BY <1>2, <1>3, <1>4 DEF Sound

\* The disk is asked nothing, and nobody who waits for the file gets in.
LEMMA DiskSoundStays ==
    ASSUME DiskSound, DiskKept, disk' = disk, file' = file,
           \A d \in Clients : tab[d].room = 0 /\ Opening(d) => tab'[d].room = 0
    PROVE  DiskSound'
  <1>1. \A i \in DOMAIN disk : disk[i].type = "read" => tab'[disk[i].by].room = 0
    <2> SUFFICES ASSUME NEW i \in DOMAIN disk, disk[i].type = "read"
                 PROVE  tab'[disk[i].by].room = 0
      OBVIOUS
    <2> DEFINE d == disk[i].by
    <2>1. d \in Clients /\ tab[d].room = 0
      BY DEF DiskKept, DiskSound
    <2>2. Opening(d)
      BY DEF Opening
    <2> QED
      BY <2>1, <2>2
  <1> QED
    BY <1>1 DEF DiskSound

\* The first of what was asked is done.
LEMMA DiskSoundTail ==
    ASSUME DiskSound, DiskKept, disk # <<>>, disk' = Tail(disk), file' \in Text,
           \A d \in Clients : \/ tab'[d].room = tab[d].room
                              \/ Head(disk).type = "read" /\ d = Head(disk).by
    PROVE  /\ DiskSound'
           /\ Head(disk).type = "write" => Head(disk).content \in Text
           /\ Head(disk).type = "read" => /\ Head(disk).by \in Clients
                                          /\ tab[Head(disk).by].room = 0
  <1>1. /\ Len(disk) \in Nat \ {0}
        /\ DOMAIN disk = 1..Len(disk)
        /\ DOMAIN Tail(disk) = 1..(Len(disk) - 1)
        /\ Head(disk) = disk[1]
        /\ \A i \in 1..(Len(disk) - 1) : Tail(disk)[i] = disk[i + 1]
    BY OwnTail DEF DiskKept
  <1>2. \A i \in DOMAIN disk' : /\ i + 1 \in DOMAIN disk /\ disk'[i] = disk[i + 1]
                                /\ i + 1 # 1 /\ i \in Nat
    BY <1>1
  <1>3. 1 \in DOMAIN disk
    BY <1>1
  <1>4. ASSUME NEW i \in DOMAIN disk'
        PROVE  /\ disk'[i].type = "write" => disk'[i].content \in Text
               /\ disk'[i].type = "read" => tab'[disk'[i].by].room = 0
    <2>1. disk'[i].type = "write" => disk'[i].content \in Text
      BY <1>2 DEF DiskSound
    <2>2. ASSUME disk'[i].type = "read"
          PROVE  tab'[disk'[i].by].room = 0
      <3> DEFINE d == disk[i + 1].by
      <3>1. i + 1 \in DOMAIN disk /\ disk[i + 1].type = "read" /\ disk'[i].by = d
        BY <1>2, <2>2
      <3>2. d \in Clients /\ tab[d].room = 0
        BY <3>1 DEF DiskKept, DiskSound
      <3>3. ~(Head(disk).type = "read" /\ d = Head(disk).by)
        BY <1>1, <1>2, <1>3, <3>1 DEF DiskSound
      <3> QED
        BY <3>1, <3>2, <3>3
    <2> QED
      BY <2>1, <2>2
  <1>5. ASSUME NEW i \in DOMAIN disk', NEW j \in DOMAIN disk',
               disk'[i].type = "read", disk'[j].type = "read",
               disk'[i].by = disk'[j].by
        PROVE  i = j
    <2>1. i + 1 = j + 1
      BY <1>2, <1>5 DEF DiskSound
    <2> QED
      BY <1>2, <2>1
  <1>6. DiskSound'
    BY <1>4, <1>5 DEF DiskSound
  <1> QED
    BY <1>1, <1>3, <1>6 DEF DiskSound, DiskKept

\* One thing more is asked.
LEMMA DiskSoundAsked ==
    ASSUME DiskSound, DiskKept, NEW w, disk' = Append(disk, w), file' = file,
           tab' = tab,
           w.type = "write" => w.content \in Text,
           w.type = "read" => tab[w.by].room = 0 /\ ~Opening(w.by)
    PROVE  DiskSound'
  <1>1. /\ Len(disk) \in Nat
        /\ DOMAIN disk = 1..Len(disk)
        /\ DOMAIN disk' = 1..(Len(disk) + 1)
        /\ disk'[Len(disk) + 1] = w
        /\ \A i \in 1..Len(disk) : disk'[i] = disk[i]
    BY OwnAppend DEF DiskKept
  <1>2. \A i \in DOMAIN disk' :
            \/ i = Len(disk) + 1 /\ disk'[i] = w
            \/ i \in DOMAIN disk /\ disk'[i] = disk[i]
    BY <1>1
  <1>3. \A i \in DOMAIN disk' :
            /\ disk'[i].type = "write" => disk'[i].content \in Text
            /\ disk'[i].type = "read" => tab[disk'[i].by].room = 0
    BY <1>2 DEF DiskSound
  <1>4. \A i, j \in DOMAIN disk' :
            disk'[i].type = "read" /\ disk'[j].type = "read"
            /\ disk'[i].by = disk'[j].by => i = j
    BY <1>2 DEF DiskSound, Opening
  <1> QED
    BY <1>3, <1>4 DEF DiskSound

\* Only one tab, or its socket, takes a step.
LEMMA OneSound ==
    ASSUME CollabInv, Sound, NEW c \in Clients, tab[c].room # 0,
           NEW t, DOMAIN t = TabFields, t.room = tab[c].room, NEW u, NEW d,
           tab' = [tab EXCEPT ![c] = t], up' = [up EXCEPT ![c] = u],
           down' = [down EXCEPT ![c] = d],
           Connected(t, rooms[tab[c].room], u, d),
           rooms' = rooms, byRoom' = byRoom, DiskSound'
    PROVE  Sound'
  <1>1. TabsKept
    BY DEF CollabInv
  <1>2. /\ tab'[c] = t /\ up'[c] = u /\ down'[c] = d
        /\ \A e \in Clients : e # c =>
               tab'[e] = tab[e] /\ up'[e] = up[e] /\ down'[e] = down[e]
    BY <1>1 DEF TabsKept
  <1>3. Talks
    <2>1. \E s : /\ tab' = [tab EXCEPT ![c] = s]
                 /\ DOMAIN s = TabFields /\ s.room = tab[c].room
      OBVIOUS
    <2>2. down' = [e \in Clients |-> down'[e]]
      BY <1>1 DEF TabsKept
    <2>3. \A e \in Clients : tab[e].room = 0 => down'[e] = down[e]
      BY <1>2
    <2> QED
      BY <1>1, <2>1, <2>2, <2>3, TalkOf
  <1>4. \A r \in DOMAIN rooms : RoomSound(rooms[r])
    BY DEF Sound, RoomsSound
  <1>5. \A e \in Clients : tab[e].room # 0 =>
            Connected(tab'[e], rooms'[tab[e].room], up'[e], down'[e])
    <2> SUFFICES ASSUME NEW e \in Clients, tab[e].room # 0
                 PROVE  Connected(tab'[e], rooms[tab[e].room], up'[e], down'[e])
      OBVIOUS
    <2>1. CASE e = c
      BY <1>2, <2>1
    <2>2. CASE e # c
      <3>1. Connected(tab[e], rooms[tab[e].room], up[e], down[e])
        BY DEF Sound, TabsSound
      <3> QED
        BY <1>2, <2>2, <3>1
    <2> QED
      BY <2>1, <2>2
  <1> QED
    BY <1>3, <1>4, <1>5, SoundFrame

\* The room of somebody in one.
LEMMA RoomHere ==
    ASSUME CollabInv, Sound, NEW c \in Clients,
           tab[c].live \/ up[c] # <<>> \/ down[c] # <<>>,
           NEW room, room = rooms[tab[c].room]
    PROVE  /\ tab[c].room # 0 /\ tab[c].room \in DOMAIN rooms
           /\ DOMAIN tab[c] = TabFields
           /\ Connected(tab[c], room, up[c], down[c])
           /\ WellKept(room) /\ RoomSound(room)
           /\ room.text \in Text /\ room.history \in Seq(Operation)
           /\ room.base \in Nat /\ Revision(room) \in Nat
           /\ c \in Members(room)
           /\ tab = [tab EXCEPT ![c] = tab[c]] /\ up = [up EXCEPT ![c] = up[c]]
           /\ down = [down EXCEPT ![c] = down[c]]
  <1>1. TabsKept /\ RoomsKept
    BY DEF CollabInv
  <1>2. tab[c].room # 0
    BY <1>1, InRoom
  <1>3. tab[c].room \in DOMAIN rooms
    BY <1>1, <1>2, LenProperties DEF TabsKept, RoomsKept
  <1>4. WellKept(room) /\ RoomSound(room) /\ c \in Members(room)
    BY <1>1, <1>3 DEF RoomsKept, Sound, RoomsSound
  <1>5. Connected(tab[c], room, up[c], down[c])
    BY <1>2 DEF Sound, TabsSound
  <1>6. /\ room.text \in Text /\ room.history \in Seq(Operation)
        /\ room.base \in Nat
    BY <1>4 DEF WellKept, RoomSound
  <1>7. Revision(room) \in Nat
    BY <1>4, LenProperties DEF WellKept, Revision
  <1>8. /\ tab = [tab EXCEPT ![c] = tab[c]] /\ up = [up EXCEPT ![c] = up[c]]
        /\ down = [down EXCEPT ![c] = down[c]] /\ DOMAIN tab[c] = TabFields
    BY <1>1 DEF TabsKept
  <1> QED
    BY <1>2, <1>3, <1>4, <1>5, <1>6, <1>7, <1>8

\* Nobody moves: the disk is as it was.
LEMMA DiskSame ==
    ASSUME CollabInv, Sound, file' = file, disk' = disk,
           \A d \in Clients : tab'[d].room = tab[d].room
    PROVE  DiskSound'
  BY DiskSoundStays DEF CollabInv, Sound

----------------------------------------------------------------------------
(* The steps, one group after the other.                                   *)

\* An edit.
LEMMA EditSound ==
    ASSUME CollabInv, Sound, NEW c \in Clients, Edit(c)
    PROVE  Sound'
  <1> DEFINE t == tab[c]
             room == rooms[t.room]
             u == up[c]
             d == down[c]
  <1>1. /\ t.live /\ rooms' = rooms /\ byRoom' = byRoom /\ file' = file
        /\ disk' = disk /\ down' = down
    BY DEF Edit, roomVars, diskVars
  <1>2. /\ t.room # 0 /\ t.room \in DOMAIN rooms
        /\ DOMAIN t = TabFields
        /\ Connected(t, room, u, d)
        /\ room.history \in Seq(Operation) /\ room.base \in Nat
        /\ up = [up EXCEPT ![c] = u]
        /\ down = [down EXCEPT ![c] = d]
    BY <1>1, RoomHere
  <1>3. Len(t.text) \in Nat
    <2>1. PICK v, w : Agreed(t, room, u, d, v, w)
      BY <1>2 DEF Connected
    <2> QED
      BY <1>1, <2>1, ShownText DEF Agreed
  <1>4. PICK e \in Edits(c, Len(t.text)) :
            /\ tab' = [tab EXCEPT ![c] = ApplyLocal(t, e.operation)]
            /\ \/ t.outstanding # None /\ up' = up
               \/ /\ t.outstanding = None
                  /\ \E caret \in {e.caret, None} :
                         up' = [up EXCEPT ![c] = Append(u,
                                   OpMessage(t.revision, e.operation, caret))]
    BY DEF Edit, SendOp
  <1>5. /\ e.operation \in Operation /\ baseLength(e.operation) = Len(t.text)
        /\ e.caret \in Nat
    BY <1>3, EditFits
  <1> DEFINE s == ApplyLocal(t, e.operation)
             m(caret) == OpMessage(t.revision, e.operation, caret)
  <1>6. DOMAIN s = TabFields /\ s.room = t.room
    BY <1>2, TabStays
  <1>7. DiskSound'
    <2>1. \A f \in Clients : tab'[f].room = tab[f].room
      BY <1>4, <1>6 DEF CollabInv, TabsKept
    <2> QED
      BY <1>1, <2>1, DiskSame
  <1>8. CASE t.outstanding = None
    <2>1. PICK caret \in {e.caret, None} :
              up' = [up EXCEPT ![c] = Append(u, m(caret))]
      BY <1>4, <1>8
    <2>2. caret \in Nat \cup {None}
      BY <1>5
    <2>3. Connected(s, room, Append(u, m(caret)), d)
      BY <1>1, <1>2, <1>5, <1>8, <2>2, EditSent
    <2>4. tab' = [tab EXCEPT ![c] = s] /\ down' = [down EXCEPT ![c] = d]
      BY <1>1, <1>2, <1>4
    <2> HIDE DEF s, m
    <2> QED
      BY <1>1, <1>2, <1>6, <1>7, <2>1, <2>3, <2>4, OneSound
  <1>9. CASE t.outstanding # None
    <2>1. Connected(s, room, u, d)
      BY <1>1, <1>2, <1>5, <1>9, EditKept
    <2>2. up' = [up EXCEPT ![c] = u]
      BY <1>2, <1>4, <1>9
    <2>3. tab' = [tab EXCEPT ![c] = s] /\ down' = [down EXCEPT ![c] = d]
      BY <1>1, <1>2, <1>4
    <2> HIDE DEF s
    <2> QED
      BY <1>1, <1>2, <1>6, <1>7, <2>1, <2>2, <2>3, OneSound
  <1> QED
    BY <1>8, <1>9

\* A caret, or a save.
LEMMA ReportSound ==
    ASSUME CollabInv, Sound, NEW c \in Clients, Report(c) \/ AskSave(c)
    PROVE  Sound'
  <1> DEFINE t == tab[c]
             room == rooms[t.room]
             u == up[c]
             d == down[c]
  <1>1. /\ t.live /\ rooms' = rooms /\ byRoom' = byRoom /\ file' = file
        /\ disk' = disk /\ down' = down /\ tab' = tab
    BY DEF Report, AskSave, roomVars, diskVars
  <1>2. /\ t.room # 0 /\ DOMAIN t = TabFields
        /\ Connected(t, room, u, d)
        /\ tab = [tab EXCEPT ![c] = t] /\ down = [down EXCEPT ![c] = d]
    BY <1>1, RoomHere
  <1>3. Len(t.text) \in Nat
    <2>1. PICK v, w : Agreed(t, room, u, d, v, w)
      BY <1>2 DEF Connected
    <2> QED
      BY <1>1, <2>1, ShownText DEF Agreed
  <1>4. PICK m : /\ up' = [up EXCEPT ![c] = Append(u, m)]
                 /\ m.type \in {"selection", "save"}
                 /\ m.type = "selection" => m.caret \in Nat
    <2>1. CASE Report(c)
      <3> DEFINE m == [type |-> "selection", revision |-> t.revision,
                       caret |-> Len(t.text)]
      <3>1. up' = [up EXCEPT ![c] = Append(u, m)]
        BY <2>1 DEF Report
      <3>2. m.type = "selection" /\ m.caret \in Nat
        BY <1>3
      <3> HIDE DEF m
      <3> QED
        BY <3>1, <3>2
    <2>2. CASE AskSave(c)
      <3> DEFINE m == [type |-> "save"]
      <3>1. up' = [up EXCEPT ![c] = Append(u, m)]
        BY <2>2 DEF AskSave
      <3>2. m.type = "save"
        OBVIOUS
      <3> HIDE DEF m
      <3> QED
        BY <3>1, <3>2
    <2> QED
      BY <2>1, <2>2
  <1>5. Connected(t, room, Append(u, m), d)
    BY <1>1, <1>2, <1>4, ReportConnected
  <1>6. DiskSound'
    BY <1>1, DiskSame
  <1>7. tab' = [tab EXCEPT ![c] = t] /\ down' = [down EXCEPT ![c] = d]
    BY <1>1, <1>2
  <1>8. rooms' = rooms /\ byRoom' = byRoom /\ t.room # 0 /\ DOMAIN t = TabFields
    BY <1>1, <1>2
  <1> DEFINE r == Append(u, m)
  <1>9. Connected(t, rooms[tab[c].room], r, d) /\ up' = [up EXCEPT ![c] = r]
    BY <1>4, <1>5
  <1> HIDE DEF r
  <1> QED
    BY <1>6, <1>7, <1>8, <1>9, OneSound

\* The browser takes a message.
LEMMA BrowserSound ==
    ASSUME CollabInv, Sound, NEW c \in Clients, Browser(c)
    PROVE  Sound'
  <1> DEFINE t == tab[c]
             room == rooms[t.room]
             u == up[c]
             d == down[c]
  <1>1. /\ d # <<>> /\ rooms' = rooms /\ byRoom' = byRoom /\ file' = file
        /\ disk' = disk
    BY DEF Browser, TakeWelcome, TakeAck, TakeOp, TakeMisfit, TakeError, Took,
           roomVars, diskVars
  <1>2. /\ t.room # 0 /\ DOMAIN t = TabFields
        /\ Connected(t, room, u, d)
        /\ room.history \in Seq(Operation) /\ room.base \in Nat
        /\ tab = [tab EXCEPT ![c] = t] /\ up = [up EXCEPT ![c] = u]
    BY <1>1, RoomHere
  <1>3. down' = [down EXCEPT ![c] = Tail(d)]
    BY DEF Browser, TakeWelcome, TakeAck, TakeOp, TakeMisfit, TakeError, Took
  <1>4. ASSUME NEW s, DOMAIN s = TabFields, s.room = t.room, NEW q,
               tab' = [tab EXCEPT ![c] = s], up' = [up EXCEPT ![c] = q],
               Connected(s, room, q, Tail(d))
        PROVE  Sound'
    <2>1. \A f \in Clients : tab'[f].room = tab[f].room
      BY <1>4 DEF CollabInv, TabsKept
    <2>2. DiskSound'
      BY <1>1, <2>1, DiskSame
    <2> QED
      BY <1>1, <1>2, <1>3, <1>4, <2>2, OneSound
  <1>5. CASE TakeWelcome(c)
    <2> DEFINE s == Reset(t, Head(d))
    <2>1. DOMAIN s = TabFields /\ s.room = t.room
      BY <1>2, TabStays
    <2>2. Head(d).type = "welcome" /\ tab' = [tab EXCEPT ![c] = s] /\ up' = up
      BY <1>5 DEF TakeWelcome, Took
    <2>3. Connected(s, room, u, Tail(d))
      BY <1>1, <1>2, <2>2, WelcomeTaken
    <2> HIDE DEF s
    <2>4. up' = [up EXCEPT ![c] = u]
      BY <1>2, <2>2
    <2> QED
      BY <1>4, <2>1, <2>2, <2>3, <2>4
  <1>6. CASE TakeAck(c)
    <2> DEFINE s == Acknowledge(t)
               m(caret) == OpMessage(s.revision, t.buffer, caret)
    <2>1. DOMAIN s = TabFields /\ s.room = t.room
      BY <1>2, TabStays
    <2>2. Head(d).type = "ack" /\ tab' = [tab EXCEPT ![c] = s]
      BY <1>6 DEF TakeAck, Took
    <2>3. tab'[c] = s
      BY <2>2 DEF CollabInv, TabsKept
    <2>4. \/ t.buffer = None /\ up' = up
          \/ /\ t.buffer # None
             /\ \E caret \in {Len(t.text), None} :
                    up' = [up EXCEPT ![c] = Append(u, m(caret))]
      <3>1. \/ t.buffer = None /\ up' = up
            \/ /\ t.buffer # None
               /\ \E caret \in {Len(t.text), None} :
                      up' = [up EXCEPT ![c] = Append(u,
                                OpMessage(tab'[c].revision, t.buffer, caret))]
        BY <1>6 DEF TakeAck, SendOp
      <3>2. tab'[c].revision = s.revision
        BY <2>3
      <3> HIDE DEF s
      <3> QED
        BY <3>1, <3>2
    <2>5. CASE t.buffer = None
      <3>1. Connected(s, room, u, Tail(d))
        BY <1>1, <1>2, <2>2, <2>5, AckTaken
      <3> HIDE DEF s, m
      <3>2. up' = [up EXCEPT ![c] = u]
        BY <1>2, <2>4, <2>5
      <3> QED
        BY <1>4, <2>1, <2>2, <3>1, <3>2
    <2>6. CASE t.buffer # None
      <3>1. PICK caret \in {Len(t.text), None} :
                up' = [up EXCEPT ![c] = Append(u, m(caret))]
        BY <2>4, <2>6
      <3>2. caret \in Nat \cup {None}
        <4>1. t.live
          BY <1>1, <1>2, <2>2, AnswerTaken
        <4>2. PICK v, w : Agreed(t, room, u, d, v, w)
          BY <1>2 DEF Connected
        <4>3. Len(t.text) \in Nat
          BY <4>1, <4>2, ShownText DEF Agreed
        <4> QED
          BY <4>3
      <3>3. Connected(s, room, Append(u, m(caret)), Tail(d))
        BY <1>1, <1>2, <2>2, <2>6, <3>2, AckSends
      <3> HIDE DEF s, m
      <3> QED
        BY <1>4, <2>1, <2>2, <3>1, <3>3
    <2> QED
      BY <2>5, <2>6
  <1>7. CASE TakeOp(c)
    <2> DEFINE s == ApplyServer(t, Head(d).operation)
    <2>1. DOMAIN s = TabFields /\ s.room = t.room
      BY <1>2, TabStays
    <2>2. Head(d).type = "op" /\ tab' = [tab EXCEPT ![c] = s] /\ up' = up
      BY <1>7 DEF TakeOp, Took
    <2>3. Connected(s, room, u, Tail(d))
      BY <1>1, <1>2, <2>2, OpTaken
    <2> HIDE DEF s
    <2>4. up' = [up EXCEPT ![c] = u]
      BY <1>2, <2>2
    <2> QED
      BY <1>4, <2>1, <2>2, <2>3, <2>4
  <1>8. CASE TakeError(c)
    <2> DEFINE s == [t EXCEPT !.refused = TRUE]
               q == Append(u, [type |-> "resync"])
    <2>1. DOMAIN s = TabFields /\ s.room = t.room
      BY <1>2, TabStays
    <2>2. /\ Head(d).type = "error"
          /\ \/ up' = [up EXCEPT ![c] = q] /\ tab' = tab
             \/ up' = up /\ tab' = [tab EXCEPT ![c] = s]
      BY <1>8 DEF TakeError, Took, Resync
    <2>3. Connected(t, room, q, Tail(d)) /\ Connected(s, room, u, Tail(d))
      BY <1>1, <1>2, <2>2, ErrorTaken
    <2> HIDE DEF s, q
    <2>4. CASE up' = [up EXCEPT ![c] = q] /\ tab' = tab
      <3>1. tab' = [tab EXCEPT ![c] = t]
        BY <1>2, <2>4
      <3> QED
        BY <1>2, <1>4, <2>3, <2>4, <3>1
    <2>5. CASE up' = up /\ tab' = [tab EXCEPT ![c] = s]
      <3>1. up' = [up EXCEPT ![c] = u]
        BY <1>2, <2>5
      <3> QED
        BY <1>4, <2>1, <2>3, <2>5, <3>1
    <2> QED
      BY <2>2, <2>4, <2>5
  <1>9. ~TakeMisfit(c)
    <2> SUFFICES ASSUME Head(d).type = "op"
                 PROVE  Fits(t, Head(d).operation)
      BY DEF TakeMisfit, Took
    <2> QED
      BY <1>1, <1>2, OpTaken
  <1> QED
    BY <1>5, <1>6, <1>7, <1>8, <1>9 DEF Browser

\* The hub answers one socket: a refusal, a snapshot, or a save it begins.
LEMMA AnswerSound ==
    ASSUME CollabInv, Sound, NEW c \in Clients,
           RefuseOp(c) \/ ReceiveResync(c) \/ ReceiveSave(c)
    PROVE  Sound'
  <1> DEFINE t == tab[c]
             room == rooms[t.room]
             u == up[c]
             d == down[c]
  <1>1. /\ u # <<>> /\ rooms' = rooms /\ byRoom' = byRoom /\ file' = file
        /\ tab' = tab /\ up' = [up EXCEPT ![c] = Tail(u)]
    BY DEF RefuseOp, ReceiveResync, ReceiveSave, Next1, roomVars, diskVars
  <1>2. /\ t.room # 0 /\ t.room \in DOMAIN rooms /\ DOMAIN t = TabFields
        /\ Connected(t, room, u, d)
        /\ room.text \in Text /\ Revision(room) \in Nat
        /\ tab = [tab EXCEPT ![c] = t] /\ down = [down EXCEPT ![c] = d]
    BY <1>1, RoomHere
  <1>3. tab' = [tab EXCEPT ![c] = t]
    BY <1>1, <1>2
  <1>4. DiskSound /\ DiskKept /\ TabsKept
    BY DEF CollabInv, Sound
  <1>5. \A m : Sent(down, {c}, m) = [down EXCEPT ![c] = Append(d, m)]
    BY <1>4 DEF Sent, TabsKept
  <1>6. ASSUME NEW m, m.type = "error" \/ m = Welcome(room), Asks(Head(u)),
               down' = Sent(down, {c}, m), disk' = disk
        PROVE  Sound'
    <2>1. Connected(t, room, Tail(u), Append(d, m))
      BY <1>1, <1>2, <1>6, AnswerConnected
    <2>2. down' = [down EXCEPT ![c] = Append(d, m)]
      BY <1>5, <1>6
    <2>3. DiskSound'
      BY <1>1, <1>6, DiskSame
    <2> QED
      BY <1>1, <1>2, <1>3, <2>1, <2>2, <2>3, OneSound
  <1>7. CASE RefuseOp(c)
    <2>1. PICK m : m.type = "error" /\ down' = Sent(down, {c}, m)
      <3> DEFINE m == [type |-> "error",
                       fatal |-> ~TooLarge(RoomOf(c), Head(u).operation)]
      <3>1. down' = Sent(down, {c}, m)
        BY <1>7 DEF RefuseOp
      <3>2. m.type = "error"
        OBVIOUS
      <3> HIDE DEF m
      <3> QED
        BY <3>1, <3>2
    <2>2. Asks(Head(u)) /\ disk' = disk
      BY <1>7 DEF RefuseOp, Next1, Asks, diskVars
    <2> QED
      BY <1>6, <2>1, <2>2
  <1>8. CASE ReceiveResync(c)
    <2>1. down' = Sent(down, {c}, Welcome(room))
      BY <1>8 DEF ReceiveResync, RoomOf
    <2>2. Asks(Head(u)) /\ disk' = disk
      BY <1>8 DEF ReceiveResync, Next1, Asks, diskVars
    <2> QED
      BY <1>6, <2>1, <2>2
  <1>9. CASE ReceiveSave(c)
    <2> DEFINE w == Write(c, t.room)
    <2>1. disk' = Append(disk, w) /\ down' = down /\ Head(u).type = "save"
      BY <1>9 DEF ReceiveSave, Next1
    <2>2. w.type = "write" /\ w.content = room.text
      BY DEF Write
    <2> HIDE DEF w
    <2>3. DiskSound'
      BY <1>1, <1>2, <1>4, <2>1, <2>2, DiskSoundAsked
    <2>4. Connected(t, room, Tail(u), d)
      BY <1>1, <1>2, <2>1, QuietTaken
    <2>5. down' = [down EXCEPT ![c] = d]
      BY <1>2, <2>1
    <2> QED
      BY <1>1, <1>2, <1>3, <2>3, <2>4, <2>5, OneSound
  <1> QED
    BY <1>7, <1>8, <1>9

\* One room changes, but neither its document nor its participants.
LEMMA SameDocuments ==
    ASSUME Sound, NEW r \in DOMAIN rooms, NEW e, RoomSound(e),
           Members(e) = Members(rooms[r]), e.text = rooms[r].text,
           e.history = rooms[r].history, e.base = rooms[r].base,
           rooms' = [rooms EXCEPT ![r] = e]
    PROVE  /\ DOMAIN rooms' = DOMAIN rooms
           /\ \A q \in DOMAIN rooms :
                  RoomSound(rooms'[q]) /\ Members(rooms'[q]) = Members(rooms[q])
           /\ \A q \in DOMAIN rooms : \A t, u, d :
                  Connected(t, rooms[q], u, d) => Connected(t, rooms'[q], u, d)
  <1>1. /\ DOMAIN rooms' = DOMAIN rooms /\ rooms'[r] = e
        /\ \A q \in DOMAIN rooms : q # r => rooms'[q] = rooms[q]
    OBVIOUS
  <1>2. \A q \in DOMAIN rooms : RoomSound(rooms[q])
    BY DEF Sound, RoomsSound
  <1>3. \A t, u, d : Connected(t, rooms[r], u, d) => Connected(t, e, u, d)
    BY SameDocument
  <1>4. \A q \in DOMAIN rooms : (rooms'[q] = e /\ q = r) \/ rooms'[q] = rooms[q]
    BY <1>1
  <1>5. \A q \in DOMAIN rooms :
            RoomSound(rooms'[q]) /\ Members(rooms'[q]) = Members(rooms[q])
    BY <1>2, <1>4
  <1>6. \A q \in DOMAIN rooms : \A t, u, d :
            Connected(t, rooms[q], u, d) => Connected(t, rooms'[q], u, d)
    BY <1>3, <1>4
  <1> QED
    BY <1>1, <1>5, <1>6

\* Everybody who is in a room is connected to it.
LEMMA AllConnected ==
    ASSUME CollabInv, Sound, NEW c \in Clients, tab[c].room # 0
    PROVE  /\ tab[c].room \in DOMAIN rooms
           /\ Connected(tab[c], rooms[tab[c].room], up[c], down[c])
  <1>1. TabsKept /\ RoomsKept
    BY DEF CollabInv
  <1> QED
    BY <1>1, LenProperties DEF TabsKept, RoomsKept, Sound, TabsSound

\* A caret is carried over what landed since.
LEMMA SelectionSound ==
    ASSUME CollabInv, ~split, Sound, NEW c \in Clients, ReceiveSelection(c)
    PROVE  Sound'
  <1> DEFINE t == tab[c]
             room == rooms[t.room]
             u == up[c]
             d == down[c]
             m == Head(u)
  <1>1. /\ u # <<>> /\ m.type = "selection" /\ byRoom' = byRoom /\ file' = file
        /\ disk' = disk /\ tab' = tab /\ down' = down
        /\ up' = [up EXCEPT ![c] = Tail(u)]
    BY DEF ReceiveSelection, Next1, diskVars
  <1>2. /\ t.room # 0 /\ t.room \in DOMAIN rooms /\ DOMAIN t = TabFields
        /\ Connected(t, room, u, d) /\ WellKept(room) /\ RoomSound(room)
        /\ tab = [tab EXCEPT ![c] = t] /\ down = [down EXCEPT ![c] = d]
    BY <1>1, RoomHere
  <1>3. Connected(t, room, Tail(u), d) /\ m.caret \in Nat
    BY <1>1, <1>2, QuietTaken
  <1>4. DiskSound'
    BY <1>1, DiskSame
  <1>5. CASE ~InWindow(room, m.revision)
    <2>1. rooms' = rooms
      BY <1>5 DEF ReceiveSelection, RoomOf
    <2>2. tab' = [tab EXCEPT ![c] = t] /\ down' = [down EXCEPT ![c] = d]
      BY <1>1, <1>2
    <2> QED
      BY <1>1, <1>2, <1>3, <1>4, <2>1, <2>2, OneSound
  <1>6. CASE InWindow(room, m.revision)
    <2> DEFINE e == Placed(room, c, m)
    <2>1. rooms' = [rooms EXCEPT ![t.room] = e]
      BY <1>6 DEF ReceiveSelection, RoomOf
    <2>2. /\ RoomSound(e)
          /\ e.text = room.text /\ e.history = room.history
          /\ e.base = room.base /\ Members(e) = Members(room)
      BY <1>2, <1>3, <1>6, PlacedSound
    <2> HIDE DEF e
    <2>3. /\ DOMAIN rooms' = DOMAIN rooms
          /\ \A q \in DOMAIN rooms :
                 RoomSound(rooms'[q]) /\ Members(rooms'[q]) = Members(rooms[q])
          /\ \A q \in DOMAIN rooms : \A s, v, w :
                 Connected(s, rooms[q], v, w) => Connected(s, rooms'[q], v, w)
      BY <1>2, <2>1, <2>2, SameDocuments
    <2>4. Talks
      <3>1. ReceiveSelection(c) => Hub(c)
        BY DEF Hub
      <3> QED
        BY <3>1, HubTalks DEF CollabInv
    <2>5. ASSUME NEW f \in Clients, tab[f].room # 0
          PROVE  Connected(tab'[f], rooms'[tab[f].room], up'[f], down'[f])
      <3>1. tab[f].room \in DOMAIN rooms
            /\ Connected(tab[f], rooms[tab[f].room], up[f], down[f])
        BY <2>5, AllConnected
      <3>2. CASE f = c
        <4>1. up'[c] = Tail(u)
          BY <1>1 DEF CollabInv, TabsKept
        <4> QED
          BY <1>1, <1>2, <1>3, <2>3, <3>2, <4>1
      <3>3. CASE f # c
        <4>1. up'[f] = up[f]
          BY <1>1, <3>3 DEF CollabInv, TabsKept
        <4> QED
          BY <1>1, <2>3, <3>1, <4>1
      <3> QED
        BY <3>2, <3>3
    <2> QED
      BY <1>1, <1>4, <2>3, <2>4, <2>5, SoundFrame
  <1> QED
    BY <1>5, <1>6

\* An operation is applied, acknowledged and broadcast: to its author the
\* acknowledgement, to everybody else of the room the operation.
LEMMA ReceiveOpSound ==
    ASSUME CollabInv, ~split, Sound, NEW c \in Clients, ReceiveOp(c)
    PROVE  Sound'
  <1> DEFINE t == tab[c]
             r == t.room
             room == rooms[r]
             u == up[c]
             m == Head(u)
             new == Received(room, c, m)
             ack == [type |-> "ack"]
             applied == [type |-> "op", operation |-> Last(new.history)]
  <1>1. /\ u # <<>> /\ m.type = "op" /\ byRoom' = byRoom /\ file' = file
        /\ disk' = disk /\ tab' = tab
        /\ up' = [up EXCEPT ![c] = Tail(u)]
        /\ rooms' = [rooms EXCEPT ![r] = new]
        /\ down' = Sent(Sent(down, {c}, ack), byRoom \ {c}, applied)
        /\ InWindow(room, m.revision)
    BY DEF ReceiveOp, Next1, diskVars, RoomOf, Rebasable
  <1>2. /\ r # 0 /\ r \in DOMAIN rooms
        /\ Connected(t, room, u, down[c]) /\ WellKept(room) /\ RoomSound(room)
        /\ room.text \in Text /\ room.history \in Seq(Operation)
        /\ room.base \in Nat /\ c \in Members(room)
    BY <1>1, RoomHere
  <1>3. PICK mine : Pending(room, m, mine) /\ baseLength(mine) = Len(room.text)
    BY <1>1, <1>2, HeadPending
  <1>4. /\ Rebased(room, m.revision, m.operation) = mine
        /\ RoomSound(new)
        /\ Last(new.history) = mine
        /\ \E x : Grown(room, mine, new, x)
    BY <1>1, <1>2, <1>3, ReceivedSound
  <1>5. Members(new) = Members(room)
    BY <1>2, ReceivedAdvances
  <1>6. PICK x : Grown(room, mine, new, x)
    BY <1>4
  <1>7. /\ ack.type = "ack" /\ applied.type = "op" /\ applied.operation = mine
    BY <1>4
  <1> HIDE DEF new, ack, applied
  <1>8. TabsKept /\ Gathered /\ Reached
    BY DEF CollabInv
  <1>9. /\ down'[c] = Append(down[c], ack)
        /\ \A f \in byRoom \ {c} : down'[f] = Append(down[f], applied)
    BY <1>1, <1>8 DEF Sent, Gathered
  <1>10. ASSUME NEW f \in Clients, tab[f].room # 0
         PROVE  Connected(tab'[f], rooms'[tab[f].room], up'[f], down'[f])
    <2>1. f \in byRoom /\ c \in byRoom /\ tab[f].room = r
      BY <1>2, <1>8, <1>10 DEF Gathered
    <2>2. rooms'[r] = new
      BY <1>1, <1>2
    <2>3. CASE f = c
      <3>1. Connected(t, new, Tail(u), Append(down[c], ack))
        BY <1>1, <1>2, <1>4, <1>6, <1>7, AckedConnected
      <3>2. up'[c] = Tail(u)
        BY <1>1, <1>8 DEF TabsKept
      <3> QED
        BY <1>1, <1>9, <2>2, <2>3, <3>1, <3>2
    <2>4. CASE f # c
      <3>1. Connected(tab[f], room, up[f], down[f])
        BY <1>10, <2>1, AllConnected
      <3>2. Connected(tab[f], new, up[f], Append(down[f], applied))
        BY <1>2, <1>3, <1>6, <1>7, <3>1, BroadcastConnected
      <3>3. up'[f] = up[f] /\ down'[f] = Append(down[f], applied)
        BY <1>1, <1>8, <1>9, <2>1, <2>4 DEF TabsKept
      <3> QED
        BY <1>1, <2>1, <2>2, <3>2, <3>3
    <2> QED
      BY <2>3, <2>4
  <1>11. Talks
    <2>1. ReceiveOp(c) => Hub(c)
      BY DEF Hub
    <2> QED
      BY <1>8, <2>1, HubTalks
  <1>12. /\ DOMAIN rooms' = DOMAIN rooms
         /\ \A q \in DOMAIN rooms :
                RoomSound(rooms'[q]) /\ Members(rooms'[q]) = Members(rooms[q])
    <2>1. \A q \in DOMAIN rooms : RoomSound(rooms[q])
      BY DEF Sound, RoomsSound
    <2>2. \A q \in DOMAIN rooms : (rooms'[q] = new /\ q = r) \/ rooms'[q] = rooms[q]
      BY <1>1
    <2> QED
      BY <1>1, <1>4, <1>5, <2>1, <2>2
  <1>13. DiskSound'
    BY <1>1, DiskSame
  <1> QED
    BY <1>1, <1>10, <1>11, <1>12, <1>13, SoundFrame

\* The disk works, and a room may be marked saved: nobody's text changes.
LEMMA DiskStepSound ==
    ASSUME CollabInv, Sound, tab' = tab, up' = up, down' = down,
           byRoom' = byRoom, DiskSound',
           \/ rooms' = rooms
           \/ \E r \in DOMAIN rooms : \E x : rooms' = [rooms EXCEPT ![r].saved = x]
    PROVE  Sound'
  <1>1. Talks
    BY DEF Talks, CollabInv, TabsKept
  <1>2. CASE rooms' = rooms
    <2>1. \A d \in Clients : tab[d].room # 0 =>
              Connected(tab'[d], rooms'[tab[d].room], up'[d], down'[d])
      BY <1>2 DEF Sound, TabsSound
    <2>2. /\ DOMAIN rooms' = DOMAIN rooms
          /\ \A q \in DOMAIN rooms :
                RoomSound(rooms'[q]) /\ Members(rooms'[q]) = Members(rooms[q])
      BY <1>2 DEF Sound, RoomsSound
    <2> QED
      BY <1>1, <2>1, <2>2, SoundFrame
  <1>3. ASSUME NEW r \in DOMAIN rooms, NEW x, rooms' = [rooms EXCEPT ![r].saved = x]
        PROVE  Sound'
    <2> DEFINE room == rooms[r]
               e == [room EXCEPT !.saved = x]
    <2>1. DOMAIN room = RoomFields /\ RoomSound(room)
      BY DEF CollabInv, RoomsKept, WellKept, Sound, RoomsSound
    <2>2. /\ e.text = room.text /\ e.history = room.history
          /\ e.base = room.base /\ e.caret = room.caret /\ e.blind = room.blind
      BY <2>1 DEF RoomFields
    <2>3. rooms' = [rooms EXCEPT ![r] = e]
      BY <1>3
    <2> HIDE DEF e
    <2>4. RoomSound(e) /\ Members(e) = Members(room)
      BY <2>1, <2>2 DEF RoomSound, Members
    <2>5. /\ DOMAIN rooms' = DOMAIN rooms
          /\ \A q \in DOMAIN rooms :
                 RoomSound(rooms'[q]) /\ Members(rooms'[q]) = Members(rooms[q])
          /\ \A q \in DOMAIN rooms : \A t, u, d :
                 Connected(t, rooms[q], u, d) => Connected(t, rooms'[q], u, d)
      BY <2>2, <2>3, <2>4, SameDocuments
    <2>6. ASSUME NEW d \in Clients, tab[d].room # 0
          PROVE  Connected(tab'[d], rooms'[tab[d].room], up'[d], down'[d])
      <3>1. tab[d].room \in DOMAIN rooms
            /\ Connected(tab[d], rooms[tab[d].room], up[d], down[d])
        BY <2>6, AllConnected
      <3> QED
        BY <2>5, <3>1
    <2> QED
      BY <1>1, <2>5, <2>6, SoundFrame
  <1> QED
    BY <1>2, <1>3

\* The file is asked for, a write begins or ends, or a registration is dropped.
LEMMA DiskStepsSound ==
    ASSUME CollabInv, Sound,
           \/ \E c \in Clients : OpenFile(c)
           \/ UpgradeRejected \/ SaveWritten \/ FlushWritten \/ WriteFails
           \/ OutsideWrite \/ Flush \/ DropClean
    PROVE  Sound'
  <1>1. tab' = tab /\ up' = up /\ down' = down /\ byRoom' = byRoom
    BY DEF OpenFile, UpgradeRejected, SaveWritten, FlushWritten, WriteFails,
           OutsideWrite, Flush, DropClean, tabVars, roomVars
  <1>2. DiskSound /\ DiskKept /\ RoomsKept /\ file \in Text
    BY DEF CollabInv, Sound, DiskSound
  <1>3. ASSUME NEW c \in Clients, OpenFile(c)
        PROVE  Sound'
    <2> DEFINE w == [type |-> "read", by |-> c]
    <2>1. /\ disk' = Append(disk, w) /\ file' = file /\ rooms' = rooms
          /\ tab[c].room = 0 /\ ~Opening(c)
      BY <1>3 DEF OpenFile, MayOpen, roomVars
    <2>2. w.type = "read" /\ w.by = c
      OBVIOUS
    <2> HIDE DEF w
    <2>3. DiskSound'
      BY <1>1, <1>2, <2>1, <2>2, DiskSoundAsked
    <2> QED
      BY <1>1, <2>1, <2>3, DiskStepSound
  <1>4. CASE Flush
    <2> DEFINE w == Write(None, registry)
    <2>1. /\ disk' = Append(disk, w) /\ file' = file /\ rooms' = rooms
          /\ registry # 0
      BY <1>4 DEF Flush, Idle, roomVars
    <2>2. w.type = "write" /\ w.content = rooms[registry].text
      BY DEF Write
    <2>3. registry \in DOMAIN rooms
      BY <1>2, <2>1, LenProperties DEF RoomsKept
    <2>4. w.content \in Text
      BY <2>2, <2>3 DEF Sound, RoomsSound, RoomSound
    <2> HIDE DEF w
    <2>5. DiskSound'
      BY <1>1, <1>2, <2>1, <2>2, <2>4, DiskSoundAsked
    <2> QED
      BY <1>1, <2>1, <2>5, DiskStepSound
  <1>5. CASE DropClean
    <2>1. rooms' = rooms /\ disk' = disk /\ file' = file
      BY <1>5 DEF DropClean, diskVars
    <2>2. DiskSound'
      BY <1>1, <2>1, DiskSame
    <2> QED
      BY <1>1, <2>1, <2>2, DiskStepSound
  <1>6. CASE UpgradeRejected \/ WriteFails
    <2>1. rooms' = rooms /\ disk # <<>> /\ disk' = Tail(disk) /\ file' = file
      BY <1>6 DEF UpgradeRejected, WriteFails, roomVars
    <2>2. DiskSound'
      BY <1>1, <1>2, <2>1, DiskSoundTail
    <2> QED
      BY <1>1, <2>1, <2>2, DiskStepSound
  <1>7. CASE SaveWritten \/ FlushWritten
    <2> DEFINE w == Head(disk)
    <2>1. /\ disk # <<>> /\ w.type = "write" /\ disk' = Tail(disk)
          /\ file' = w.content
          /\ \E x : rooms' = [rooms EXCEPT ![w.room].saved = x]
      BY <1>7 DEF SaveWritten, FlushWritten
    <2>2. 1 \in DOMAIN disk /\ w = disk[1]
      BY <1>2, <2>1, OwnTail DEF DiskKept
    <2>3. w.content \in Text /\ w.room \in DOMAIN rooms
      BY <1>2, <2>1, <2>2 DEF DiskSound, DiskKept, IsText
    <2>4. DiskSound'
      <3>1. file' \in Text
        BY <2>1, <2>3
      <3> QED
        BY <1>1, <1>2, <2>1, <3>1, DiskSoundTail
    <2> QED
      BY <1>1, <2>1, <2>3, <2>4, DiskStepSound
  <1>8. CASE OutsideWrite
    <2>1. rooms' = rooms /\ disk' = disk /\ file' \in Text
      BY <1>8, CollabAssumption DEF OutsideWrite, roomVars
    <2>2. DiskSound'
      BY <1>1, <1>2, <2>1 DEF DiskSound
    <2> QED
      BY <1>1, <2>1, <2>2, DiskStepSound
  <1> QED
    BY <1>3, <1>4, <1>5, <1>6, <1>7, <1>8

\* Somebody leaves.
LEMMA ForgetSound ==
    ASSUME CollabInv, Sound, NEW c \in Clients, Forget(c)
    PROVE  Sound'
  <1> DEFINE r == tab[c].room
             room == rooms[r]
             left == [m \in Members(room) \ {c} |-> room.caret[m]]
             e == Left(room, c)
  <1>1. /\ r # 0 /\ rooms' = [rooms EXCEPT ![r] = e]
        /\ tab' = [tab EXCEPT ![c] = Away]
        /\ up' = [up EXCEPT ![c] = <<>>] /\ down' = [down EXCEPT ![c] = <<>>]
        /\ disk' = disk /\ file' = file
        /\ byRoom' = IF Members(e) = {} THEN {} ELSE byRoom \ {c}
    BY DEF Forget, diskVars
  <1>2. TabsKept /\ RoomsKept /\ DiskKept /\ DiskSound
    BY DEF CollabInv, Sound
  <1>3. r \in DOMAIN rooms
    BY <1>1, AllConnected
  <1>4. /\ DOMAIN room = RoomFields /\ RoomSound(room)
        /\ Members(room) = {d \in Clients : tab[d].room = r}
    BY <1>2, <1>3 DEF RoomsKept, WellKept, Sound, RoomsSound
  <1>5. /\ e.text = room.text /\ e.history = room.history
        /\ e.base = room.base /\ e.caret = left
        /\ e.blind = room.blind \ {c}
    BY <1>4 DEF Left, RoomFields
  <1>6. rooms' = [rooms EXCEPT ![r] = e]
    BY <1>1
  <1>7. Members(e) = Members(room) \ {c}
    BY <1>5 DEF Members
  <1>8. RoomSound(e)
    <2>1. \A m \in Members(e) : /\ e.caret[m] = room.caret[m]
                               /\ m \in Members(room) /\ m # c
      BY <1>5, <1>7
    <2> HIDE DEF e, left
    <2> QED
      BY <1>4, <1>5, <2>1 DEF RoomSound
  <1> HIDE DEF e
  <1>9. /\ tab'[c] = Away
        /\ \A d \in Clients : d # c =>
               tab'[d] = tab[d] /\ up'[d] = up[d] /\ down'[d] = down[d]
    BY <1>1, <1>2 DEF TabsKept
  <1>10. Away.room = 0
    BY DEF Away
  <1>11. /\ DOMAIN rooms' = DOMAIN rooms /\ rooms'[r] = e
         /\ \A q \in DOMAIN rooms : q # r => rooms'[q] = rooms[q]
    BY <1>3, <1>6
  <1>12. RoomsSound'
    <2> SUFFICES ASSUME NEW q \in DOMAIN rooms'
                 PROVE  /\ RoomSound(rooms'[q])
                        /\ Members(rooms'[q]) = {d \in Clients : tab'[d].room = q}
      BY DEF RoomsSound
    <2>1. RoomSound(rooms[q]) /\ Members(rooms[q]) = {d \in Clients : tab[d].room = q}
      BY <1>11 DEF Sound, RoomsSound
    <2>2. q # 0
      BY <1>2, <1>11, LenProperties DEF RoomsKept
    <2>3. CASE q = r
      <3>1. {d \in Clients : tab'[d].room = r}
                = {d \in Clients : tab[d].room = r} \ {c}
        BY <1>1, <1>9, <1>10
      <3> QED
        BY <1>4, <1>7, <1>8, <1>11, <2>3, <3>1
    <2>4. CASE q # r
      <3>1. {d \in Clients : tab'[d].room = q} = {d \in Clients : tab[d].room = q}
        BY <1>9, <1>10, <2>2, <2>4
      <3> QED
        BY <1>11, <2>1, <2>4, <3>1
    <2> QED
      BY <2>3, <2>4
  <1>13. TabsSound'
    <2> SUFFICES ASSUME NEW d \in Clients
                 PROVE  /\ tab'[d].room = 0 => tab'[d] = Away
                        /\ tab'[d].room # 0 =>
                             Connected(tab'[d], rooms'[tab'[d].room], up'[d], down'[d])
      BY DEF TabsSound
    <2>1. CASE d = c
      BY <1>9, <1>10, <2>1
    <2>2. CASE d # c
      <3>1. tab'[d] = tab[d] /\ up'[d] = up[d] /\ down'[d] = down[d]
        BY <1>9, <2>2
      <3>2. tab[d].room = 0 => tab[d] = Away
        BY DEF Sound, TabsSound
      <3>3. ASSUME tab[d].room # 0
            PROVE  Connected(tab[d], rooms'[tab[d].room], up[d], down[d])
        <4>1. tab[d].room \in DOMAIN rooms
              /\ Connected(tab[d], rooms[tab[d].room], up[d], down[d])
          BY <3>3, AllConnected
        <4>2. CASE tab[d].room = r
          BY <1>5, <1>11, <4>1, <4>2, SameDocument
        <4>3. CASE tab[d].room # r
          BY <1>11, <4>1, <4>3
        <4> QED
          BY <4>2, <4>3
      <3> QED
        BY <3>1, <3>2, <3>3
    <2> QED
      BY <2>1, <2>2
  <1>14. DiskSound'
    <2>1. \A d \in Clients : tab[d].room = 0 /\ Opening(d) => tab'[d].room = 0
      BY <1>9, <1>10
    <2> QED
      BY <1>1, <1>2, <2>1, DiskSoundStays
  <1>15. byRoom' \subseteq Clients
    BY <1>1 DEF Sound
  <1> QED
    BY <1>12, <1>13, <1>14, <1>15 DEF Sound

\* Somebody who is in no room joins room r of the rooms rs.
LEMMA JoinSound ==
    ASSUME CollabInv, Sound, NEW c \in Clients, tab[c].room = 0,
           NEW rs, NEW r \in DOMAIN rs, r # 0, Join(c, rs, r),
           \A q \in DOMAIN rs :
               /\ WellKept(rs[q]) /\ RoomSound(rs[q]) /\ q # 0
               /\ Members(rs[q]) = {d \in Clients : tab[d].room = q},
           \A q \in DOMAIN rooms : q \in DOMAIN rs /\ rs[q] = rooms[q],
           DiskSound'
    PROVE  Sound'
  <1> DEFINE room == rs[r]
             caret == WithMember(room.caret, c)
             e == [room EXCEPT !.caret = caret]
             t == [Away EXCEPT !.room = r]
  <1>1. /\ rooms' = [rs EXCEPT ![r].caret = caret]
        /\ byRoom' = byRoom \cup {c}
        /\ tab' = [tab EXCEPT ![c] = t]
        /\ up' = [up EXCEPT ![c] = <<>>]
        /\ down' = [down EXCEPT ![c] = <<Welcome(room)>>]
    BY DEF Join
  <1>2. /\ WellKept(room) /\ RoomSound(room)
        /\ Members(room) = {d \in Clients : tab[d].room = r}
    OBVIOUS
  <1>3. /\ e.text = room.text /\ e.history = room.history
        /\ e.base = room.base /\ e.caret = caret /\ e.blind = room.blind
    BY <1>2 DEF WellKept, RoomFields
  <1>4. rooms' = [rs EXCEPT ![r] = e]
    BY <1>1
  <1>5. /\ DOMAIN caret = Members(room) \cup {c} /\ caret[c] = None
        /\ \A m \in Members(room) : m # c => caret[m] = room.caret[m]
    BY DEF WithMember, Members
  <1>6. t.room = r
    BY DEF Away
  <1> HIDE DEF caret, e
  <1>7. Members(e) = Members(room) \cup {c}
    BY <1>3, <1>5 DEF Members
  <1>8. RoomSound(e)
    <2>1. \A m \in Members(e) : \/ e.caret[m] = None
                                \/ m \in Members(room) /\ e.caret[m] = room.caret[m]
      BY <1>3, <1>5, <1>7
    <2> QED
      BY <1>2, <1>3, <2>1 DEF RoomSound
  <1>9. /\ tab'[c] = t /\ up'[c] = <<>> /\ down'[c] = <<Welcome(room)>>
        /\ \A d \in Clients : d # c =>
               tab'[d] = tab[d] /\ up'[d] = up[d] /\ down'[d] = down[d]
    BY <1>1 DEF CollabInv, TabsKept
  <1>10. /\ DOMAIN rooms' = DOMAIN rs /\ rooms'[r] = e
         /\ \A q \in DOMAIN rs : q # r => rooms'[q] = rs[q]
    BY <1>4
  <1>11. Connected(t, e, <<>>, <<Welcome(room)>>)
    <2>1. room.text \in Text /\ Revision(room) \in Nat
      BY <1>2, LenProperties DEF RoomSound, WellKept, Revision
    <2>2. Connected(t, room, <<>>, <<Welcome(room)>>)
      BY <2>1, JoinConnected
    <2> HIDE DEF t
    <2> QED
      BY <1>3, <2>2, SameDocument
  <1> HIDE DEF t
  <1>12. RoomsSound'
    <2> SUFFICES ASSUME NEW q \in DOMAIN rs
                 PROVE  /\ RoomSound(rooms'[q])
                        /\ Members(rooms'[q]) = {d \in Clients : tab'[d].room = q}
      BY <1>10 DEF RoomsSound
    <2>1. /\ RoomSound(rs[q]) /\ q # 0
          /\ Members(rs[q]) = {d \in Clients : tab[d].room = q}
      OBVIOUS
    <2>2. CASE q = r
      <3>1. {d \in Clients : tab'[d].room = r}
                = {d \in Clients : tab[d].room = r} \cup {c}
        BY <1>6, <1>9
      <3> QED
        BY <1>2, <1>7, <1>8, <1>10, <2>2, <3>1
    <2>3. CASE q # r
      <3>1. {d \in Clients : tab'[d].room = q} = {d \in Clients : tab[d].room = q}
        BY <1>6, <1>9, <2>1, <2>3
      <3> QED
        BY <1>10, <2>1, <2>3, <3>1
    <2> QED
      BY <2>2, <2>3
  <1>13. TabsSound'
    <2> SUFFICES ASSUME NEW d \in Clients
                 PROVE  /\ tab'[d].room = 0 => tab'[d] = Away
                        /\ tab'[d].room # 0 =>
                             Connected(tab'[d], rooms'[tab'[d].room], up'[d], down'[d])
      BY DEF TabsSound
    <2>1. CASE d = c
      BY <1>6, <1>9, <1>10, <1>11, <2>1
    <2>2. CASE d # c
      <3>1. tab'[d] = tab[d] /\ up'[d] = up[d] /\ down'[d] = down[d]
        BY <1>9, <2>2
      <3>2. tab[d].room = 0 => tab[d] = Away
        BY DEF Sound, TabsSound
      <3>3. ASSUME tab[d].room # 0
            PROVE  Connected(tab[d], rooms'[tab[d].room], up[d], down[d])
        <4>1. /\ tab[d].room \in DOMAIN rs
              /\ Connected(tab[d], rs[tab[d].room], up[d], down[d])
          BY <3>3, AllConnected
        <4>2. CASE tab[d].room = r
          BY <1>3, <1>10, <4>1, <4>2, SameDocument
        <4>3. CASE tab[d].room # r
          BY <1>10, <4>1, <4>3
        <4> QED
          BY <4>2, <4>3
      <3> QED
        BY <3>1, <3>2, <3>3
    <2> QED
      BY <2>1, <2>2
  <1>14. byRoom' \subseteq Clients
    BY <1>1 DEF Sound
  <1> QED
    BY <1>12, <1>13, <1>14 DEF Sound

\* The registry's room is joined.
LEMMA OpenRoomSound ==
    ASSUME CollabInv, Sound, NEW c \in Clients, OpenRoom(c)
    PROVE  Sound'
  <1>1. /\ tab[c].room = 0 /\ ~Opening(c) /\ registry # 0
        /\ Join(c, rooms, registry) /\ disk' = disk /\ file' = file
    BY DEF OpenRoom, MayOpen, diskVars
  <1>2. RoomsKept /\ DiskKept /\ DiskSound /\ TabsKept
    BY DEF CollabInv, Sound
  <1>3. registry \in DOMAIN rooms /\ DOMAIN rooms = 1..Len(rooms)
    BY <1>1, <1>2, LenProperties DEF RoomsKept
  <1>4. \A q \in DOMAIN rooms :
            /\ WellKept(rooms[q]) /\ RoomSound(rooms[q]) /\ q # 0
            /\ Members(rooms[q]) = {d \in Clients : tab[d].room = q}
    BY <1>2, <1>3 DEF RoomsKept, Sound, RoomsSound
  <1>5. DiskSound'
    <2>1. \A d \in Clients : d # c => tab'[d] = tab[d]
      BY <1>1, <1>2 DEF Join, TabsKept
    <2>2. \A d \in Clients : tab[d].room = 0 /\ Opening(d) => tab'[d].room = 0
      BY <1>1, <2>1
    <2> QED
      BY <1>1, <1>2, <2>2, DiskSoundStays
  <1> QED
    BY <1>1, <1>3, <1>4, <1>5, JoinSound

\* A room is made of the file as it was read.
LEMMA FileReadSound ==
    ASSUME CollabInv, Sound, FileRead
    PROVE  Sound'
  <1> DEFINE c == Head(disk).by
             new == NewRoom(file)
             rs == Append(rooms, new)
             r == Len(rooms) + 1
  <1>1. /\ disk # <<>> /\ Head(disk).type = "read"
        /\ Join(c, rs, r) /\ disk' = Tail(disk) /\ file' = file
    BY DEF FileRead
  <1>2. RoomsKept /\ DiskKept /\ DiskSound /\ TabsKept /\ file \in Text
    BY DEF CollabInv, Sound, DiskSound
  <1>3. 1 \in DOMAIN disk /\ Head(disk) = disk[1]
    BY <1>1, <1>2, OwnTail DEF DiskKept
  <1>4. c \in Clients /\ tab[c].room = 0
    BY <1>1, <1>2, <1>3 DEF DiskSound, DiskKept
  <1>5. \A d \in Clients : d # c => tab'[d] = tab[d]
    BY <1>1, <1>2 DEF Join, TabsKept
  <1>6. DiskSound'
    <2>1. \A d \in Clients : tab'[d].room = tab[d].room \/ d = c
      BY <1>5
    <2>2. file' \in Text
      BY <1>1, <1>2
    <2> QED
      BY <1>1, <1>2, <2>1, <2>2, DiskSoundTail
  <1>7. /\ Len(rooms) \in Nat /\ DOMAIN rooms = 1..Len(rooms)
        /\ DOMAIN rs = 1..r /\ rs[r] = new
        /\ \A q \in 1..Len(rooms) : rs[q] = rooms[q]
    BY <1>2, OwnAppend DEF RoomsKept
  <1>8. WellKept(new)
    BY NewRoomKept
  <1>9. RoomSound(new) /\ Members(new) = {}
    <2>1. /\ new.text = file /\ new.history = <<>> /\ DOMAIN new.caret = {}
      BY DEF NewRoom
    <2>2. <<>> \in Seq(Operation) /\ Len(<<>>) = 0
      BY EmptySeq
    <2> HIDE DEF new
    <2>3. Consecutive(new.history)
      BY <2>1, <2>2 DEF Consecutive
    <2> QED
      BY <1>2, <2>1, <2>2, <2>3 DEF RoomSound, Members
  <1>10. {d \in Clients : tab[d].room = r} = {}
    BY <1>2, <1>7 DEF TabsKept
  <1> HIDE DEF new, rs
  <1>11. \A q \in DOMAIN rs :
            /\ WellKept(rs[q]) /\ RoomSound(rs[q]) /\ q # 0
            /\ Members(rs[q]) = {d \in Clients : tab[d].room = q}
    <2> SUFFICES ASSUME NEW q \in 1..r
                 PROVE  /\ WellKept(rs[q]) /\ RoomSound(rs[q]) /\ q # 0
                        /\ Members(rs[q]) = {d \in Clients : tab[d].room = q}
      BY <1>7
    <2>1. CASE q = r
      BY <1>7, <1>8, <1>9, <1>10, <2>1
    <2>2. CASE q \in 1..Len(rooms)
      <3>1. rs[q] = rooms[q] /\ q \in DOMAIN rooms /\ q # 0
        BY <1>7, <2>2
      <3> QED
        BY <1>2, <3>1 DEF RoomsKept, Sound, RoomsSound
    <2> QED
      BY <1>7, <2>1, <2>2
  <1>12. \A q \in DOMAIN rooms : q \in DOMAIN rs /\ rs[q] = rooms[q]
    BY <1>7
  <1>13. r \in DOMAIN rs /\ r # 0
    BY <1>7
  <1> HIDE DEF r, c
  <1> QED
    BY <1>1, <1>4, <1>6, <1>11, <1>12, <1>13, JoinSound

----------------------------------------------------------------------------
(* The theorems.                                                           *)

\* Nobody has the file open yet.
LEMMA InitSound ==
    ASSUME CollabInit
    PROVE  Sound
  <1>1. DOMAIN rooms = {} /\ DOMAIN disk = {}
    BY DEF CollabInit
  <1>2. file \in Text
    BY CollabAssumption DEF CollabInit
  <1>3. \A c \in Clients : tab[c] = Away
    BY DEF CollabInit
  <1>4. Away.room = 0
    BY DEF Away
  <1>5. RoomsSound
    BY <1>1 DEF RoomsSound
  <1>6. DiskSound
    BY <1>1, <1>2 DEF DiskSound
  <1>7. TabsSound
    BY <1>3, <1>4 DEF TabsSound
  <1>8. byRoom \subseteq Clients
    BY DEF CollabInit
  <1> QED
    BY <1>5, <1>6, <1>7, <1>8 DEF Sound

\* Every step of the editor keeps the tabs and their room in agreement.
LEMMA StepSound ==
    ASSUME CollabInv, ~split, Sound, [CollabNext]_collabVars
    PROVE  Sound'
  <1>1. CASE UNCHANGED collabVars
    <2>1. /\ rooms' = rooms /\ byRoom' = byRoom /\ file' = file /\ disk' = disk
          /\ tab' = tab /\ up' = up /\ down' = down
      BY <1>1 DEF collabVars, roomVars, diskVars, tabVars
    <2>2. DiskSound'
      BY <2>1, DiskSame
    <2> QED
      BY <2>1, <2>2, DiskStepSound
  <1>2. CASE CollabNext
    <2>1. ASSUME NEW c \in Clients, OpenRoom(c)
          PROVE  Sound'
      BY <2>1, OpenRoomSound
    <2>2. ASSUME NEW c \in Clients, Forget(c)
          PROVE  Sound'
      BY <2>2, ForgetSound
    <2>3. ASSUME NEW c \in Clients, Edit(c) \/ Report(c) \/ AskSave(c)
          PROVE  Sound'
      BY <2>3, EditSound, ReportSound
    <2>4. ASSUME NEW c \in Clients, Browser(c)
          PROVE  Sound'
      BY <2>4, BrowserSound
    <2>5. ASSUME NEW c \in Clients, Hub(c)
          PROVE  Sound'
      BY <2>5, AnswerSound, SelectionSound, ReceiveOpSound DEF Hub
    <2>6. CASE \/ \E c \in Clients : OpenFile(c)
               \/ UpgradeRejected \/ SaveWritten \/ FlushWritten \/ WriteFails
               \/ OutsideWrite \/ Flush \/ DropClean
      BY <2>6, DiskStepsSound
    <2>7. CASE FileRead
      BY <2>7, FileReadSound
    <2> QED
      BY <1>2, <2>1, <2>2, <2>3, <2>4, <2>5, <2>6, <2>7 DEF CollabNext, Disk
  <1> QED
    BY <1>1, <1>2

\* A file that had two rooms in use at once is marked for good.
LEMMA SplitStays ==
    ASSUME split, [CollabNext]_collabVars
    PROVE  split'
  <1>1. ASSUME NEW c \in Clients,
               \/ OpenRoom(c) \/ OpenFile(c) \/ Forget(c)
               \/ Edit(c) \/ Report(c) \/ AskSave(c)
        PROVE  split'
    BY <1>1 DEF OpenRoom, OpenFile, Forget, Edit, Report, AskSave, roomVars
  <1>2. ASSUME NEW c \in Clients, Hub(c) \/ Browser(c)
        PROVE  split'
    BY <1>2 DEF Hub, ReceiveOp, RefuseOp, ReceiveSelection, ReceiveSave,
                ReceiveResync, Browser, TakeWelcome, TakeAck, TakeOp,
                TakeMisfit, TakeError, roomVars
  <1>3. CASE Disk \/ Flush \/ DropClean
    BY <1>3 DEF Disk, FileRead, UpgradeRejected, SaveWritten, FlushWritten,
                WriteFails, OutsideWrite, Flush, DropClean, roomVars
  <1>4. CASE UNCHANGED collabVars
    BY <1>4 DEF collabVars, roomVars
  <1> QED
    BY <1>1, <1>2, <1>3, <1>4 DEF CollabNext

\* While a file has had one room, what a tab shows differs from the room's
\* text by what is in flight alone: the messages on their way to it lead from
\* the one to the other.
THEOREM CollabSound == CollabSpec => [](~split => Sound)
  <1>1. CollabInit => Sound
    BY InitSound
  <1>2. CollabInv /\ (~split => Sound) /\ [CollabNext]_collabVars
            => (~split => Sound)'
    BY StepSound, SplitStays
  <1> QED
    BY <1>1, <1>2, CollabInvariant, PTL DEF CollabSpec

\* assertConverged: while a file has had one room, a tab with nothing in
\* flight shows its text at its revision, for any number of tabs, edits and
\* messages.
THEOREM ConvergenceHolds == CollabSpec => []Convergence
  <1>1. ASSUME CollabInv, ~split => Sound
        PROVE  Convergence
    <2> SUFFICES ASSUME ~split, NEW c \in Clients, Settled(c)
                 PROVE  /\ tab[c].text = rooms[tab[c].room].text
                        /\ tab[c].revision = Revision(rooms[tab[c].room])
      BY DEF Convergence, RoomOf
    <2> DEFINE t == tab[c]
               room == rooms[t.room]
    <2>1. t.live /\ t.outstanding = None /\ down[c] = <<>>
      BY DEF Settled
    <2>2. Connected(t, room, up[c], <<>>)
      BY <1>1, <2>1, RoomHere
    <2>3. PICK v, w : Agreed(t, room, up[c], <<>>, v, w)
      BY <2>2 DEF Connected
    <2>4. /\ Reaches(<<>>, v, w) /\ v.revision = t.revision /\ Shows(t, v)
          /\ w.text = room.text /\ w.revision = Revision(room)
      BY <2>1, <2>3 DEF Agreed
    <2>5. v = w
      BY <2>4, WayEmpty
    <2>6. t.text = v.text
      BY <2>1, <2>4 DEF Shows
    <2> QED
      BY <2>4, <2>5, <2>6
  <1> QED
    BY <1>1, CollabInvariant, CollabSound, PTL

\* What the editor is for: any two tabs with nothing in flight show the same
\* text, as long as the file was given no second room.
TabsAgree ==
    \A c, d \in Clients :
        Settled(c) /\ Settled(d) /\ ~split => tab[c].text = tab[d].text

\* Collaborators on one file see one text once their edits have arrived.
THEOREM TabsAgreeHolds == CollabSpec => []TabsAgree
  <1>1. ASSUME CollabInv, Convergence
        PROVE  TabsAgree
    <2> SUFFICES ASSUME NEW c \in Clients, NEW d \in Clients,
                        Settled(c), Settled(d), ~split
                 PROVE  tab[c].text = tab[d].text
      BY DEF TabsAgree
    <2>1. TabsKept /\ Gathered
      BY <1>1 DEF CollabInv
    <2>2. tab[c].room # 0 /\ tab[d].room # 0
      BY <2>1, InRoom DEF Settled
    <2>3. tab[c].room = tab[d].room
      BY <2>1, <2>2 DEF Gathered
    <2> QED
      BY <1>1, <2>3 DEF Convergence, RoomOf
  <1> QED
    BY <1>1, CollabInvariant, ConvergenceHolds, PTL

\* transform_mismatch and length_mismatch: while a file has had one room, a
\* broadcast always fits the tab it reaches, and an operation of the window
\* always fits the room, where it still types what its author typed.
THEOREM OperationsFitHolds == CollabSpec => []OperationsFit
  <1>1. ASSUME CollabInv, ~split => Sound
        PROVE  OperationsFit
    <2> SUFFICES ASSUME ~split, NEW c \in Clients
                 PROVE  /\ down[c] # <<>> /\ Head(down[c]).type = "op"
                               => Fits(tab[c], Head(down[c]).operation)
                        /\ Next1(c, "op") =>
                            LET message == Head(up[c])
                                rebased == Rebased(RoomOf(c), message.revision,
                                                   message.operation)
                            IN  InWindow(RoomOf(c), message.revision) =>
                                    /\ rebased # None
                                    /\ Typed(rebased) = Typed(message.operation)
      BY DEF OperationsFit
    <2> DEFINE t == tab[c]
               room == rooms[t.room]
    <2>1. ASSUME down[c] # <<>>, Head(down[c]).type = "op"
          PROVE  Fits(t, Head(down[c]).operation)
      <3>1. DOMAIN t = TabFields /\ Connected(t, room, up[c], down[c])
        BY <1>1, <2>1, RoomHere
      <3> QED
        BY <2>1, <3>1, OpTaken
    <2>2. ASSUME NEW m, m = Head(up[c]), up[c] # <<>>, m.type = "op",
                 InWindow(room, m.revision)
          PROVE  /\ Rebased(room, m.revision, m.operation) # None
                 /\ Typed(Rebased(room, m.revision, m.operation))
                      = Typed(m.operation)
      <3>1. Connected(t, room, up[c], down[c])
        BY <1>1, <2>2, RoomHere
      <3>2. PICK mine : Pending(room, m, mine) /\ baseLength(mine) = Len(room.text)
        BY <2>2, <3>1, HeadPending
      <3>3. /\ mine \in Operation /\ Typed(mine) = Typed(m.operation)
            /\ CarriedOver(m.operation, Since(room, m.revision)) = mine
        BY <2>2, <3>2 DEF Pending
      <3>4. Rebased(room, m.revision, m.operation) = mine /\ mine # None
        BY <3>2, <3>3, OfAlphabet DEF Rebased
      <3> QED
        BY <3>3, <3>4
    <2> QED
      BY <2>1, <2>2 DEF Next1, RoomOf
  <1> QED
    BY <1>1, CollabInvariant, CollabSound, PTL

\* transformPosition and the clamps of receive and setSelection: while a file
\* has had one room, a caret it shows to the others is a position of its text,
\* unless its owner's last operation came without one.
THEOREM CaretsInsideHolds == CollabSpec => [](~split => CaretsInside)
  <1>1. Sound => CaretsInside
    BY DEF Sound, RoomsSound, RoomSound, CaretsInside
  <1> QED
    BY <1>1, CollabSound, PTL

\* While a file has had one room, the rooms, the tabs and the queues are what
\* the classes declare.
THEOREM CollabTypeOKHolds == CollabSpec => [](~split => CollabTypeOK)
  <1>1. ASSUME CollabInv, Sound
        PROVE  CollabTypeOK
    <2>1. ASSUME NEW r \in DOMAIN rooms
          PROVE  /\ rooms[r].text \in Text
                 /\ Len(rooms[r].history) <= HistoryLimit
                 /\ rooms[r].saved \in 0..Revision(rooms[r])
                 /\ Members(rooms[r]) = {c \in Clients : tab[c].room = r}
      BY <1>1 DEF CollabInv, RoomsKept, WellKept, Sound, RoomsSound, RoomSound
    <2>2. registry \in 0..Len(rooms) /\ byRoom \subseteq Clients
      BY <1>1 DEF CollabInv, RoomsKept, Sound
    <2>3. ASSUME NEW c \in Clients
          PROVE  /\ tab[c].room \in 0..Len(rooms)
                 /\ tab[c].buffer # None => tab[c].outstanding # None
      <3>1. tab[c].room \in 0..Len(rooms)
        BY <1>1 DEF CollabInv, TabsKept
      <3>2. CASE tab[c].room = 0
        BY <1>1, <3>1, <3>2 DEF Sound, TabsSound, Away
      <3>3. CASE tab[c].room # 0
        BY <1>1, <3>1, <3>3, AllConnected DEF Connected, InFlight
      <3> QED
        BY <3>2, <3>3
    <2> QED
      BY <2>1, <2>2, <2>3 DEF CollabTypeOK
  <1> QED
    BY <1>1, CollabInvariant, CollabSound, PTL
=============================================================================
