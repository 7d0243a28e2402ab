------------------------- MODULE WorkerSessionProofs -------------------------
(***************************************************************************)
(* Theorems about WorkerSession, for every set of plans of any length: type *)
(* correctness, that a client that keeps to the protocol is never refused,  *)
(* and that a summary is final.                                             *)
(***************************************************************************)
EXTENDS WorkerSession, WellFoundedInduction, TLAPS

Replies == {Welcome, Error} \cup Summaries

-----------------------------------------------------------------------------
(* Channels.                                                                *)

LEMMA PrefixType ==
  ASSUME NEW S, NEW s \in Seq(S), NEW p \in Prefixes(s)
  PROVE  /\ p \in Seq(S) /\ Len(p) \in 0..Len(s)
         /\ \A i \in 1..Len(p) : p[i] = s[i]
         /\ Elements(p) \subseteq Elements(s)
<1>1. PICK l \in 0..Len(s) : p = SubSeq(s, 1, l)
  BY DEF Prefixes
<1>2. p \in Seq(S) /\ Len(p) = l /\ \A i \in 1..l : p[i] = s[i]
  BY <1>1
<1>3. \A i \in DOMAIN p : i \in DOMAIN s /\ p[i] = s[i]
  BY <1>2
<1> QED
  BY <1>2, <1>3 DEF Elements

LEMMA AppendType ==
  ASSUME NEW S, NEW s \in Seq(S), NEW x \in S
  PROVE  /\ Append(s, x) \in Seq(S) /\ Len(Append(s, x)) = Len(s) + 1
         /\ \A i \in 1..(Len(s) + 1) :
              Append(s, x)[i] = IF i = Len(s) + 1 THEN x ELSE s[i]
         /\ Elements(Append(s, x)) = Elements(s) \cup {x}
<1>1. /\ Append(s, x) \in Seq(S) /\ Len(Append(s, x)) = Len(s) + 1
      /\ \A i \in 1..(Len(s) + 1) :
           Append(s, x)[i] = IF i = Len(s) + 1 THEN x ELSE s[i]
  OBVIOUS
<1>2. DOMAIN Append(s, x) = DOMAIN s \cup {Len(s) + 1}
  BY <1>1
<1>3. Len(s) + 1 \notin DOMAIN s
  OBVIOUS
<1> QED
  BY <1>1, <1>2, <1>3 DEF Elements

LEMMA TailType ==
  ASSUME NEW S, NEW s \in Seq(S), s # <<>>
  PROVE  /\ Head(s) \in S /\ Head(s) = s[1] /\ Head(s) \in Elements(s)
         /\ Tail(s) \in Seq(S) /\ Len(Tail(s)) = Len(s) - 1
         /\ \A i \in 1..(Len(s) - 1) : Tail(s)[i] = s[i + 1]
         /\ Elements(Tail(s)) \subseteq Elements(s)
<1>1. /\ Head(s) \in S /\ Head(s) = s[1] /\ 1 \in DOMAIN s
      /\ Tail(s) \in Seq(S) /\ Len(Tail(s)) = Len(s) - 1
      /\ \A i \in 1..(Len(s) - 1) : Tail(s)[i] = s[i + 1]
  OBVIOUS
<1>2. \A i \in DOMAIN Tail(s) : i + 1 \in DOMAIN s /\ Tail(s)[i] = s[i + 1]
  BY <1>1
<1> QED
  BY <1>1, <1>2 DEF Elements

LEMMA PlanType ==
  ASSUME TypeOK
  PROVE  /\ plan \in Seq(Elements(plan)) /\ Len(plan) \in Nat
         /\ \A line \in Elements(plan) :
              line.type = "event" => Len(line.items) \in Nat
<1>1. plan \in Seq(Elements(plan))
  BY PlansAreLines DEF TypeOK
<1>2. ASSUME NEW i \in DOMAIN plan, plan[i].type = "event"
      PROVE  Len(plan[i].items) \in Nat
  <2>1. plan[i].items \in Seq(Elements(plan[i].items))
    BY <1>2, PlansAreLines DEF TypeOK
  <2> QED
    BY <2>1
<1> QED
  BY <1>1, <1>2 DEF Elements

-----------------------------------------------------------------------------
(* Concatenation.  FlattenSeq is a recursive function over the lines: facts  *)
(* about it are by induction, stated for a set of numbers.                   *)

\* A set of numbers that is not empty has a least one.
LEMMA LeastNat ==
  ASSUME NEW T \in SUBSET Nat, T # {}
  PROVE  \E x \in T : \A y \in T : x <= y
<1> DEFINE R == OpToRel(<, Nat)
<1>1. IsWellFoundedOn(R, Nat)
  BY NatLessThanWellFounded
<1>2. \A x, y \in Nat : y < x => <<y, x>> \in R
  BY DEF OpToRel
<1> HIDE DEF R
<1>3. PICK x \in T : \A y \in T : ~ (<<y, x>> \in R)
  BY <1>1, WFMin
<1>4. \A y \in T : x \in Nat /\ y \in Nat /\ ~ (y < x)
  BY <1>2, <1>3
<1>5. \A y \in T : x <= y
  BY <1>4
<1> QED
  BY <1>5

\* Induction: a set that has 0, and with a number the next, has them all.
LEMMA NatSet ==
  ASSUME NEW T \in SUBSET Nat, 0 \in T, \A n \in T : n + 1 \in T
  PROVE  T = Nat
<1> SUFFICES ASSUME Nat \ T # {}
             PROVE  FALSE
  OBVIOUS
<1>1. Nat \ T \in SUBSET Nat
  OBVIOUS
<1>2. PICK x \in Nat \ T : \A y \in Nat \ T : x <= y
  BY <1>1, LeastNat
<1>3. x - 1 \in Nat /\ (x - 1) + 1 = x
  BY <1>2
<1>4. x - 1 \in T
  BY <1>2, <1>3
<1> QED
  BY <1>2, <1>3, <1>4

\* f is the function behind FlattenSeq(s), for the first n sequences of s.
Flattens(f, s, n) == f = [i \in 1..n |-> IF i = 1 THEN s[i] ELSE f[i-1] \o s[i]]

LEMMA FlattensExists ==
  ASSUME NEW s, NEW n \in Nat
  PROVE  \E f : Flattens(f, s, n)
<1> DEFINE T == {m \in Nat : \E f : Flattens(f, s, m)}
<1>1. 0 \in T
  <2>1. Flattens([i \in 1..0 |-> s[i]], s, 0)
    BY DEF Flattens
  <2> QED
    BY <2>1
<1>2. ASSUME NEW m \in T
      PROVE  m + 1 \in T
  <2>1. PICK f : Flattens(f, s, m)
    OBVIOUS
  <2> DEFINE g == [i \in 1..(m + 1) |->
                     IF i = 1 THEN s[i] ELSE f[i - 1] \o s[i]]
  <2>2. ASSUME NEW i \in 1..(m + 1), i # 1
        PROVE  g[i - 1] = f[i - 1]
    <3>1. i - 1 \in 1..m /\ i - 1 \in 1..(m + 1)
      BY <2>2
    <3>2. f[i - 1] = IF i - 1 = 1 THEN s[i - 1] ELSE f[i - 1 - 1] \o s[i - 1]
      BY <2>1, <3>1 DEF Flattens
    <3> QED
      BY <3>1, <3>2
  <2>3. g = [i \in 1..(m + 1) |-> IF i = 1 THEN s[i] ELSE g[i - 1] \o s[i]]
    BY <2>2
  <2> HIDE DEF g
  <2>4. Flattens(g, s, m + 1)
    BY <2>3 DEF Flattens
  <2> QED
    BY <2>4
<1>3. T = Nat
  <2> HIDE DEF T
  <2>1. T \in SUBSET Nat
    BY DEF T
  <2> QED
    BY <1>1, <1>2, <2>1, NatSet
<1> QED
  BY <1>3

LEMMA FlattenSeqIs ==
  ASSUME NEW s, Len(s) \in Nat \ {0}
  PROVE  \E f : Flattens(f, s, Len(s)) /\ FlattenSeq(s) = f[Len(s)]
<1> DEFINE n == Len(s)
           f == CHOOSE g : g = [i \in 1..n |-> IF i = 1 THEN s[i] ELSE g[i-1] \o s[i]]
<1>1. \E g : g = [i \in 1..n |-> IF i = 1 THEN s[i] ELSE g[i-1] \o s[i]]
  BY FlattensExists DEF Flattens
<1>2. Flattens(f, s, n)
  BY <1>1 DEF Flattens
<1>3. FlattenSeq(s) = f[n]
  BY DEF FlattenSeq
<1> QED
  BY <1>2, <1>3

\* Two flattenings of sequences that agree, agree.
LEMMA FlattensAgree ==
  ASSUME NEW s, NEW t, NEW m \in Nat, NEW n \in Nat, m <= n,
         NEW f, Flattens(f, s, m), NEW g, Flattens(g, t, n),
         \A i \in 1..m : s[i] = t[i]
  PROVE  \A i \in 1..m : f[i] = g[i]
<1> DEFINE T == {i \in Nat : i \in 1..m => f[i] = g[i]}
<1>1. 0 \in T
  OBVIOUS
<1>2. ASSUME NEW i \in T
      PROVE  i + 1 \in T
  <2>1. i \in Nat /\ (i + 1) - 1 = i
    OBVIOUS
  <2> SUFFICES ASSUME i + 1 \in 1..m
               PROVE  f[i + 1] = g[i + 1]
    BY <2>1
  <2>2. /\ f[i + 1] = IF i + 1 = 1 THEN s[i + 1] ELSE f[i] \o s[i + 1]
        /\ g[i + 1] = IF i + 1 = 1 THEN t[i + 1] ELSE g[i] \o t[i + 1]
    <3>1. i + 1 \in 1..n
      BY <2>1
    <3>2. f[i + 1] = IF i + 1 = 1 THEN s[i + 1] ELSE f[(i + 1) - 1] \o s[i + 1]
      BY DEF Flattens
    <3>3. g[i + 1] = IF i + 1 = 1 THEN t[i + 1] ELSE g[(i + 1) - 1] \o t[i + 1]
      BY <3>1 DEF Flattens
    <3> QED
      BY <2>1, <3>2, <3>3
  <2>3. i + 1 # 1 => i \in 1..m
    BY <2>1
  <2> QED
    BY <2>2, <2>3
<1>3. T = Nat
  <2> HIDE DEF T
  <2>1. T \in SUBSET Nat
    BY DEF T
  <2> QED
    BY <1>1, <1>2, <2>1, NatSet
<1> QED
  BY <1>3

LEMMA BeforeIs ==
  ASSUME NEW k \in Nat \ {0}
  PROVE  \E f : Flattens(f, [i \in 1..k |-> ItemsOf(plan[i])], k) /\ Before(k) = f[k]
<1> DEFINE s == [i \in 1..k |-> ItemsOf(plan[i])]
<1>1. Len(s) = k
  OBVIOUS
<1>2. Before(k) = FlattenSeq(s)
  BY DEF Before
<1> HIDE DEF s
<1>3. \E f : Flattens(f, s, k) /\ FlattenSeq(s) = f[k]
  BY <1>1, FlattenSeqIs
<1> QED
  BY <1>2, <1>3 DEF s

\* The items of one line more are those before it, and its own.
LEMMA BeforeNext ==
  ASSUME NEW k \in Nat, NEW S, ItemsOf(plan[k + 1]) \in Seq(S)
  PROVE  Before(0) = <<>> /\ Before(k + 1) = Before(k) \o ItemsOf(plan[k + 1])
<1> DEFINE s(n) == [i \in 1..n |-> ItemsOf(plan[i])]
<1>1. Before(0) = <<>>
  <2>1. s(0) = <<>>
    OBVIOUS
  <2> QED
    BY <2>1 DEF Before, FlattenSeq
<1>2. PICK g : Flattens(g, s(k + 1), k + 1) /\ Before(k + 1) = g[k + 1]
  <2>1. k + 1 \in Nat \ {0}
    OBVIOUS
  <2> QED
    BY <2>1, BeforeIs
<1>3. CASE k = 0
  <2>1. g[1] = s(1)[1]
    BY <1>2, <1>3 DEF Flattens
  <2> QED
    BY <1>1, <1>2, <1>3, <2>1
<1>4. CASE k # 0
  <2>1. PICK f : Flattens(f, s(k), k) /\ Before(k) = f[k]
    BY <1>4, BeforeIs
  <2>2. \A i \in 1..k : s(k)[i] = s(k + 1)[i]
    OBVIOUS
  <2>3. s(k + 1)[k + 1] = ItemsOf(plan[k + 1])
    OBVIOUS
  <2> HIDE DEF s
  <2>4. \A i \in 1..k : f[i] = g[i]
    BY <1>2, <2>1, <2>2, FlattensAgree
  <2>5. f[k] = g[k]
    BY <1>4, <2>4
  <2>6. g[k + 1] = g[k] \o s(k + 1)[k + 1]
    <3>1. k + 1 \in 1..(k + 1) /\ k + 1 # 1 /\ (k + 1) - 1 = k
      BY <1>4
    <3>2. g[k + 1] = g[(k + 1) - 1] \o s(k + 1)[k + 1]
      BY <1>2, <3>1 DEF Flattens
    <3> QED
      BY <3>1, <3>2
  <2> QED
    BY <1>1, <1>2, <2>1, <2>3, <2>5, <2>6
<1> QED
  BY <1>3, <1>4

\* Every item of the plan.
AllItems == UNION {Elements(ItemsOf(plan[i])) : i \in DOMAIN plan}

LEMMA ItemsType ==
  ASSUME TypeOK, NEW i \in 1..Len(plan)
  PROVE  ItemsOf(plan[i]) \in Seq(AllItems)
<1>1. i \in DOMAIN plan
  BY PlanType
<1>2. ItemsOf(plan[i]) \in Seq(Elements(ItemsOf(plan[i])))
  <2>1. CASE plan[i].type = "event"
    BY <1>1, <2>1, PlansAreLines DEF ItemsOf, TypeOK
  <2>2. CASE plan[i].type # "event"
    BY <2>2 DEF ItemsOf
  <2> QED
    BY <2>1, <2>2
<1>3. Elements(ItemsOf(plan[i])) \subseteq AllItems
  BY <1>1 DEF AllItems
<1> QED
  BY <1>2, <1>3

LEMMA BeforeType ==
  ASSUME TypeOK
  PROVE  \A k \in 0..Len(plan) : Before(k) \in Seq(AllItems)
<1> DEFINE T == {k \in Nat : k <= Len(plan) => Before(k) \in Seq(AllItems)}
<1>0. Len(plan) \in Nat
  BY PlanType
<1>1. 0 \in T
  <2>1. <<>> \in Seq({}) /\ <<>> \in Seq(AllItems)
    OBVIOUS
  <2>2. Before(0) = <<>>
    <3>1. [i \in 1..0 |-> ItemsOf(plan[i])] = <<>>
      OBVIOUS
    <3> QED
      BY <3>1 DEF Before, FlattenSeq
  <2> QED
    BY <2>1, <2>2
<1>2. ASSUME NEW k \in T
      PROVE  k + 1 \in T
  <2> SUFFICES ASSUME k + 1 <= Len(plan)
               PROVE  Before(k + 1) \in Seq(AllItems)
    OBVIOUS
  <2>1. k \in Nat /\ Before(k) \in Seq(AllItems) /\ k + 1 \in 1..Len(plan)
    BY <1>0
  <2>2. ItemsOf(plan[k + 1]) \in Seq(AllItems)
    BY <2>1, ItemsType
  <2>3. Before(k + 1) = Before(k) \o ItemsOf(plan[k + 1])
    BY <2>1, <2>2, BeforeNext
  <2>4. \A s, t \in Seq(AllItems) : s \o t \in Seq(AllItems)
    OBVIOUS
  <2> QED
    BY <2>1, <2>2, <2>3, <2>4
<1>3. T = Nat
  <2> HIDE DEF T
  <2>1. T \in SUBSET Nat
    BY DEF T
  <2> QED
    BY <1>1, <1>2, <2>1, NatSet
<1> QED
  BY <1>0, <1>3

\* The first end of a plan.
LEMMA FirstEndIs ==
  ASSUME TypeOK, NEW k \in Nat, k + 1 <= Len(plan), plan[k + 1].type = "end",
         \A i \in 1..k : plan[i].type # "end"
  PROVE  FirstEnd = k + 1
<1> DEFINE I == {i \in 1..Len(plan) : plan[i].type = "end"}
<1>0. Len(plan) \in Nat
  BY PlanType
<1>1. k + 1 \in I /\ \A i \in I : k + 1 <= i
  BY <1>0
<1>2. FirstEnd = Min(I)
  BY <1>1 DEF FirstEnd, SelectInSeq
<1>3. \A i \in I : i \in Int
  OBVIOUS
<1> HIDE DEF I
<1>4. Min(I) \in I /\ \A i \in I : Min(I) <= i
  BY <1>1 DEF Min
<1> QED
  BY <1>1, <1>2, <1>3, <1>4

-----------------------------------------------------------------------------
(* The parts of a step.                                                     *)

\* The next line, by what is done with it.
LineCase(line) ==
  \/ /\ inbox' = Tail(inbox)
     /\ \/ line.type = "junk"    /\ HandleJunk
        \/ line.type = "hello"   /\ HandleHello(line)
        \/ line.type \in {"event", "end", "unknown"} /\ HandleEarly
        \/ line.type = "event"   /\ HandleEvent(line)
        \/ line.type = "end"     /\ HandleEnd
        \/ line.type = "unknown" /\ HandleUnknown
  \/ line.type = "hello" /\ RefuseVersion(line)

LEMMA HandleLineParts ==
  ASSUME TypeOK, HandleLine
  PROVE  /\ inbox # <<>> /\ inbox \in Seq(Elements(plan))
         /\ LineCase(Head(inbox)) /\ UNCHANGED clientVars
BY DEF HandleLine, LineCase, TypeOK

\* A batch is counted, and only it changes what was handled.
LEMMA BatchParts ==
  ASSUME TypeOK, NEW line \in Elements(plan), line.type = "event",
         HandleEvent(line)
  PROVE  /\ processed' \in Nat /\ processed <= processed'
         /\ gen' \in {"running", "finished"}
         /\ gen = "finished" => gen' = "finished" /\ handled' = handled
         /\ \E o \in {outbox, IF up THEN Append(outbox, Error) ELSE outbox} :
              outbox' = o
         /\ UNCHANGED <<up, handshake, closing>>
<1>1. CASE Converts(line.items)
  <2>1. PICK n \in 0..Len(line.items) :
               /\ EnqueueBatch(line.items, n)
               /\ IF n = Len(line.items) THEN UNCHANGED outbox ELSE Reply(Error)
    BY <1>1 DEF HandleEvent
  <2>2. n \in Nat /\ processed \in Nat
    BY PlanType, <2>1 DEF TypeOK
  <2>3. processed' = processed + n
    BY <2>1 DEF EnqueueBatch
  <2>4. /\ gen' \in {"running", "finished"}
        /\ gen = "finished" => gen' = "finished" /\ handled' = handled
    BY <2>1 DEF EnqueueBatch, TypeOK
  <2> QED
    BY <2>1, <2>2, <2>3, <2>4 DEF Reply, HandleEvent
<1>2. CASE ~Converts(line.items)
  BY <1>2 DEF HandleEvent, Reply, TypeOK, runtimeVars
<1> QED
  BY <1>1, <1>2

\* A generator that is finished stays so and handles nothing more.
LEMMA RuntimeStep ==
  ASSUME TypeOK, [Next]_vars
  PROVE  /\ processed' \in Nat /\ processed <= processed'
         /\ gen' \in {"running", "finished"}
         /\ gen = "finished" => gen' = "finished" /\ handled' = handled
<1> DEFINE Goal == /\ processed' \in Nat /\ processed <= processed'
                   /\ gen' \in {"running", "finished"}
                   /\ gen = "finished" => gen' = "finished" /\ handled' = handled
<1>0. processed \in Nat /\ gen \in {"running", "finished"}
  BY DEF TypeOK
<1>1. UNCHANGED <<gen, handled, processed>> => Goal
  BY <1>0
<1>2. ASSUME HandleLine
      PROVE  Goal
  <2> DEFINE line == Head(inbox)
  <2>1. line \in Elements(plan)
    BY <1>2, HandleLineParts, TailType
  <2>2. CASE line.type = "event" /\ HandleEvent(line)
    BY <2>1, <2>2, BatchParts
  <2>3. CASE HandleEnd
    BY <1>0, <2>3 DEF HandleEnd, FinishRun
  <2>4. CASE \/ RefuseVersion(line) \/ HandleJunk \/ HandleHello(line)
             \/ HandleEarly \/ HandleUnknown
    BY <1>1, <2>4 DEF RefuseVersion, HandleJunk, HandleHello, HandleEarly,
                      HandleUnknown, workerVars, runtimeVars
  <2> QED
    BY <1>2, <2>2, <2>3, <2>4, HandleLineParts DEF LineCase
<1>3. CASE NoticeClose \/ Client \/ DrainFails \/ Lose \/ UNCHANGED vars
  BY <1>1, <1>3
     DEF NoticeClose, Client, Write, Drained, WriteClosed, Receive, Disconnected,
         DrainFails, Lose, vars, workerVars, runtimeVars
<1> QED
  BY <1>2, <1>3 DEF Next, Worker

\* The connection closes once, and the flags of the worker are set once.
LEMMA FlagsStep ==
  ASSUME TypeOK, [Next]_vars
  PROVE  /\ up' = up \/ up' = FALSE
         /\ handshake' = handshake \/ handshake' = TRUE
         /\ closing' = closing \/ closing' = TRUE
<1>1. ASSUME HandleLine
      PROVE  /\ up' = up \/ up' = FALSE
             /\ handshake' = handshake \/ handshake' = TRUE
             /\ closing' = closing \/ closing' = TRUE
  <2> DEFINE line == Head(inbox)
  <2>1. LineCase(line)
    BY <1>1, HandleLineParts
  <2> HIDE DEF line
  <2> QED
    BY <2>1 DEF LineCase, RefuseVersion, Cut, HandleJunk, HandleHello,
                HandleEarly, HandleEvent, HandleEnd, HandleUnknown, workerVars
<1>2. CASE NoticeClose \/ Client \/ DrainFails \/ Lose \/ UNCHANGED vars
  BY <1>2
     DEF NoticeClose, Client, Write, Drained, WriteClosed, Receive, Disconnected,
         DrainFails, Lose, Cut, Finish, vars, workerVars
<1> QED
  BY <1>1, <1>2 DEF Next, Worker

\* The plan stays, and what arrives is what was written.
LEMMA InboxStep ==
  ASSUME TypeOK, [Next]_vars
  PROVE  /\ plan' = plan /\ inbox' \in Seq(Elements(plan))
         /\ at' \in 1..(Len(plan) + 1)
<1>0. /\ inbox \in Seq(Elements(plan)) /\ at \in 1..(Len(plan) + 1)
      /\ Len(plan) \in Nat /\ plan \in Seq(Elements(plan))
  BY PlanType DEF TypeOK
<1>1. ASSUME NEW s \in Seq(Elements(plan)), NEW i \in Prefixes(s)
      PROVE  i \in Seq(Elements(plan))
  BY PrefixType
<1>2. ASSUME HandleLine
      PROVE  inbox' \in Seq(Elements(plan)) /\ UNCHANGED clientVars
  <2>1. Tail(inbox) \in Seq(Elements(plan))
    BY <1>2, HandleLineParts, TailType
  <2>2. inbox' = Tail(inbox) \/ inbox' \in Prefixes(Tail(inbox))
    BY <1>2, HandleLineParts DEF LineCase, RefuseVersion, Cut
  <2> QED
    BY <1>1, <1>2, <2>1, <2>2, HandleLineParts
<1>3. CASE HandleLine
  BY <1>0, <1>2, <1>3 DEF clientVars
<1>4. CASE NoticeClose
  BY <1>0, <1>4 DEF NoticeClose, clientVars
<1>5. CASE Write
  <2>1. at \in 1..Len(plan)
    BY <1>0, <1>5 DEF Write, Written
  <2>2. plan[at] \in Elements(plan)
    BY <1>0, <2>1 DEF Elements
  <2> QED
    BY <1>0, <1>5, <2>1, <2>2 DEF Write
<1>6. CASE WriteClosed
  <2>1. at \in 1..Len(plan)
    BY <1>0, <1>6 DEF WriteClosed, Written
  <2> QED
    BY <1>0, <1>1, <1>6, <2>1 DEF WriteClosed, Finish
<1>7. CASE Drained \/ Receive \/ Disconnected \/ DrainFails
  BY <1>0, <1>1, <1>7
     DEF Drained, Receive, Disconnected, DrainFails, Finish
<1>8. CASE Lose
  BY <1>0, <1>1, <1>8 DEF Lose, Cut, clientVars
<1>9. CASE UNCHANGED vars
  BY <1>0, <1>9 DEF vars, clientVars
<1> QED
  BY <1>3, <1>4, <1>5, <1>6, <1>7, <1>8, <1>9 DEF Next, Worker, Client

\* Once a summary is written, the generator is finished.
SummaryEndsRun ==
  (\E m \in Elements(outbox) : m.type = "summary") \/ client = "returned"
    => gen = "finished"

LEMMA RepliesGrow ==
  ASSUME TypeOK, [Next]_vars
  PROVE  /\ Summaries \subseteq Summaries' /\ Replies \subseteq Replies'
         /\ outbox \in Seq(Replies')
         /\ \A m \in Replies : m.type = "summary" => m \in Summaries
<1>1. processed \in Nat /\ processed' \in Nat /\ processed <= processed'
  BY RuntimeStep DEF TypeOK
<1>2. Summaries \subseteq Summaries'
  BY <1>1 DEF Summaries
<1>3. Replies \subseteq Replies'
  BY <1>2 DEF Replies, Welcome, Error
<1>4. outbox \in Seq(Replies)
  BY DEF TypeOK, Replies
<1> QED
  BY <1>2, <1>3, <1>4 DEF Replies, Welcome, Error

\* A reply is appended, or dropped.
LEMMA ReplyType ==
  ASSUME NEW S, outbox \in Seq(S), NEW m \in S, Reply(m)
  PROVE  outbox' \in Seq(S) /\ Elements(outbox') \subseteq Elements(outbox) \cup {m}
<1>1. outbox' = Append(outbox, m) \/ outbox' = outbox
  BY DEF Reply
<1>2. CASE outbox' = outbox
  BY <1>2
<1>3. CASE outbox' = Append(outbox, m)
  <2>1. /\ Append(outbox, m) \in Seq(S)
        /\ Elements(Append(outbox, m)) = Elements(outbox) \cup {m}
    BY AppendType
  <2> QED
    BY <1>3, <2>1
<1> QED
  BY <1>1, <1>2, <1>3

\* What may be written to the client: a summary finishes the generator.
LEMMA HandlerReplies ==
  ASSUME TypeOK, HandleLine, NEW S, outbox \in Seq(S), {Welcome, Error} \subseteq S,
         Summary(processed) \in S
  PROVE  /\ outbox' \in Seq(S)
         /\ \A m \in Elements(outbox') :
              m \in Elements(outbox) \/ (m.type = "summary" => gen' = "finished")
<1> DEFINE line == Head(inbox)
           Goal == /\ outbox' \in Seq(S)
                   /\ \A m \in Elements(outbox') :
                        \/ m \in Elements(outbox)
                        \/ m.type = "summary" => gen' = "finished"
<1>1. LineCase(line) /\ line \in Elements(plan)
  BY HandleLineParts, TailType
<1> HIDE DEF line
<1>2. Error.type # "summary" /\ Welcome.type # "summary"
  BY DEF Error, Welcome
<1>3. ASSUME Reply(Error) \/ Reply(Welcome) \/ outbox' = outbox
      PROVE  Goal
  BY <1>2, <1>3, ReplyType
<1>4. CASE HandleJunk \/ HandleHello(line) \/ HandleEarly \/ HandleUnknown
  BY <1>3, <1>4 DEF HandleJunk, HandleHello, HandleEarly, HandleUnknown
<1>5. CASE line.type = "event" /\ HandleEvent(line)
  <2>1. PICK o \in {outbox, IF up THEN Append(outbox, Error) ELSE outbox} :
               outbox' = o
    BY <1>1, <1>5, BatchParts
  <2> QED
    BY <1>3, <2>1 DEF Reply
<1>6. CASE HandleEnd
  <2>1. gen' = "finished"
    BY <1>6 DEF HandleEnd, FinishRun
  <2>2. Reply(Summary(processed)) \/ Reply(Error)
    BY <1>6 DEF HandleEnd
  <2> QED
    BY <2>1, <2>2, ReplyType
<1>7. CASE RefuseVersion(line)
  <2>1. CASE Reply(Error)
    BY <1>3, <2>1
  <2>2. CASE outbox' \in Prefixes(Append(outbox, Error))
    <3>1. /\ Append(outbox, Error) \in Seq(S)
          /\ Elements(Append(outbox, Error)) = Elements(outbox) \cup {Error}
      BY AppendType
    <3>2. /\ outbox' \in Seq(S)
          /\ Elements(outbox') \subseteq Elements(Append(outbox, Error))
      BY <2>2, <3>1, PrefixType
    <3> QED
      BY <1>2, <3>1, <3>2
  <2> QED
    BY <1>7, <2>1, <2>2 DEF RefuseVersion, Cut
<1> QED
  BY <1>1, <1>4, <1>5, <1>6, <1>7 DEF LineCase

LEMMA OutboxStep ==
  ASSUME TypeOK, SummaryEndsRun, [Next]_vars
  PROVE  /\ outbox' \in Seq(Replies')
         /\ result' \in {NoSummary} \cup Summaries'
         /\ client' \in {"running", "draining", "returned", "threw"}
         /\ SummaryEndsRun'
<1> DEFINE Told(s) == \E m \in Elements(s) : m.type = "summary"
<1>0. /\ outbox \in Seq(Replies) /\ outbox \in Seq(Replies')
      /\ {Welcome, Error} \subseteq Replies' /\ Summary(processed) \in Replies'
      /\ result \in {NoSummary} \cup Summaries'
      /\ client \in {"running", "draining", "returned", "threw"}
      /\ gen = "finished" => gen' = "finished"
  <2>1. Summary(processed) \in Summaries
    BY DEF TypeOK, Summaries
  <2> QED
    BY <2>1, RepliesGrow, RuntimeStep DEF TypeOK, Replies
<1>1. ASSUME HandleLine
      PROVE  /\ outbox' \in Seq(Replies') /\ UNCHANGED clientVars
             /\ Told(outbox') => Told(outbox) \/ gen' = "finished"
  <2> DEFINE S == Replies'
  <2>1. /\ outbox \in Seq(S) /\ {Welcome, Error} \subseteq S
        /\ Summary(processed) \in S
    BY <1>0
  <2> HIDE DEF S
  <2>2. /\ outbox' \in Seq(S)
        /\ \A m \in Elements(outbox') :
             m \in Elements(outbox) \/ (m.type = "summary" => gen' = "finished")
    BY <1>1, <2>1, HandlerReplies
  <2>3. Told(outbox') => Told(outbox) \/ gen' = "finished"
    BY <2>2
  <2> QED
    BY <1>1, <2>2, <2>3, HandleLineParts DEF S
<1>2. CASE HandleLine
  BY <1>0, <1>1, <1>2 DEF clientVars, SummaryEndsRun
<1>3. CASE NoticeClose
  BY <1>0, <1>3 DEF NoticeClose, clientVars, SummaryEndsRun
<1>4. CASE Write \/ Drained \/ WriteClosed \/ Disconnected \/ DrainFails
  <2>1. /\ outbox' = outbox /\ result' = result
        /\ client' = client \/ client' \in {"running", "draining", "threw"}
    BY <1>4 DEF Write, Drained, WriteClosed, Disconnected, DrainFails, Finish
  <2> QED
    BY <1>0, <2>1 DEF SummaryEndsRun
<1>5. CASE Receive
  <2> DEFINE m == Head(outbox)
  <2>1. outbox # <<>> /\ outbox' = Tail(outbox)
    BY <1>5 DEF Receive
  <2>2. /\ outbox' \in Seq(Replies') /\ Elements(outbox') \subseteq Elements(outbox)
        /\ m \in Replies /\ m \in Elements(outbox)
    BY <1>0, <2>1, TailType
  <2>3. CASE m.type = "summary" /\ client' = "returned" /\ result' = m
    <3>1. m \in Summaries'
      BY <2>2, <2>3, RepliesGrow
    <3>2. gen' = "finished"
      BY <1>0, <2>2, <2>3 DEF SummaryEndsRun
    <3> QED
      BY <2>2, <2>3, <3>1, <3>2 DEF SummaryEndsRun
  <2>4. CASE result' = result /\ (client' = "threw" \/ client' = client)
    BY <1>0, <2>2, <2>4 DEF SummaryEndsRun
  <2> HIDE DEF m
  <2> QED
    BY <1>5, <2>3, <2>4 DEF Receive, Finish, m
<1>6. CASE Lose
  <2>1. /\ outbox' \in Seq(Replies') /\ Elements(outbox') \subseteq Elements(outbox)
    BY <1>0, <1>6, PrefixType DEF Lose, Cut
  <2> QED
    BY <1>0, <1>6, <2>1 DEF Lose, clientVars, SummaryEndsRun
<1>7. CASE UNCHANGED vars
  BY <1>0, <1>7 DEF vars, clientVars, SummaryEndsRun
<1> QED
  BY <1>2, <1>3, <1>4, <1>5, <1>6, <1>7 DEF Next, Worker, Client

-----------------------------------------------------------------------------
(* A client that keeps to the protocol.                                     *)

\* The worker has handled the first k lines of the plan: what arrives are the
\* next ones, all that were written while the connection is open, and the run
\* is not over before the last.
Segment(k, s, n) ==
  k + Len(s) <= n - 1 /\ \A i \in 1..Len(s) : s[i] = plan[k + i]

Handled(k) ==
  /\ Segment(k, inbox, at)
  /\ up => k + Len(inbox) = at - 1
  /\ handshake <=> k > 0
  /\ k < Len(plan) => gen = "running"

RunFits == IsRun => Error \notin Elements(outbox) /\ \E k \in Nat : Handled(k)

LEMMA RunLines ==
  ASSUME TypeOK, IsRun
  PROVE  /\ Len(plan) \in Nat /\ Len(plan) > 1
         /\ plan[1].type = "hello" /\ plan[1].version = Version
         /\ plan[Len(plan)].type = "end"
         /\ \A i \in 2..(Len(plan) - 1) :
              /\ plan[i].type = "event" /\ Converts(plan[i].items)
              /\ Elements(plan[i].items) \cap Throwing = {}
<1>1. plan \in Seq(Elements(plan)) /\ Len(plan) \in Nat
  BY PlanType
<1>2. plan[1].type = "hello" /\ plan[1].version = Version
  BY DEF IsRun, Hello
<1>3. plan[Len(plan)].type = "end"
  BY DEF IsRun, End
<1>4. Len(plan) # 1
  BY <1>2, <1>3
<1>5. Len(plan) # 0
  BY <1>1 DEF IsRun
<1> QED
  BY <1>1, <1>2, <1>3, <1>4, <1>5 DEF IsRun, Converts

\* The next line of a run is handled as the client expects.
LEMMA RunLine ==
  ASSUME TypeOK, IsRun, HandleLine, NEW k \in Nat, Handled(k)
  PROVE  /\ inbox' = Tail(inbox) /\ up' = up /\ handshake' = TRUE
         /\ k + 1 < Len(plan) => gen' = "running"
         /\ outbox' = outbox \/ Reply(Welcome) \/ Reply(Summary(processed))
<1> DEFINE line == Head(inbox)
<1>1. /\ inbox # <<>> /\ inbox \in Seq(Elements(plan)) /\ LineCase(line)
      /\ at \in 1..(Len(plan) + 1)
  BY HandleLineParts DEF TypeOK
<1>2. line = plan[k + 1] /\ k + 1 \in 1..Len(plan)
  <2>1. Len(inbox) \in Nat \ {0} /\ line = inbox[1]
    BY <1>1
  <2>2. inbox[1] = plan[k + 1]
    BY <2>1 DEF Handled, Segment
  <2> QED
    BY <1>1, <2>1, <2>2, RunLines DEF Handled, Segment
<1> HIDE DEF line
<1>3. gen = "running"
  BY <1>2, RunLines DEF Handled
<1>4. CASE k = 0
  <2>1. line.type = "hello" /\ line.version = Version
    BY <1>2, <1>4, RunLines
  <2>2. ~handshake
    BY <1>4 DEF Handled
  <2>3. HandleHello(line) /\ inbox' = Tail(inbox)
    BY <1>1, <2>1 DEF LineCase, RefuseVersion
  <2> QED
    BY <1>3, <2>2, <2>3 DEF HandleHello, runtimeVars
<1>5. CASE k > 0 /\ k + 1 < Len(plan)
  <2>1. /\ line.type = "event" /\ Converts(line.items)
        /\ Elements(line.items) \cap Throwing = {}
    BY <1>2, <1>5, RunLines
  <2>2. handshake
    BY <1>5 DEF Handled
  <2>3. HandleEvent(line) /\ inbox' = Tail(inbox)
    BY <1>1, <2>1, <2>2 DEF LineCase, HandleEarly
  <2>4. PICK n \in 0..Len(line.items) :
               /\ EnqueueBatch(line.items, n)
               /\ IF n = Len(line.items) THEN UNCHANGED outbox ELSE Reply(Error)
    BY <2>1, <2>3 DEF HandleEvent
  <2>5. n = Len(line.items)
    <3>1. line.items \in Seq(Elements(line.items))
      BY <1>2, <2>1, PlansAreLines, PlanType DEF TypeOK
    <3>2. ASSUME n < Len(line.items)
          PROVE  FALSE
      <4>1. line.items[n + 1] \in Throwing
        BY <2>4, <3>2 DEF EnqueueBatch, Accepts
      <4>2. n + 1 \in DOMAIN line.items
        BY <3>1, <3>2
      <4> QED
        BY <2>1, <4>1, <4>2 DEF Elements
    <3> QED
      BY <3>1, <3>2
  <2> QED
    BY <1>3, <2>2, <2>3, <2>4, <2>5 DEF HandleEvent, EnqueueBatch
<1>6. CASE k > 0 /\ k + 1 = Len(plan)
  <2>1. line.type = "end"
    BY <1>2, <1>6, RunLines
  <2>2. handshake
    BY <1>6 DEF Handled
  <2>3. HandleEnd /\ inbox' = Tail(inbox)
    BY <1>1, <2>1, <2>2 DEF LineCase, HandleEarly
  <2> QED
    BY <1>3, <1>6, <2>2, <2>3, RunLines DEF HandleEnd
<1>7. k = 0 \/ (k > 0 /\ k + 1 < Len(plan)) \/ (k > 0 /\ k + 1 = Len(plan))
  BY <1>2, RunLines
<1> QED
  BY <1>4, <1>5, <1>6, <1>7

LEMMA SegmentPrefix ==
  ASSUME NEW k \in Nat, NEW n \in Nat, NEW S, NEW s \in Seq(S), Segment(k, s, n),
         NEW p \in Prefixes(s)
  PROVE  Segment(k, p, n)
<1>1. /\ Len(p) \in 0..Len(s) /\ Len(s) \in Nat
      /\ \A i \in 1..Len(p) : p[i] = s[i]
  BY PrefixType
<1> QED
  BY <1>1 DEF Segment

LEMMA SegmentTail ==
  ASSUME NEW k \in Nat, NEW n \in Nat, NEW S, NEW s \in Seq(S), s # <<>>,
         Segment(k, s, n)
  PROVE  Segment(k + 1, Tail(s), n) /\ (k + 1) + Len(Tail(s)) = k + Len(s)
<1>1. /\ Len(s) \in Nat /\ Len(Tail(s)) = Len(s) - 1
      /\ \A i \in 1..(Len(s) - 1) : Tail(s)[i] = s[i + 1]
  BY TailType
<1>2. ASSUME NEW i \in 1..(Len(s) - 1)
      PROVE  Tail(s)[i] = plan[(k + 1) + i]
  <2>1. i + 1 \in 1..Len(s) /\ k + (i + 1) = (k + 1) + i
    BY <1>1
  <2>2. s[i + 1] = plan[k + (i + 1)]
    BY <2>1 DEF Segment
  <2> QED
    BY <1>1, <2>1, <2>2
<1> QED
  BY <1>1, <1>2 DEF Segment

LEMMA SegmentAppend ==
  ASSUME NEW k \in Nat, NEW n \in Nat, NEW S, NEW s \in Seq(S), plan[n] \in S,
         Segment(k, s, n), k + Len(s) = n - 1
  PROVE  /\ Segment(k, Append(s, plan[n]), n + 1)
         /\ k + Len(Append(s, plan[n])) = (n + 1) - 1
<1> DEFINE t == Append(s, plan[n])
<1>1. /\ Len(s) \in Nat /\ Len(t) = Len(s) + 1
      /\ \A i \in 1..(Len(s) + 1) :
           t[i] = IF i = Len(s) + 1 THEN plan[n] ELSE s[i]
  BY AppendType
<1> HIDE DEF t
<1>2. ASSUME NEW i \in 1..(Len(s) + 1)
      PROVE  t[i] = plan[k + i]
  <2>1. CASE i = Len(s) + 1
    <3>1. k + i = n
      BY <1>1, <2>1
    <3> QED
      BY <1>1, <2>1, <3>1
  <2>2. CASE i # Len(s) + 1
    <3>1. i \in 1..Len(s)
      BY <1>1, <2>2
    <3> QED
      BY <1>1, <2>2, <3>1 DEF Segment
  <2> QED
    BY <2>1, <2>2
<1>3. Segment(k, t, n + 1) /\ k + Len(t) = (n + 1) - 1
  BY <1>1, <1>2 DEF Segment
<1> QED
  BY <1>3 DEF t

\* A step that leaves the worker alone keeps the segment.
LEMMA HandledKept ==
  ASSUME NEW k \in Nat, Handled(k), plan' = plan, Segment(k, inbox', at'),
         up' => k + Len(inbox') = at' - 1,
         handshake' = handshake, gen' = gen
  PROVE  Handled(k)'
BY DEF Handled, Segment

LEMMA RunStep ==
  ASSUME TypeOK, RunFits, [Next]_vars
  PROVE  RunFits'
<1> SUFFICES ASSUME IsRun, plan' = plan
             PROVE  Error \notin Elements(outbox') /\ \E k \in Nat : Handled(k)'
  BY InboxStep DEF IsRun, RunFits
<1>0. PICK k \in Nat : Handled(k)
  BY DEF RunFits
<1>1. /\ Error \notin Elements(outbox) /\ Segment(k, inbox, at)
      /\ inbox \in Seq(Elements(plan)) /\ Len(inbox) \in Nat /\ at \in Nat
      /\ plan \in Seq(Elements(plan)) /\ Len(plan) \in Nat
      /\ outbox \in Seq(Replies)
  BY <1>0, PlanType DEF RunFits, Handled, TypeOK, Replies
<1>2. ASSUME HandleLine
      PROVE  Error \notin Elements(outbox') /\ Handled(k + 1)'
  <2>1. /\ inbox' = Tail(inbox) /\ up' = up /\ handshake' = TRUE
        /\ k + 1 < Len(plan) => gen' = "running"
        /\ outbox' = outbox \/ Reply(Welcome) \/ Reply(Summary(processed))
    BY <1>0, <1>2, RunLine
  <2>2. inbox # <<>> /\ at' = at
    BY <1>2, HandleLineParts DEF clientVars
  <2>3. Segment(k + 1, inbox', at') /\ (k + 1) + Len(inbox') = k + Len(inbox)
    BY <1>1, <2>1, <2>2, SegmentTail
  <2>4. up' => (k + 1) + Len(inbox') = at' - 1
    BY <1>0, <2>1, <2>2, <2>3 DEF Handled
  <2>5. Segment(k + 1, inbox, at)'
    BY <2>3 DEF Segment
  <2>6. Handled(k + 1)'
    <3>1. k + 1 > 0
      OBVIOUS
    <3>2. handshake' <=> k + 1 > 0
      BY <2>1, <3>1
    <3>3. k + 1 < Len(plan') => gen' = "running"
      BY <2>1
    <3> QED
      BY <2>4, <2>5, <3>2, <3>3 DEF Handled
  <2>7. Summary(processed) \in Replies /\ Welcome \in Replies
    BY DEF TypeOK, Replies, Summaries
  <2>8. Error # Welcome /\ Error # Summary(processed)
    BY DEF Error, Welcome, Summary
  <2>9. Error \notin Elements(outbox')
    BY <1>1, <2>1, <2>7, <2>8, ReplyType
  <2> QED
    BY <2>6, <2>9
<1>3. CASE HandleLine
  BY <1>2, <1>3
<1>4. ASSUME outbox' = outbox, Segment(k, inbox', at'),
             up' => k + Len(inbox') = at' - 1, handshake' = handshake, gen' = gen
      PROVE  Error \notin Elements(outbox') /\ Handled(k)'
  BY <1>0, <1>1, <1>4, HandledKept
<1>5. CASE NoticeClose \/ Drained \/ UNCHANGED vars
  <2>1. UNCHANGED <<outbox, inbox, at, up, handshake, gen>>
    BY <1>5 DEF NoticeClose, Drained, vars, clientVars, workerVars, runtimeVars
  <2> QED
    BY <1>0, <1>1, <1>4, <2>1 DEF Handled
<1>6. CASE Write
  <2>1. /\ up /\ up' = up /\ inbox' = Append(inbox, plan[at]) /\ at' = at + 1
        /\ UNCHANGED <<outbox, handshake, gen>> /\ ~Written
    BY <1>6 DEF Write, workerVars, runtimeVars
  <2>2. plan[at] \in Elements(plan)
    <3>1. at \in DOMAIN plan
      BY <1>1, <2>1 DEF TypeOK, Written
    <3> QED
      BY <3>1 DEF Elements
  <2>3. k + Len(inbox) = at - 1
    BY <1>0, <2>1 DEF Handled
  <2>4. Segment(k, inbox', at') /\ k + Len(inbox') = at' - 1
    BY <1>1, <2>1, <2>2, <2>3, SegmentAppend
  <2> QED
    BY <1>4, <2>1, <2>4
<1>7. ASSUME inbox' = inbox \/ inbox' \in Prefixes(inbox), at' \in Nat, at <= at'
      PROVE  Segment(k, inbox', at')
  <2>1. Segment(k, inbox', at) /\ Len(inbox') \in Nat
    BY <1>1, <1>7, SegmentPrefix, PrefixType
  <2> QED
    BY <1>1, <1>7, <2>1 DEF Segment
<1>8. CASE WriteClosed \/ Disconnected \/ DrainFails
  <2>1. /\ ~up' /\ UNCHANGED <<outbox, handshake, gen>>
        /\ inbox' = inbox \/ inbox' \in Prefixes(inbox)
        /\ at' = at \/ at' = at + 1
    BY <1>8 DEF WriteClosed, Disconnected, DrainFails, Finish, workerVars, runtimeVars
  <2> QED
    BY <1>1, <1>4, <1>7, <2>1
<1>9. CASE Lose
  <2>1. /\ ~up' /\ UNCHANGED <<at, handshake, gen>>
        /\ inbox' \in Prefixes(inbox) /\ outbox' \in Prefixes(outbox)
    BY <1>9 DEF Lose, Cut, clientVars, workerVars, runtimeVars
  <2>2. Elements(outbox') \subseteq Elements(outbox)
    BY <1>1, <2>1, PrefixType
  <2>3. Handled(k)'
    BY <1>0, <1>1, <1>7, <2>1, HandledKept
  <2> QED
    BY <1>1, <2>2, <2>3
<1>10. CASE Receive
  <2>1. /\ outbox # <<>> /\ outbox' = Tail(outbox) /\ UNCHANGED <<at, handshake, gen>>
        /\ \/ ~up' /\ (inbox' = inbox \/ inbox' \in Prefixes(inbox))
           \/ UNCHANGED <<up, inbox>>
    BY <1>10 DEF Receive, Finish, workerVars, runtimeVars
  <2>2. Elements(outbox') \subseteq Elements(outbox)
    BY <1>1, <2>1, TailType
  <2>3. Segment(k, inbox', at')
    BY <1>1, <1>7, <2>1
  <2>4. up' => k + Len(inbox') = at' - 1
    BY <1>0, <2>1 DEF Handled
  <2>5. Handled(k)'
    BY <1>0, <2>1, <2>3, <2>4, HandledKept
  <2> QED
    BY <1>1, <2>2, <2>5
<1> QED
  BY <1>3, <1>4, <1>5, <1>6, <1>8, <1>9, <1>10 DEF Next, Worker, Client

-----------------------------------------------------------------------------
(* What a summary stands for.                                               *)

\* As long as nothing went wrong and the end is to come, what was handled are
\* the items of the lines handled.
Undisturbed(k) ==
  up /\ Error \notin Elements(outbox) /\ gen = "running" =>
    /\ \A i \in 1..k : plan[i].type # "end"
    /\ handled = Before(k) /\ processed = Len(Before(k))

Follows(k) ==
  /\ Segment(k, inbox, at)
  /\ up => k + Len(inbox) = at - 1
  /\ Undisturbed(k)

Complete(n) == handled = Asked /\ n = Len(Asked)

\* A summary that the client reads before any error stands for all it asked.
TrueIn(s) ==
  \A i \in DOMAIN s :
    s[i].type = "summary" /\ (\A j \in 1..(i - 1) : s[j] # Error)
      => Complete(s[i].eventsProcessed)

Reads == client \in {"running", "draining"}

SummariesTrue ==
  /\ Reads => TrueIn(outbox)
  /\ client = "returned" => Complete(result.eventsProcessed)
  /\ up => Reads

LEMMA FollowingLine ==
  ASSUME TypeOK, HandleLine, NEW k \in Nat, Segment(k, inbox, at)
  PROVE  /\ k + 1 \in 1..Len(plan) /\ LineCase(plan[k + 1])
         /\ ItemsOf(plan[k + 1]) \in Seq(AllItems)
<1>1. /\ inbox # <<>> /\ inbox \in Seq(Elements(plan)) /\ LineCase(Head(inbox))
      /\ at \in 1..(Len(plan) + 1) /\ Len(plan) \in Nat
  BY HandleLineParts, PlanType DEF TypeOK
<1>2. Head(inbox) = inbox[1] /\ 1 \in 1..Len(inbox)
  BY <1>1
<1>3. inbox[1] = plan[k + 1] /\ k + Len(inbox) <= at - 1
  BY <1>2 DEF Segment
<1>4. k + 1 \in 1..Len(plan)
  BY <1>1, <1>2, <1>3
<1> QED
  BY <1>1, <1>2, <1>3, <1>4, ItemsType

\* A line that is refused disturbs the run.
LEMMA Refused ==
  ASSUME TypeOK, Reply(Error), up' = up
  PROVE  up' => Error \in Elements(outbox')
<1>1. CASE up
  <2>1. outbox \in Seq(Replies) /\ Error \in Replies
    BY DEF TypeOK, Replies
  <2>2. outbox' = Append(outbox, Error)
    BY <1>1 DEF Reply
  <2> QED
    BY <2>1, <2>2, AppendType
<1> QED
  BY <1>1

\* What a handler writes to the client.
LEMMA HandlerWrites ==
  ASSUME TypeOK, HandleLine, NEW k \in Nat, Segment(k, inbox, at)
  PROVE  \/ outbox' = outbox
         \/ outbox' = Append(outbox, Error) \/ outbox' = Append(outbox, Welcome)
         \/ ~up' /\ outbox' \in Prefixes(Append(outbox, Error))
         \/ /\ up /\ gen = "running" /\ plan[k + 1].type = "end" /\ handled' = handled
            /\ outbox' = Append(outbox, Summary(processed))
<1> DEFINE line == plan[k + 1]
<1>1. LineCase(line) /\ line \in Elements(plan)
  BY FollowingLine, PlanType DEF Elements
<1> HIDE DEF line
<1>2. CASE HandleJunk \/ HandleHello(line) \/ HandleEarly \/ HandleUnknown
  BY <1>2 DEF HandleJunk, HandleHello, HandleEarly, HandleUnknown, Reply
<1>3. CASE line.type = "event" /\ HandleEvent(line)
  BY <1>1, <1>3, BatchParts
<1>4. CASE line.type = "end" /\ HandleEnd
  BY <1>4 DEF HandleEnd, Reply, line
<1>5. CASE RefuseVersion(line)
  BY <1>5 DEF RefuseVersion, Reply, Cut
<1> QED
  BY <1>1, <1>2, <1>3, <1>4, <1>5 DEF LineCase

LEMMA UndisturbedLine ==
  ASSUME TypeOK, HandleLine, NEW k \in Nat, Segment(k, inbox, at), Undisturbed(k)
  PROVE  Undisturbed(k + 1)'
<1> DEFINE line == plan[k + 1]
<1>1. /\ k + 1 \in 1..Len(plan) /\ LineCase(line)
      /\ ItemsOf(line) \in Seq(AllItems) /\ line \in Elements(plan)
  BY FollowingLine, PlanType DEF Elements
<1>2. plan' = plan
  BY HandleLineParts DEF clientVars
<1>3. Before(k) \in Seq(AllItems) /\ Before(k + 1) = Before(k) \o ItemsOf(line)
  BY <1>1, PlanType, BeforeType, BeforeNext
<1>4. \A i \in 1..(k + 1) : i \in 1..k \/ i = k + 1
  OBVIOUS
<1> SUFFICES ASSUME up', Error \notin Elements(outbox'), gen' = "running"
             PROVE  /\ \A i \in 1..(k + 1) : plan[i].type # "end"
                    /\ handled' = Before(k + 1) /\ processed' = Len(Before(k + 1))
  <2>1. Before(k + 1)' = Before(k + 1)
    BY <1>2 DEF Before
  <2> QED
    BY <1>2, <2>1 DEF Undisturbed
<1> HIDE DEF line
<1>5. gen = "running" /\ up /\ up' = up
  BY RuntimeStep, FlagsStep DEF TypeOK, Next, Worker
<1>6. ~Reply(Error)
  BY <1>5, Refused
<1>7. Error \notin Elements(outbox)
  <2>1. outbox' = outbox \/ outbox' = Append(outbox, Welcome)
    BY <1>1, <1>5, <1>6, BatchParts
       DEF LineCase, HandleJunk, HandleHello, HandleEarly, HandleUnknown,
           HandleEnd, FinishRun, RefuseVersion, Cut, Reply
  <2>2. outbox \in Seq(Replies) /\ Welcome \in Replies
    BY DEF TypeOK, Replies
  <2>3. Elements(Append(outbox, Welcome)) = Elements(outbox) \cup {Welcome}
    BY <2>2, AppendType
  <2> QED
    BY <2>1, <2>3
<1>8. /\ \A i \in 1..k : plan[i].type # "end"
      /\ handled = Before(k) /\ processed = Len(Before(k))
  BY <1>5, <1>7 DEF Undisturbed
<1>9. CASE line.type = "hello" /\ HandleHello(line)
  <2>1. ItemsOf(line) = <<>>
    BY <1>9 DEF ItemsOf
  <2>2. Before(k + 1) = Before(k)
    BY <1>3, <2>1
  <2>3. UNCHANGED <<handled, processed>>
    BY <1>9 DEF HandleHello, workerVars, runtimeVars
  <2> QED
    BY <1>4, <1>8, <1>9, <2>2, <2>3 DEF line
<1>10. CASE line.type = "event" /\ HandleEvent(line)
  <2>1. PICK n \in 0..Len(line.items) :
               EnqueueBatch(line.items, n) /\ n = Len(line.items)
    BY <1>6, <1>10 DEF HandleEvent
  <2>2. ItemsOf(line) = line.items
    BY <1>10 DEF ItemsOf
  <2>3. SubSeq(line.items, 1, n) = line.items /\ n = Len(ItemsOf(line))
    BY <1>1, <2>1, <2>2
  <2>4. handled' = Before(k + 1) /\ processed' = processed + n
    BY <1>3, <1>5, <1>8, <2>1, <2>2, <2>3 DEF EnqueueBatch
  <2>5. \A s, t \in Seq(AllItems) : Len(s \o t) = Len(s) + Len(t)
    OBVIOUS
  <2>6. processed' = Len(Before(k + 1))
    BY <1>1, <1>3, <1>8, <2>3, <2>4, <2>5
  <2> QED
    BY <1>4, <1>8, <1>10, <2>4, <2>6 DEF line
<1> QED
  BY <1>1, <1>5, <1>6, <1>9, <1>10
     DEF LineCase, HandleJunk, HandleEarly, HandleUnknown, HandleEnd, FinishRun,
         RefuseVersion, Cut

\* The summary of an undisturbed run is complete.
LEMMA EndCompletes ==
  ASSUME TypeOK, NEW k \in Nat, Undisturbed(k), k + 1 \in 1..Len(plan),
         plan[k + 1].type = "end", up, gen = "running", Error \notin Elements(outbox)
  PROVE  Complete(processed)
<1>1. /\ \A i \in 1..k : plan[i].type # "end"
      /\ handled = Before(k) /\ processed = Len(Before(k))
  BY DEF Undisturbed
<1>2. FirstEnd = k + 1
  BY <1>1, PlanType, FirstEndIs
<1>3. FirstEnd - 1 = k
  BY <1>2
<1> QED
  BY <1>1, <1>3 DEF Complete, Asked

LEMMA AskedKept ==
  ASSUME plan' = plan
  PROVE  Asked' = Asked
BY DEF Asked, Before, FirstEnd, SelectInSeq

\* What was complete stays so: a summary ends the run.
LEMMA CompleteKept ==
  ASSUME TypeOK, [Next]_vars, gen = "finished"
  PROVE  handled' = handled /\ Asked' = Asked
BY RuntimeStep, InboxStep, AskedKept

\* A step that leaves the runtime alone keeps what is known of the lines handled.
LEMMA FollowsKept ==
  ASSUME NEW k \in Nat, Follows(k), plan' = plan, UNCHANGED runtimeVars,
         Segment(k, inbox', at'),
         up' => /\ up /\ k + Len(inbox') = at' - 1
                /\ Error \in Elements(outbox) => Error \in Elements(outbox')
  PROVE  Follows(k)'
<1>1. Segment(k, inbox, at)' /\ Before(k)' = Before(k)
  BY DEF Segment, Before
<1>2. Undisturbed(k)'
  BY <1>1 DEF Follows, Undisturbed, runtimeVars
<1> QED
  BY <1>1, <1>2 DEF Follows

LEMMA FollowsStep ==
  ASSUME TypeOK, NEW k \in Nat, Follows(k), [Next]_vars
  PROVE  \E j \in Nat : Follows(j)'
<1>0. /\ Segment(k, inbox, at) /\ Undisturbed(k)
      /\ up => k + Len(inbox) = at - 1
      /\ inbox \in Seq(Elements(plan)) /\ Len(inbox) \in Nat /\ at \in Nat
      /\ plan \in Seq(Elements(plan)) /\ Len(plan) \in Nat
      /\ outbox \in Seq(Replies) /\ plan' = plan
  BY PlanType, InboxStep DEF Follows, TypeOK, Replies
<1>1. ASSUME HandleLine
      PROVE  Follows(k + 1)'
  <2>1. /\ inbox # <<>> /\ LineCase(Head(inbox)) /\ at' = at
    BY <1>1, HandleLineParts DEF clientVars
  <2>2. /\ Segment(k + 1, Tail(inbox), at) /\ (k + 1) + Len(Tail(inbox)) = k + Len(inbox)
        /\ Tail(inbox) \in Seq(Elements(plan))
    BY <1>0, <2>1, SegmentTail, TailType
  <2>3. \/ inbox' = Tail(inbox) /\ up' = up
        \/ inbox' \in Prefixes(Tail(inbox)) /\ ~up'
    BY <2>1
       DEF LineCase, RefuseVersion, Cut, HandleJunk, HandleHello, HandleEarly,
           HandleEvent, HandleEnd, HandleUnknown
  <2>4. Segment(k + 1, inbox', at')
    <3>1. k + 1 \in Nat
      OBVIOUS
    <3> QED
      BY <1>0, <2>1, <2>2, <2>3, <3>1, SegmentPrefix
  <2>5. Segment(k + 1, inbox, at)'
    BY <1>0, <2>4 DEF Segment
  <2>6. up' => (k + 1) + Len(inbox') = at' - 1
    BY <1>0, <2>1, <2>2, <2>3
  <2>7. Undisturbed(k + 1)'
    BY <1>0, <1>1, UndisturbedLine
  <2> QED
    BY <2>5, <2>6, <2>7 DEF Follows
<1>2. CASE HandleLine
  <2>1. k + 1 \in Nat
    OBVIOUS
  <2> QED
    BY <1>1, <1>2, <2>1
<1>3. CASE NoticeClose \/ Drained \/ UNCHANGED vars
  <2>1. UNCHANGED <<outbox, inbox, at, up>> /\ UNCHANGED runtimeVars
    BY <1>3 DEF NoticeClose, Drained, vars, clientVars, workerVars, runtimeVars
  <2> QED
    BY <1>0, <2>1, FollowsKept
<1>4. CASE Write
  <2>1. /\ up /\ up' = up /\ inbox' = Append(inbox, plan[at]) /\ at' = at + 1
        /\ outbox' = outbox /\ UNCHANGED runtimeVars /\ ~Written
    BY <1>4 DEF Write, workerVars
  <2>2. plan[at] \in Elements(plan)
    <3>1. at \in DOMAIN plan
      BY <1>0, <2>1 DEF TypeOK, Written
    <3> QED
      BY <3>1 DEF Elements
  <2>3. Segment(k, inbox', at') /\ k + Len(inbox') = at' - 1
    BY <1>0, <2>1, <2>2, SegmentAppend
  <2> QED
    BY <1>0, <2>1, <2>3, FollowsKept
<1>5. ASSUME inbox' = inbox \/ inbox' \in Prefixes(inbox), at' \in Nat, at <= at'
      PROVE  Segment(k, inbox', at')
  <2>1. Segment(k, inbox', at) /\ Len(inbox') \in Nat
    BY <1>0, <1>5, SegmentPrefix, PrefixType
  <2> QED
    BY <1>0, <1>5, <2>1 DEF Segment
<1>6. CASE WriteClosed \/ Disconnected \/ DrainFails \/ Lose
  <2>1. /\ ~up' /\ UNCHANGED runtimeVars
        /\ inbox' = inbox \/ inbox' \in Prefixes(inbox)
        /\ at' = at \/ at' = at + 1
    BY <1>6 DEF WriteClosed, Disconnected, DrainFails, Lose, Cut, Finish,
                clientVars, workerVars
  <2> QED
    BY <1>0, <1>5, <2>1, FollowsKept
<1>7. CASE Receive
  <2> DEFINE m == Head(outbox)
  <2>1. /\ outbox # <<>> /\ outbox' = Tail(outbox) /\ at' = at /\ UNCHANGED runtimeVars
        /\ \/ ~up' /\ (inbox' = inbox \/ inbox' \in Prefixes(inbox))
           \/ UNCHANGED <<up, inbox>> /\ m.type = "hello"
    BY <1>7 DEF Receive, Finish, workerVars
  <2>2. Segment(k, inbox', at')
    BY <1>0, <1>5, <2>1
  <2>3. ASSUME m.type = "hello", Error \in Elements(outbox)
        PROVE  Error \in Elements(outbox')
    <3>1. PICK i \in DOMAIN outbox : outbox[i] = Error
      BY <2>3 DEF Elements
    <3>2. outbox[1] = m /\ m # Error
      BY <1>0, <2>1, <2>3, TailType DEF Error
    <3>3. i - 1 \in 1..(Len(outbox) - 1) /\ (i - 1) + 1 = i
      BY <1>0, <3>1, <3>2
    <3>4. i - 1 \in DOMAIN Tail(outbox) /\ Tail(outbox)[i - 1] = Error
      BY <1>0, <2>1, <3>1, <3>3, TailType
    <3> QED
      BY <2>1, <3>4 DEF Elements
  <2>4. up' => /\ up /\ k + Len(inbox') = at' - 1
               /\ Error \in Elements(outbox) => Error \in Elements(outbox')
    BY <1>0, <2>1, <2>3
  <2> QED
    BY <1>0, <2>1, <2>2, <2>4, FollowsKept
<1> QED
  BY <1>2, <1>3, <1>4, <1>6, <1>7 DEF Next, Worker, Client

\* The summaries under way after a step: each was there before, with the same
\* lines before it, or is complete.
LEMMA TrueAfter ==
  ASSUME TypeOK, SummaryEndsRun, [Next]_vars, TrueIn(outbox), outbox \in Seq(Replies),
         NEW d \in {0, 1}, d = 1 => outbox[1] # Error,
         \A i \in DOMAIN outbox' :
           outbox'[i].type = "summary" /\ (\A j \in 1..(i - 1) : outbox'[j] # Error)
             => \/ /\ i + d \in DOMAIN outbox
                   /\ \A j \in 1..i : outbox'[j] = outbox[j + d]
                \/ Complete(outbox'[i].eventsProcessed) /\ UNCHANGED <<handled, plan>>
  PROVE  TrueIn(outbox)'
<1> SUFFICES ASSUME NEW i \in DOMAIN outbox', outbox'[i].type = "summary",
                    \A j \in 1..(i - 1) : outbox'[j] # Error
             PROVE  handled' = Asked' /\ outbox'[i].eventsProcessed = Len(Asked')
  BY DEF TrueIn, Complete
<1>1. CASE Complete(outbox'[i].eventsProcessed) /\ UNCHANGED <<handled, plan>>
  BY <1>1, AskedKept DEF Complete
<1>2. CASE i + d \in DOMAIN outbox /\ \A j \in 1..i : outbox'[j] = outbox[j + d]
  <2>1. i + d \in 1..Len(outbox) /\ Len(outbox) \in Nat
    BY <1>2
  <2>2. i \in Nat \ {0} /\ i \in 1..i
    <3>1. outbox' \in Seq(Replies')
      BY OutboxStep
    <3> QED
      BY <3>1
  <2>3. outbox'[i] = outbox[i + d]
    BY <1>2, <2>2
  <2>4. outbox[i + d] \in Elements(outbox)
    BY <1>2 DEF Elements
  <2>5. handled' = handled /\ Asked' = Asked
    BY <2>3, <2>4, CompleteKept DEF SummaryEndsRun
  <2>6. \A j \in 1..(i + d - 1) : outbox[j] # Error
    <3> SUFFICES ASSUME NEW j \in 1..(i + d - 1)
                 PROVE  outbox[j] # Error
      OBVIOUS
    <3>1. CASE j - d \in 1..(i - 1)
      <4>1. j - d \in 1..i /\ (j - d) + d = j
        BY <2>2, <3>1
      <4>2. outbox'[j - d] = outbox[j]
        BY <1>2, <4>1
      <4> QED
        BY <3>1, <4>2
    <3>2. CASE j - d \notin 1..(i - 1)
      BY <2>2, <3>2
    <3> QED
      BY <3>1, <3>2
  <2>7. handled = Asked /\ outbox[i + d].eventsProcessed = Len(Asked)
    <3>1. PICK n \in DOMAIN outbox : n = i + d
      BY <1>2
    <3>2. outbox[n].type = "summary" /\ \A j \in 1..(n - 1) : outbox[j] # Error
      BY <2>2, <2>3, <2>6, <3>1
    <3>3. Complete(outbox[n].eventsProcessed)
      BY <3>2 DEF TrueIn
    <3> QED
      BY <3>1, <3>3 DEF Complete
  <2> QED
    BY <2>3, <2>5, <2>7
<1> QED
  BY <1>1, <1>2

LEMMA WritesTrue ==
  ASSUME TypeOK, SummaryEndsRun, TrueIn(outbox), HandleLine, NEW k \in Nat, Follows(k)
  PROVE  TrueIn(outbox)'
<1>0. /\ outbox \in Seq(Replies) /\ Len(outbox) \in Nat
      /\ Segment(k, inbox, at) /\ Undisturbed(k) /\ plan' = plan
  BY HandleLineParts DEF Follows, TypeOK, Replies, clientVars
<1>1. [Next]_vars
  BY DEF Next, Worker
<1>2. CASE outbox' = outbox
  <2>1. \A i \in DOMAIN outbox' :
          i + 0 \in DOMAIN outbox /\ \A j \in 1..i : outbox'[j] = outbox[j + 0]
    BY <1>0, <1>2
  <2> QED
    BY <1>0, <1>1, <2>1, TrueAfter
<1>3. ASSUME NEW m \in Replies,
             outbox' = Append(outbox, m) \/ outbox' \in Prefixes(Append(outbox, m)),
             m.type = "summary" /\ Error \notin Elements(outbox)
               => Complete(m.eventsProcessed) /\ handled' = handled
      PROVE  TrueIn(outbox)'
  <2>1. /\ \A i \in 1..Len(outbox') :
             outbox'[i] = IF i = Len(outbox) + 1 THEN m ELSE outbox[i]
        /\ Len(outbox') \in 0..(Len(outbox) + 1) /\ DOMAIN outbox' = 1..Len(outbox')
    <3>1. /\ Append(outbox, m) \in Seq(Replies)
          /\ Len(Append(outbox, m)) = Len(outbox) + 1
          /\ \A i \in 1..(Len(outbox) + 1) :
               Append(outbox, m)[i] = IF i = Len(outbox) + 1 THEN m ELSE outbox[i]
      BY <1>0, AppendType
    <3>2. /\ outbox' \in Seq(Replies) /\ Len(outbox') \in 0..(Len(outbox) + 1)
          /\ \A i \in 1..Len(outbox') : outbox'[i] = Append(outbox, m)[i]
      <4> DEFINE s == Append(outbox, m)
      <4>1. s \in Seq(Replies) /\ Len(s) = Len(outbox) + 1 /\ Len(s) \in 0..Len(s)
        BY <1>0, <3>1
      <4>2. outbox' = s \/ outbox' \in Prefixes(s)
        BY <1>3
      <4> HIDE DEF s
      <4>3. /\ outbox' \in Seq(Replies) /\ Len(outbox') \in 0..Len(s)
            /\ \A i \in 1..Len(outbox') : outbox'[i] = s[i]
        BY <4>1, <4>2, PrefixType
      <4> QED
        BY <4>1, <4>3 DEF s
    <3> QED
      BY <1>0, <3>1, <3>2
  <2>2. ASSUME NEW i \in DOMAIN outbox', outbox'[i].type = "summary",
               \A j \in 1..(i - 1) : outbox'[j] # Error
        PROVE  \/ /\ i + 0 \in DOMAIN outbox
                  /\ \A j \in 1..i : outbox'[j] = outbox[j + 0]
               \/ Complete(outbox'[i].eventsProcessed) /\ UNCHANGED <<handled, plan>>
    <3>1. CASE i <= Len(outbox)
      BY <1>0, <2>1, <3>1
    <3>2. CASE i = Len(outbox) + 1
      <4>1. outbox'[i] = m
        BY <2>1, <2>2, <3>2
      <4>2. Error \notin Elements(outbox)
        <5>1. \A j \in DOMAIN outbox : j \in 1..(i - 1) /\ outbox'[j] = outbox[j]
          BY <1>0, <2>1, <2>2, <3>2
        <5> QED
          BY <2>2, <5>1 DEF Elements
      <4> QED
        BY <1>0, <1>3, <2>2, <4>1, <4>2
    <3> QED
      BY <1>0, <2>1, <2>2, <3>1, <3>2
  <2> QED
    BY <1>0, <1>1, <2>2, TrueAfter
<1>4. /\ {Error, Welcome, Summary(processed)} \subseteq Replies
      /\ Error.type # "summary" /\ Welcome.type # "summary"
      /\ Summary(processed).eventsProcessed = processed
  BY DEF TypeOK, Replies, Summaries, Error, Welcome, Summary
<1>5. CASE \/ outbox' = Append(outbox, Error) \/ outbox' = Append(outbox, Welcome)
           \/ outbox' \in Prefixes(Append(outbox, Error))
  BY <1>3, <1>4, <1>5
<1>6. CASE /\ up /\ gen = "running" /\ plan[k + 1].type = "end" /\ handled' = handled
           /\ outbox' = Append(outbox, Summary(processed))
  <2>1. Error \notin Elements(outbox) => Complete(processed)
    BY <1>0, <1>6, FollowingLine, EndCompletes
  <2> QED
    BY <1>3, <1>4, <1>6, <2>1
<1> QED
  BY <1>0, <1>2, <1>5, <1>6, HandlerWrites

LEMMA SummariesStep ==
  ASSUME TypeOK, SummaryEndsRun, SummariesTrue, NEW k \in Nat, Follows(k), [Next]_vars
  PROVE  SummariesTrue'
<1> DEFINE Goal == /\ Reads' => TrueIn(outbox)'
                   /\ client' = "returned"
                        => handled' = Asked' /\ result'.eventsProcessed = Len(Asked')
<1>0. outbox \in Seq(Replies) /\ outbox' \in Seq(Replies') /\ Len(outbox) \in Nat
  BY OutboxStep DEF TypeOK, Replies
<1>1. up' => Reads'
  BY FlagsStep
     DEF SummariesTrue, Reads, Next, Worker, HandleLine, NoticeClose, Client, Write,
         Drained, WriteClosed, Receive, Disconnected, DrainFails, Finish, Lose, Cut,
         vars, clientVars
\* A client that has returned keeps what it returned, and nothing is handled.
<1>2. ASSUME client' = "returned" => client = "returned" /\ result' = result
      PROVE  client' = "returned"
               => handled' = Asked' /\ result'.eventsProcessed = Len(Asked')
  <2>1. client = "returned" => handled' = handled /\ Asked' = Asked
    BY CompleteKept DEF SummaryEndsRun
  <2> QED
    BY <1>2, <2>1 DEF SummariesTrue, Complete
<1>3. ASSUME outbox' = outbox \/ outbox' \in Prefixes(outbox), Reads
      PROVE  TrueIn(outbox)'
  <2>1. /\ Len(outbox') \in 0..Len(outbox)
        /\ \A i \in 1..Len(outbox') : outbox'[i] = outbox[i]
    BY <1>0, <1>3, PrefixType
  <2>2. \A i \in DOMAIN outbox' :
          i + 0 \in DOMAIN outbox /\ \A j \in 1..i : outbox'[j] = outbox[j + 0]
    BY <1>0, <2>1
  <2> QED
    BY <1>0, <1>3, <2>2, TrueAfter DEF SummariesTrue
<1>4. CASE HandleLine
  <2>1. UNCHANGED clientVars
    BY <1>4, HandleLineParts
  <2>2. Reads => TrueIn(outbox)'
    BY <1>4, WritesTrue DEF SummariesTrue
  <2> QED
    BY <1>1, <1>2, <2>1, <2>2 DEF SummariesTrue, Complete, clientVars, Reads
<1>5. CASE \/ NoticeClose \/ Write \/ Drained \/ WriteClosed \/ Disconnected
           \/ DrainFails \/ Lose \/ UNCHANGED vars
  <2>1. /\ outbox' = outbox \/ outbox' \in Prefixes(outbox)
        /\ client' = "returned" => client = "returned" /\ result' = result
        /\ Reads' => Reads
    BY <1>5
       DEF NoticeClose, Write, Drained, WriteClosed, Disconnected, DrainFails, Lose,
           Cut, Finish, Reads, vars, clientVars
  <2> QED
    BY <1>1, <1>2, <1>3, <2>1 DEF SummariesTrue, Complete
<1>6. CASE Receive
  <2> DEFINE m == Head(outbox)
  <2>1. /\ outbox # <<>> /\ outbox' = Tail(outbox) /\ Reads /\ plan' = plan
        /\ handled' = handled /\ m = outbox[1]
    BY <1>0, <1>6 DEF Receive, Reads, workerVars, runtimeVars
  <2>2. \/ m.type = "summary" /\ client' = "returned" /\ result' = m
        \/ m.type = "error" /\ client' = "threw"
        \/ m.type = "hello" /\ client' = client /\ client = "running"
    BY <1>6 DEF Receive, Finish
  <2>3. CASE m.type = "summary" /\ client' = "returned" /\ result' = m
    <3>1. 1 \in DOMAIN outbox /\ 1..(1 - 1) = {}
      BY <1>0, <2>1
    <3>2. Complete(m.eventsProcessed)
      BY <2>1, <2>3, <3>1 DEF SummariesTrue, TrueIn
    <3> QED
      BY <1>1, <2>1, <2>3, <3>2, AskedKept DEF SummariesTrue, Complete, Reads
  <2>4. CASE m.type = "error" /\ client' = "threw"
    BY <1>1, <2>4 DEF SummariesTrue, Reads
  <2>5. CASE m.type = "hello" /\ client' = client /\ client = "running"
    <3>1. outbox[1] # Error
      BY <2>1, <2>5 DEF Error
    <3>2. \A i \in DOMAIN outbox' :
            i + 1 \in DOMAIN outbox /\ \A j \in 1..i : outbox'[j] = outbox[j + 1]
      <4>1. /\ Len(outbox') = Len(outbox) - 1
            /\ \A j \in 1..(Len(outbox) - 1) : outbox'[j] = outbox[j + 1]
        BY <1>0, <2>1, TailType
      <4> QED
        BY <1>0, <4>1
    <3>3. TrueIn(outbox)'
      BY <1>0, <2>1, <3>1, <3>2, TrueAfter DEF SummariesTrue
    <3> QED
      BY <1>1, <2>5, <3>3 DEF SummariesTrue, Complete
  <2> HIDE DEF m
  <2> QED
    BY <2>2, <2>3, <2>4, <2>5
<1> QED
  BY <1>4, <1>5, <1>6 DEF Next, Worker, Client

-----------------------------------------------------------------------------
(* The theorems.                                                            *)

\* A summary finishes the generator, until then a run is where its lines say,
\* and the worker follows the plan: what no property of a client states, but each
\* rests on.
IInv ==
  /\ TypeOK /\ SummaryEndsRun /\ RunFits
  /\ SummariesTrue /\ \E k \in Nat : Follows(k)

LEMMA InvInit ==
  ASSUME Init
  PROVE  IInv
<1>1. plan \in Seq(Elements(plan)) /\ Len(plan) \in Nat
  BY PlansAreLines DEF Init
<1>2. 1 \in 1..(Len(plan) + 1)
  BY <1>1
<1>3. TypeOK
  <2>1. {up, handshake, closing} \subseteq BOOLEAN
    BY DEF Init
  <2>2. inbox \in Seq(Elements(plan)) /\ outbox \in Seq({Welcome, Error} \cup Summaries)
    BY DEF Init
  <2> QED
    BY <1>1, <1>2, <2>1, <2>2 DEF Init, TypeOK
<1>4. Elements(<<>>) = {}
  BY DEF Elements
<1>5. SummaryEndsRun
  BY <1>4 DEF Init, SummaryEndsRun
<1>6. Handled(0)
  BY <1>1 DEF Init, Handled, Segment
<1>7. RunFits
  BY <1>4, <1>6 DEF Init, RunFits
<1>8. Before(0) = <<>> /\ <<>> = handled /\ Len(<<>>) = 0
  <2>1. [i \in 1..0 |-> ItemsOf(plan[i])] = <<>>
    OBVIOUS
  <2> QED
    BY <2>1 DEF Init, Before, FlattenSeq
<1>9. Follows(0)
  BY <1>1, <1>8 DEF Init, Follows, Undisturbed, Segment
<1>10. SummariesTrue
  BY DEF Init, SummariesTrue, TrueIn, Reads
<1> QED
  BY <1>3, <1>5, <1>7, <1>9, <1>10 DEF IInv

LEMMA InvNext ==
  ASSUME IInv, [Next]_vars
  PROVE  IInv'
<1> USE DEF IInv
<1>1. /\ plan' = plan /\ inbox' \in Seq(Elements(plan'))
      /\ at' \in 1..(Len(plan') + 1) /\ plan' \in Plans
  BY InboxStep DEF TypeOK
<1>2. /\ outbox' \in Seq(Replies') /\ result' \in {NoSummary} \cup Summaries'
      /\ client' \in {"running", "draining", "returned", "threw"}
      /\ SummaryEndsRun'
  BY OutboxStep
<1>3. processed' \in Nat /\ gen' \in {"running", "finished"}
  BY RuntimeStep
<1>4. {up', handshake', closing'} \subseteq BOOLEAN
  <2>1. {up, handshake, closing} \subseteq BOOLEAN
    BY DEF TypeOK
  <2> QED
    BY <2>1, FlagsStep
<1>5. TypeOK'
  BY <1>1, <1>2, <1>3, <1>4 DEF TypeOK, Replies
<1>6. SummariesTrue' /\ \E k \in Nat : Follows(k)'
  BY SummariesStep, FollowsStep
<1> QED
  BY <1>2, <1>5, <1>6, RunStep

LEMMA Invariance == Spec => []IInv
<1>1. Init => IInv
  BY InvInit
<1>2. IInv /\ [Next]_vars => IInv'
  BY InvNext
<1> QED
  BY <1>1, <1>2, PTL DEF Spec

\* The channels carry lines of the plan and replies, and a summary never says
\* more events than were processed (transport.ts:139-220, perf.ts:461-504).
THEOREM TypeCorrect == Spec => []TypeOK
<1>1. IInv => TypeOK
  BY DEF IInv
<1> QED
  BY <1>1, Invariance, PTL

\* A summary that reaches the client stands for a complete run: every item it
\* sent before its first end was handled, in order, and counted, whatever else it
\* sent, whatever was refused and wherever the connection broke
\* (transport.ts:177-203, perf.ts:492-500).
THEOREM SummariesAreComplete == Spec => []SummaryIsComplete
<1>1. IInv => SummaryIsComplete
  BY DEF IInv, SummariesTrue, Complete, SummaryIsComplete
<1> QED
  BY <1>1, Invariance, PTL

\* A client that keeps to the protocol, with items the worker can handle, is
\* never refused, however long its run is and wherever the connection breaks
\* (perf.ts:475-500, transport.ts:143-209).
THEOREM RunsAreNeverRefused == Spec => []RunIsNeverRefused
<1>1. IInv => RunIsNeverRefused
  BY DEF IInv, RunFits, RunIsNeverRefused
<1> QED
  BY <1>1, Invariance, PTL

\* Nothing is handled once a summary is written: a summary stays true
\* (workerRuntime.ts:105-121, transport.ts:195-203).
THEOREM SummariesAreFinal == Spec => SummaryIsFinal
<1>1. ASSUME IInv, [Next]_vars
      PROVE  [(\E m \in Elements(outbox) : m.type = "summary") \/ client = "returned"
                => UNCHANGED handled]_vars
  BY <1>1, RuntimeStep DEF IInv, SummaryEndsRun
<1> QED
  BY <1>1, Invariance, PTL DEF Spec, SummaryIsFinal

==============================================================================
