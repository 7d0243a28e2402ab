------------------------ MODULE PubSubDeliveryProofs ------------------------
(***************************************************************************)
(* What the server delivers, for every set of connections, documents,       *)
(* scores and queries and any number of changes: the document index follows *)
(* the table, no document of an unlimited query is lost between a snapshot  *)
(* and the replication, and each connection is sent the one event of an     *)
(* update.                                                                  *)
(***************************************************************************)
EXTENDS PubSubProofs

-----------------------------------------------------------------------------
(* The table and its log.                                                   *)

OneRowPerDoc == \A e, f \in table : e[2] = f[2] => e = f

\* The changes of a document follow each other: each replaces what the one
\* before it left, and the last left what the table has.
LogChains ==
  /\ \A d \in Docs :
       /\ \A i \in Waiting(d) :
            (\A j \in Waiting(d) : j <= i) => wal[i].new = ScoreOf(d)
       /\ \A i, j \in Waiting(d) :
            i < j /\ (\A k \in Waiting(d) : k <= i \/ j <= k)
              => wal[j].old = wal[i].new
  /\ \A i \in DOMAIN wal : wal[i].kind = "delete" <=> wal[i].new = NoScore

LEMMA LogType ==
  ASSUME TypeOK
  PROVE  /\ wal \in Seq(Changes) /\ Len(wal) \in Nat
         /\ DOMAIN wal = 1 .. Len(wal)
         /\ \A i \in DOMAIN wal : wal[i] \in Changes
<1>1. wal \in Seq(Changes)
  BY DEF TypeOK, Changes
<1> QED
  BY <1>1

LEMMA LogGrows ==
  ASSUME TypeOK, NEW m \in Changes, wal' = Append(wal, m)
  PROVE  /\ Len(wal) \in Nat /\ DOMAIN wal = 1 .. Len(wal)
         /\ DOMAIN wal' = 1 .. Len(wal) + 1
         /\ \A i \in DOMAIN wal : wal'[i] = wal[i]
         /\ wal'[Len(wal) + 1] = m
         /\ \A x : Waiting(x)' = IF x = m.doc THEN Waiting(x) \cup {Len(wal) + 1}
                                             ELSE Waiting(x)
<1>1. wal \in Seq(Changes)
  BY LogType
<1>2. /\ Len(wal) \in Nat /\ DOMAIN wal = 1 .. Len(wal)
      /\ DOMAIN wal' = 1 .. Len(wal) + 1
      /\ \A i \in DOMAIN wal : wal'[i] = wal[i]
      /\ wal'[Len(wal) + 1] = m
  BY <1>1
<1> QED
  BY <1>2 DEF Waiting

LEMMA LogShrinks ==
  ASSUME TypeOK, wal # <<>>, wal' = Tail(wal)
  PROVE  /\ Len(wal) \in Nat \ {0} /\ DOMAIN wal = 1 .. Len(wal)
         /\ DOMAIN wal' = 1 .. Len(wal) - 1
         /\ \A i \in DOMAIN wal' : wal'[i] = wal[i + 1]
         /\ Head(wal) = wal[1]
         /\ \A x : \A i \in Waiting(x)' : i \in Nat /\ i + 1 \in Waiting(x)
         /\ \A x : \A i \in Waiting(x) : i \in Nat /\ (i = 1 \/ i - 1 \in Waiting(x)')
<1>1. wal \in Seq(Changes)
  BY LogType
<1>2. /\ Len(wal) \in Nat \ {0} /\ DOMAIN wal = 1 .. Len(wal)
      /\ DOMAIN wal' = 1 .. Len(wal) - 1
      /\ \A i \in DOMAIN wal' : wal'[i] = wal[i + 1]
      /\ Head(wal) = wal[1]
  BY <1>1
<1>3. \A x : \A i \in Waiting(x)' : i \in Nat /\ i + 1 \in Waiting(x)
  BY <1>2 DEF Waiting
<1>4. \A x : \A i \in Waiting(x) : i \in Nat /\ (i = 1 \/ i - 1 \in Waiting(x)')
  <2>1. \A i \in DOMAIN wal : i \in Nat /\ (i = 1 \/ (i - 1 \in DOMAIN wal' /\ wal'[i - 1] = wal[i]))
    BY <1>2
  <2> QED
    BY <2>1 DEF Waiting
<1> QED
  BY <1>2, <1>3, <1>4

\* The score of a document is the one of its row.
LEMMA ScoreIsRow ==
  ASSUME TypeOK, OneRowPerDoc
  PROVE  /\ \A e \in table : ScoreOf(e[2]) = e[1]
         /\ \A d : ScoreOf(d) # NoScore => <<ScoreOf(d), d>> \in table
         /\ \A d : RowsOf(table, d) = Row(d, ScoreOf(d))
<1>1. table \subseteq Rows /\ \A e \in Rows : e = <<e[1], e[2]>> /\ e[1] # NoScore
  BY ScoresAreScores DEF TypeOK, Rows
<1>2. ASSUME NEW e \in table
      PROVE  ScoreOf(e[2]) = e[1]
  <2>1. (CHOOSE f \in table : f[2] = e[2]) = e
    BY DEF OneRowPerDoc
  <2> QED
    BY <2>1 DEF ScoreOf
<1>3. ASSUME NEW d, ScoreOf(d) # NoScore
      PROVE  <<ScoreOf(d), d>> \in table
  <2>1. PICK e \in table : e[2] = d
    BY <1>3 DEF ScoreOf
  <2> QED
    BY <1>1, <1>2, <2>1
<1>4. ASSUME NEW d
      PROVE  RowsOf(table, d) = Row(d, ScoreOf(d))
  <2>1. CASE ScoreOf(d) = NoScore
    BY <1>1, <1>2, <2>1 DEF RowsOf, Row
  <2>2. CASE ScoreOf(d) # NoScore
    <3>1. <<ScoreOf(d), d>> \in table
      BY <1>3, <2>2
    <3>2. \A e \in table : e[2] = d => e = <<ScoreOf(d), d>>
      BY <3>1 DEF OneRowPerDoc
    <3> QED
      BY <2>2, <3>1, <3>2 DEF RowsOf, Row
  <2> QED
    BY <2>1, <2>2
<1> QED
  BY <1>2, <1>3, <1>4

LEMMA ChangedScores ==
  ASSUME TypeOK, OneRowPerDoc, NEW kind, NEW d \in Docs, NEW v \in Values,
         Change(kind, d, v)
  PROVE  /\ OneRowPerDoc' /\ ScoreOf(d)' = v
         /\ \A x : x # d => ScoreOf(x)' = ScoreOf(x)
<1>1. /\ table' = (table \ Row(d, ScoreOf(d))) \cup Row(d, v)
      /\ RowsOf(table, d) = Row(d, ScoreOf(d))
  BY ScoreIsRow DEF Change
<1>2. \A e \in table' : e[2] = d <=> e \in Row(d, v)
  BY <1>1 DEF RowsOf, Row
<1>3. \A e : e[2] # d => (e \in table' <=> e \in table)
  BY <1>1, <1>2 DEF RowsOf, Row
<1>4. OneRowPerDoc'
  BY <1>2, <1>3 DEF OneRowPerDoc, Row
<1>5. ScoreOf(d)' = v
  <2>1. CASE v = NoScore
    <3>1. ~ \E e \in table' : e[2] = d
      BY <1>2, <2>1 DEF Row
    <3> QED
      BY <2>1, <3>1 DEF ScoreOf
  <2>2. CASE v # NoScore
    <3>1. <<v, d>> \in table'
      BY <1>1, <2>2 DEF Row
    <3>2. \A e \in table' : e[2] = d => e = <<v, d>>
      BY <1>2, <2>2 DEF Row
    <3>3. (CHOOSE e \in table' : e[2] = d) = <<v, d>>
      BY <3>1, <3>2
    <3>4. \E e \in table' : e[2] = d
      BY <3>1
    <3>5. <<v, d>>[1] = v
      OBVIOUS
    <3> QED
      BY <3>3, <3>4, <3>5, Zenon DEF ScoreOf
  <2> QED
    BY <2>1, <2>2
<1>6. ASSUME NEW x, x # d
      PROVE  ScoreOf(x)' = ScoreOf(x)
  <2>1. \A e : (e \in table' /\ e[2] = x) <=> (e \in table /\ e[2] = x)
    BY <1>3, <1>6
  <2>2. (CHOOSE e \in table' : e[2] = x) = (CHOOSE e \in table : e[2] = x)
    BY <2>1
  <2> QED
    BY <2>1, <2>2 DEF ScoreOf
<1> QED
  BY <1>4, <1>5, <1>6

\* What a step does to the table and its log.
LEMMA LogCases ==
  ASSUME [Next]_vars
  PROVE  \/ \E kind \in Kinds, d \in Docs, v \in Values :
              Change(kind, d, v) /\ (kind = "delete" <=> v = NoScore)
         \/ TakeChange \/ TakeDelete
         \/ UNCHANGED <<table, wal>> /\ (Replication \/ UNCHANGED <<rep, docIndex>>)
<1>1. Replication => TakeChange \/ TakeDelete \/ UNCHANGED <<table, wal>>
  BY DEF Replication, ReadConns, Tell, IndexDoc, DropQuery, Drop, UnindexDoc,
         Refill, ChooseFill, Fill, database
<1>2. ASSUME NEW c \in Conns, Connection(c)
      PROVE  UNCHANGED <<table, wal, rep, docIndex>>
  BY <1>2 DEF Connection, Connect, Subscribe, Snapshot, SnapshotFails, ApplyRow,
              Unsubscribe, Unregister, LeaveQueries, ClearStorage, database
<1>3. ASSUME NEW d \in Docs, NEW v \in Scores, Insert(d, v) \/ Update(d, v)
      PROVE  \E kind \in Kinds, x \in Docs, y \in Values :
               Change(kind, x, y) /\ (kind = "delete" <=> y = NoScore)
  <2>1. v # NoScore /\ v \in Values
    BY ScoresAreScores DEF Values
  <2> QED
    BY <1>3, <2>1 DEF Insert, Update, Kinds
<1>4. ASSUME NEW d \in Docs, Delete(d)
      PROVE  \E kind \in Kinds, x \in Docs, y \in Values :
               Change(kind, x, y) /\ (kind = "delete" <=> y = NoScore)
  BY <1>4 DEF Delete, Kinds, Values
<1>5. UNCHANGED vars => UNCHANGED <<table, wal, rep, docIndex>>
  BY DEF vars, database
<1> QED
  BY <1>1, <1>2, <1>3, <1>4, <1>5 DEF Next

\* A change is added after the others.
LEMMA AppendKeepsLog ==
  ASSUME TypeOK, OneRowPerDoc, LogChains, NEW kind \in Kinds, NEW d \in Docs,
         NEW v \in Values, Change(kind, d, v), kind = "delete" <=> v = NoScore
  PROVE  LogChains'
<1> DEFINE m == [kind |-> kind, doc |-> d, old |-> ScoreOf(d), new |-> v]
           n == Len(wal) + 1
<1>1. m \in Changes
  BY ScoreOfType DEF Changes
<1>2. m.kind = kind /\ m.doc = d /\ m.old = ScoreOf(d) /\ m.new = v
  OBVIOUS
<1>3. wal' = Append(wal, m)
  BY DEF Change
<1> HIDE DEF m
<1>4. /\ n \in Nat /\ DOMAIN wal = 1 .. n - 1 /\ DOMAIN wal' = 1 .. n
      /\ (\A i \in DOMAIN wal : wal'[i] = wal[i]) /\ wal'[n] = m
      /\ Waiting(d)' = Waiting(d) \cup {n}
      /\ \A x : x # d => Waiting(x)' = Waiting(x)
  BY <1>1, <1>2, <1>3, LogGrows
<1> HIDE DEF n
<1>5. /\ ScoreOf(d)' = v
      /\ \A x : x # d => ScoreOf(x)' = ScoreOf(x)
  BY ChangedScores
<1>6. \A x : \A i \in Waiting(x) : i \in DOMAIN wal /\ i < n /\ wal'[i] = wal[i]
  BY <1>4 DEF Waiting
<1>7. ASSUME NEW x \in Docs, x # d
      PROVE  /\ \A i \in Waiting(x)' :
                  (\A j \in Waiting(x)' : j <= i) => wal'[i].new = ScoreOf(x)'
             /\ \A i, j \in Waiting(x)' :
                  i < j /\ (\A k \in Waiting(x)' : k <= i \/ j <= k)
                    => wal'[j].old = wal'[i].new
  BY <1>4, <1>5, <1>6, <1>7 DEF LogChains
<1>8. ASSUME NEW i \in Waiting(d)', \A j \in Waiting(d)' : j <= i
      PROVE  wal'[i].new = ScoreOf(d)'
  <2>1. i = n
    BY <1>4, <1>6, <1>8
  <2> QED
    BY <1>2, <1>4, <1>5, <2>1
<1>9. ASSUME NEW i \in Waiting(d)', NEW j \in Waiting(d)', i < j,
             \A k \in Waiting(d)' : k <= i \/ j <= k
      PROVE  wal'[j].old = wal'[i].new
  <2>1. i \in Waiting(d) /\ wal'[i] = wal[i]
    BY <1>4, <1>6, <1>9
  <2>2. CASE j = n
    <3>1. \A k \in Waiting(d) : k <= i
      BY <1>4, <1>6, <1>9, <2>2
    <3> QED
      BY <1>2, <1>4, <2>1, <2>2, <3>1 DEF LogChains
  <2>3. CASE j # n
    <3>1. j \in Waiting(d) /\ wal'[j] = wal[j]
      BY <1>4, <1>6, <2>3
    <3> QED
      BY <1>4, <1>9, <2>1, <3>1 DEF LogChains
  <2> QED
    BY <2>2, <2>3
<1>10. \A i \in DOMAIN wal' : wal'[i].kind = "delete" <=> wal'[i].new = NoScore
  BY <1>2, <1>4 DEF LogChains
<1> QED
  BY <1>7, <1>8, <1>9, <1>10 DEF LogChains

\* A change is taken from the front.
LEMMA TailKeepsLog ==
  ASSUME TypeOK, LogChains, wal # <<>>, wal' = Tail(wal), UNCHANGED table
  PROVE  LogChains'
<1>1. /\ Len(wal) \in Nat \ {0} /\ DOMAIN wal = 1 .. Len(wal)
      /\ DOMAIN wal' = 1 .. Len(wal) - 1
      /\ \A i \in DOMAIN wal' : wal'[i] = wal[i + 1]
      /\ \A x : \A i \in Waiting(x)' : i \in Nat /\ i + 1 \in Waiting(x)
      /\ \A x : \A i \in Waiting(x) : i \in Nat /\ (i = 1 \/ i - 1 \in Waiting(x)')
  BY LogShrinks
<1>2. \A x : ScoreOf(x)' = ScoreOf(x)
  BY DEF ScoreOf
<1>3. \A x : \A i \in Waiting(x)' : i >= 1 /\ wal'[i] = wal[i + 1]
  BY <1>1 DEF Waiting
<1>4. ASSUME NEW d \in Docs, NEW i \in Waiting(d)',
             \A j \in Waiting(d)' : j <= i
      PROVE  wal'[i].new = ScoreOf(d)'
  <2>1. \A j \in Waiting(d) : j <= i + 1
    BY <1>1, <1>3, <1>4
  <2>2. i + 1 \in Waiting(d)
    BY <1>1
  <2> QED
    BY <1>2, <1>3, <2>1, <2>2 DEF LogChains
<1>5. ASSUME NEW d \in Docs, NEW i \in Waiting(d)', NEW j \in Waiting(d)', i < j,
             \A k \in Waiting(d)' : k <= i \/ j <= k
      PROVE  wal'[j].old = wal'[i].new
  <2>1. i \in Nat /\ j \in Nat /\ i + 1 \in Waiting(d) /\ j + 1 \in Waiting(d)
    BY <1>1
  <2>2. \A k \in Waiting(d) : k <= i + 1 \/ j + 1 <= k
    BY <1>1, <1>3, <1>5, <2>1
  <2>3. i + 1 < j + 1
    BY <1>5, <2>1
  <2>4. wal[j + 1].old = wal[i + 1].new
    <3> DEFINE ii == i + 1  jj == j + 1
    <3>1. /\ ii \in Waiting(d) /\ jj \in Waiting(d) /\ ii < jj
          /\ \A k \in Waiting(d) : k <= ii \/ jj <= k
      BY <2>1, <2>2, <2>3
    <3> HIDE DEF ii, jj
    <3>2. wal[jj].old = wal[ii].new
      BY <3>1 DEF LogChains
    <3> QED
      BY <3>2 DEF ii, jj
  <2> QED
    BY <1>3, <2>4
<1>6. \A i \in DOMAIN wal' : wal'[i].kind = "delete" <=> wal'[i].new = NoScore
  BY <1>1 DEF LogChains
<1> QED
  BY <1>4, <1>5, <1>6 DEF LogChains

LEMMA LogStep ==
  ASSUME TypeOK, OneRowPerDoc, LogChains, [Next]_vars
  PROVE  OneRowPerDoc' /\ LogChains'
<1>1. CASE \E kind \in Kinds, d \in Docs, v \in Values :
             Change(kind, d, v) /\ (kind = "delete" <=> v = NoScore)
  BY <1>1, ChangedScores, AppendKeepsLog
<1>2. CASE TakeChange \/ TakeDelete
  <2>1. wal # <<>> /\ wal' = Tail(wal) /\ table' = table
    BY <1>2 DEF TakeChange, TakeDelete, Take
  <2> QED
    BY <2>1, TailKeepsLog DEF OneRowPerDoc
<1>3. CASE UNCHANGED <<table, wal>>
  BY <1>3 DEF OneRowPerDoc, LogChains, Waiting, ScoreOf
<1> QED
  BY <1>1, <1>2, <1>3, LogCases

-----------------------------------------------------------------------------
(* The document index follows the table.                                    *)

\* The handler has brought the document index up to date.
Indexed == rep.kind # "delete" /\ rep.pc \in {"refill", "choose", "fill"}

\* Every document but the one being handled has in the index the row it had
\* before the changes that wait; that one has the row before its change, or
\* after it, and the next change to it replaces what this one leaves.
IndexTracks ==
  /\ \A d \in Docs : rep.pc = "idle" \/ d # rep.doc =>
       \E v \in Values : Handled(d, v) /\ RowsOf(docIndex, d) = Row(d, v)
  /\ rep.pc # "idle" =>
       /\ Handled(rep.doc, rep.new)
       /\ RowsOf(docIndex, rep.doc) = Row(rep.doc, IF Indexed THEN rep.new ELSE rep.old)
       /\ rep.kind = "delete" <=> rep.new = NoScore

\* The handler r is about the change that rep is about.
SameChange(r) == /\ r.kind = rep.kind /\ r.doc = rep.doc
                 /\ r.old = rep.old /\ r.new = rep.new

\* A handler that has nothing left to refill.
LEMMA OnwardCases ==
  ASSUME NEW r \in Handlers, r.pc = "refill", SameChange(r)
  PROVE  /\ r.refills = {} /\ rep.kind # "delete" => Onward(r) = Idle
         /\ r.refills = {} /\ rep.kind = "delete"
              => Onward(r) = [r EXCEPT !.pc = "drop"]
         /\ r.refills # {} => Onward(r) = r
         /\ \/ Onward(r) = Idle /\ rep.kind # "delete"
            \/ Onward(r) = [r EXCEPT !.pc = "drop"] /\ rep.kind = "delete"
            \/ Onward(r) = r
         /\ Onward(r) = Idle => Onward(r).pc = "idle"
BY DEF Onward, SameChange, Idle

\* A step within a handler, after the change is taken.
LEMMA HandlerFrame ==
  ASSUME Replication, ~TakeChange, ~TakeDelete, TypeOK
  PROVE  /\ rep.pc # "idle" /\ UNCHANGED <<table, wal>>
         /\ \/ IndexDoc \/ UnindexDoc
            \/ docIndex' = docIndex /\ rep'.pc = "idle" /\ Indexed
            \/ /\ docIndex' = docIndex /\ rep'.pc # "idle" /\ SameChange(rep')
               /\ Indexed' <=> Indexed
         /\ rep'.pc \in {"conns", "tell"} => ReadConns \/ \E c \in Conns : Tell(c)
<1> DEFINE Later == rep'.pc \notin {"conns", "tell"}
           Within == \/ rep'.pc = "idle" /\ Indexed
                     \/ /\ rep'.pc # "idle" /\ SameChange(rep')
                        /\ Indexed' <=> Indexed
<1>0. rep \in Handlers
  BY DEF TypeOK
<1>1. ASSUME ReadConns
      PROVE  Within
  BY <1>1 DEF ReadConns, Indexed, SameChange
<1>2. ASSUME NEW c \in Conns, Tell(c)
      PROVE  Within
  BY <1>0, <1>2 DEF Tell, Notify, Indexed, SameChange, Handlers
<1>3. ASSUME NEW q \in QueryIds, DropQuery(q)
      PROVE  Within /\ Later
  BY <1>0, <1>3 DEF DropQuery, Indexed, SameChange, Handlers
<1>4. ASSUME NEW c \in Conns, Drop(c)
      PROVE  Within /\ Later
  BY <1>0, <1>4 DEF Drop, Notify, Indexed, SameChange, Handlers, TypeOK
<1>5. ASSUME NEW r \in Conns \X QueryIds, Refill(r)
      PROVE  Within /\ Later
  <2> DEFINE rest == [rep EXCEPT !.refills = @ \ {r}]
             next == [rest EXCEPT !.pc = "choose", !.pair = r,
                                  !.spec = index.queries[r[2]]]
  <2>1. rep' = next \/ rep' = Onward(rest)
    BY <1>5 DEF Refill, Become
  <2>2. rest \in Handlers /\ rest.pc = "refill" /\ SameChange(rest)
    BY <1>0, <1>5 DEF Refill, Handlers, SameChange
  <2>3. next.pc = "choose" /\ SameChange(next)
    BY <1>0 DEF Handlers, SameChange
  <2> HIDE DEF rest, next
  <2>4. rep.pc = "refill"
    BY <1>5 DEF Refill
  <2>5. CASE rep' = next
    BY <2>3, <2>4, <2>5 DEF Indexed, SameChange
  <2>6. CASE rep' = Onward(rest)
    BY <2>2, <2>4, <2>6, OnwardCases DEF Indexed, SameChange, Handlers, Idle
  <2> QED
    BY <2>1, <2>5, <2>6
<1>6. ASSUME ChooseFill
      PROVE  Within /\ Later
  <2> DEFINE rest == [rep EXCEPT !.pc = "refill"]
  <2>1. rep' = Onward(rest) \/ \E S : rep' = [rep EXCEPT !.pc = "fill", !.fill = S]
    BY <1>6 DEF ChooseFill, Become
  <2>2. rest \in Handlers /\ rest.pc = "refill" /\ SameChange(rest)
    BY <1>0 DEF Handlers, SameChange
  <2> HIDE DEF rest
  <2>4. rep.pc = "choose"
    BY <1>6 DEF ChooseFill
  <2>5. CASE \E S : rep' = [rep EXCEPT !.pc = "fill", !.fill = S]
    BY <1>0, <2>4, <2>5 DEF Indexed, SameChange, Handlers
  <2>6. CASE rep' = Onward(rest)
    BY <2>2, <2>4, <2>6, OnwardCases DEF Indexed, SameChange, Handlers, Idle
  <2> QED
    BY <2>1, <2>5, <2>6
<1>7. ASSUME Fill
      PROVE  Within /\ Later
  <2>1. PICK e \in rep.fill :
          LET rest == [rep EXCEPT !.fill = @ \ {e}] IN
          rep' = IF rest.fill = {} THEN Onward([rest EXCEPT !.pc = "refill"])
                                   ELSE rest
    BY <1>7 DEF Fill, Notify
  <2> DEFINE rest == [rep EXCEPT !.fill = @ \ {e}]
             done == [rest EXCEPT !.pc = "refill"]
  <2>2. done \in Handlers /\ done.pc = "refill" /\ SameChange(done)
    BY <1>0 DEF Handlers, SameChange
  <2>3. rest.pc = rep.pc /\ SameChange(rest)
    BY <1>0 DEF Handlers, SameChange
  <2>4. rep.pc = "fill" /\ (rep' = rest \/ rep' = Onward(done))
    BY <1>7, <2>1 DEF Fill
  <2> HIDE DEF rest, done
  <2>5. CASE rep' = rest
    BY <2>3, <2>4, <2>5 DEF Indexed, SameChange
  <2>6. CASE rep' = Onward(done)
    BY <2>2, <2>4, <2>6, OnwardCases DEF Indexed, SameChange, Handlers, Idle
  <2> QED
    BY <2>4, <2>5, <2>6
<1>8. rep.pc # "idle" /\ UNCHANGED <<table, wal>>
  BY DEF Replication, ReadConns, Tell, IndexDoc, DropQuery, Drop, UnindexDoc,
         Refill, ChooseFill, Fill, database
<1>9. IndexDoc \/ UnindexDoc \/ (docIndex' = docIndex /\ Within)
  <2>1. IndexDoc \/ UnindexDoc \/ docIndex' = docIndex
    BY DEF Replication, ReadConns, Tell, DropQuery, Drop, Refill, ChooseFill, Fill
  <2> HIDE DEF Within, Later
  <2> QED
    BY <1>1, <1>2, <1>3, <1>4, <1>5, <1>6, <1>7, <2>1 DEF Replication
<1>10. IndexDoc => Later
  <2> DEFINE r == [rep EXCEPT !.pc = "refill"]
  <2>1. IndexDoc => rep' = Onward(r)
    BY DEF IndexDoc, Become
  <2>2. r \in Handlers /\ r.pc = "refill" /\ SameChange(r)
    BY <1>0 DEF Handlers, SameChange
  <2> HIDE DEF r
  <2> QED
    BY <2>1, <2>2, OnwardCases DEF Handlers, Idle
<1>11. UnindexDoc => Later
  BY DEF UnindexDoc, Become, Idle
<1>12. Later \/ ReadConns \/ \E c \in Conns : Tell(c)
  <2> HIDE DEF Within, Later
  <2> QED
    BY <1>3, <1>4, <1>5, <1>6, <1>7, <1>10, <1>11 DEF Replication
<1> QED
  BY <1>8, <1>9, <1>12

\* A change that is added does not alter what the handled changes left.
LEMMA ChangeKeepsHandled ==
  ASSUME TypeOK, OneRowPerDoc, NEW kind \in Kinds, NEW d \in Docs,
         NEW v \in Values, Change(kind, d, v), NEW x \in Docs, NEW u, Handled(x, u)
  PROVE  Handled(x, u)'
<1> DEFINE m == [kind |-> kind, doc |-> d, old |-> ScoreOf(d), new |-> v]
           n == Len(wal) + 1
<1>1. m \in Changes
  BY ScoreOfType DEF Changes
<1>2. m.doc = d /\ m.old = ScoreOf(d)
  OBVIOUS
<1>3. wal' = Append(wal, m)
  BY DEF Change
<1> HIDE DEF m
<1>4. /\ n \in Nat /\ DOMAIN wal = 1 .. n - 1
      /\ (\A i \in DOMAIN wal : wal'[i] = wal[i]) /\ wal'[n] = m
      /\ \A y : Waiting(y)' = IF y = d THEN Waiting(y) \cup {n} ELSE Waiting(y)
  BY <1>1, <1>2, <1>3, LogGrows
<1> HIDE DEF n
<1>5. \A y : \A i \in Waiting(y) : i \in DOMAIN wal /\ i < n /\ wal'[i] = wal[i]
  BY <1>4 DEF Waiting
<1>6. CASE x = d
  <2>1. Waiting(d)' = Waiting(d) \cup {n}
    BY <1>4
  <2>2. CASE Waiting(d) = {}
    BY <1>2, <1>4, <1>6, <2>1, <2>2 DEF Handled
  <2>3. CASE Waiting(d) # {}
    BY <1>4, <1>5, <1>6, <2>1, <2>3 DEF Handled
  <2> QED
    BY <2>2, <2>3
<1>7. CASE x # d
  <2>1. Waiting(x)' = Waiting(x) /\ ScoreOf(x)' = ScoreOf(x)
    BY <1>4, <1>7, ChangedScores
  <2> QED
    BY <1>5, <2>1 DEF Handled
<1> QED
  BY <1>6, <1>7

\* Taking a change: the others keep what the handled changes left, and the one
\* taken leaves its new score.
LEMMA TakeHandles ==
  ASSUME TypeOK, LogChains, wal # <<>>, wal' = Tail(wal), UNCHANGED table
  PROVE  \A x \in Docs :
           /\ x # Head(wal).doc => \A u : Handled(x, u) => Handled(x, u)'
           /\ x = Head(wal).doc => /\ \A u : Handled(x, u) => u = Head(wal).old
                                   /\ \A u : u = Head(wal).new => Handled(x, u)'
<1>1. /\ Len(wal) \in Nat \ {0} /\ DOMAIN wal = 1 .. Len(wal)
      /\ DOMAIN wal' = 1 .. Len(wal) - 1
      /\ \A i \in DOMAIN wal' : wal'[i] = wal[i + 1]
      /\ Head(wal) = wal[1]
      /\ \A x : \A i \in Waiting(x)' : i \in Nat /\ i + 1 \in Waiting(x)
      /\ \A x : \A i \in Waiting(x) : i \in Nat /\ (i = 1 \/ i - 1 \in Waiting(x)')
  BY LogShrinks
<1>2. \A x : \A i \in Waiting(x)' : i >= 1 /\ wal'[i] = wal[i + 1]
  BY <1>1 DEF Waiting
<1>3. \A x : ScoreOf(x)' = ScoreOf(x)
  BY DEF ScoreOf
<1>4. \A x : \A i \in Waiting(x) : i >= 1
  BY <1>1 DEF Waiting
<1>5. ASSUME NEW x \in Docs, NEW u, x # Head(wal).doc, Handled(x, u)
      PROVE  Handled(x, u)'
  <2>1. 1 \notin Waiting(x)
    BY <1>1, <1>5 DEF Waiting
  <2>2. ASSUME NEW i \in Waiting(x)', \A j \in Waiting(x)' : i <= j
        PROVE  u = wal'[i].old
    <3> DEFINE k == i + 1
    <3>1. k \in Waiting(x) /\ wal'[i] = wal[k] /\ i \in Nat
      BY <1>1, <1>2
    <3>2. \A j \in Waiting(x) : k <= j
      BY <1>1, <2>1, <2>2, <3>1
    <3> HIDE DEF k
    <3> QED
      BY <1>5, <3>1, <3>2 DEF Handled
  <2>3. Waiting(x)' = {} => Waiting(x) = {}
    BY <1>1, <2>1
  <2> QED
    BY <1>3, <1>5, <2>2, <2>3 DEF Handled
<1>6. ASSUME NEW d \in Docs, d = Head(wal).doc, NEW u, u = Head(wal).new
      PROVE  Handled(d, u)'
  <2>1. 1 \in Waiting(d) /\ u = wal[1].new
    BY <1>1, <1>6 DEF Waiting
  <2>2. ASSUME Waiting(d)' = {}
        PROVE  u = ScoreOf(d)'
    BY <1>1, <1>3, <1>4, <2>1, <2>2 DEF LogChains
  <2>3. ASSUME NEW i \in Waiting(d)', \A j \in Waiting(d)' : i <= j
        PROVE  u = wal'[i].old
    <3> DEFINE k == i + 1
    <3>1. k \in Waiting(d) /\ wal'[i] = wal[k] /\ i \in Nat
      BY <1>1, <1>2
    <3>0. 1 < k
      BY <1>2, <3>1
    <3>2. \A j \in Waiting(d) : j <= 1 \/ k <= j
      BY <1>1, <2>3, <3>1
    <3> HIDE DEF k
    <3> QED
      BY <2>1, <3>0, <3>1, <3>2 DEF LogChains
  <2> QED
    BY <2>2, <2>3 DEF Handled
<1>7. ASSUME NEW d \in Docs, d = Head(wal).doc, NEW u, Handled(d, u)
      PROVE  u = Head(wal).old
  <2>1. 1 \in Waiting(d) /\ Head(wal) = wal[1]
    BY <1>1, <1>7 DEF Waiting
  <2> QED
    BY <1>4, <1>7, <2>1 DEF Handled
<1> QED
  BY <1>5, <1>6, <1>7

\* What a handler makes of the index: the row of one document replaced.
Replaced(D, d, u, v) == (D \ Row(d, u)) \cup Row(d, v)

LEMMA RowReplaced ==
  ASSUME NEW D, NEW d, NEW u, NEW v, RowsOf(D, d) = Row(d, u)
  PROVE  /\ RowsOf(Replaced(D, d, u, v), d) = Row(d, v)
         /\ \A x : x # d => RowsOf(Replaced(D, d, u, v), x) = RowsOf(D, x)
<1> DEFINE E == Replaced(D, d, u, v)
<1>0. \A e : e \in E <=> (e \in D /\ e \notin Row(d, u)) \/ e \in Row(d, v)
  BY DEF Replaced
<1> HIDE DEF E
<1>1. /\ \A e \in Row(d, u) : e[2] = d /\ e \in D
      /\ \A e \in Row(d, v) : e[2] = d
      /\ \A e \in D : e[2] = d => e \in Row(d, u)
  BY DEF RowsOf, Row
<1>2. \A x : x # d => RowsOf(E, x) = RowsOf(D, x)
  <2>1. \A e : e[2] # d => (e \in E <=> e \in D)
    BY <1>0, <1>1
  <2>2. ASSUME NEW x, x # d
        PROVE  RowsOf(E, x) = RowsOf(D, x)
    BY <2>1, <2>2 DEF RowsOf
  <2> QED
    BY <2>2
<1>3. RowsOf(E, d) = Row(d, v)
  BY <1>0, <1>1 DEF RowsOf
<1> QED
  BY <1>2, <1>3 DEF E

LEMMA IndexTracksStep ==
  ASSUME TypeOK, OneRowPerDoc, LogChains, IndexTracks, [Next]_vars
  PROVE  IndexTracks'
<1>1. CASE \E kind \in Kinds, d \in Docs, v \in Values : Change(kind, d, v)
  <2>1. UNCHANGED <<rep, docIndex>>
    BY <1>1 DEF Change
  <2>2. \A x \in Docs : \A u : Handled(x, u) => Handled(x, u)'
    BY <1>1, ChangeKeepsHandled
  <2>3. rep.doc \in Docs
    BY DEF TypeOK, Handlers
  <2>4. \A x \in Docs : rep.pc = "idle" \/ x # rep.doc =>
          \E u \in Values : Handled(x, u)' /\ RowsOf(docIndex, x) = Row(x, u)
    BY <2>2 DEF IndexTracks
  <2>5. ASSUME NEW d, NEW u, rep.pc # "idle", d = rep.doc, u = rep.new
        PROVE  Handled(d, u)'
    BY <2>2, <2>3, <2>5 DEF IndexTracks
  <2>6. Indexed' <=> Indexed
    BY <2>1 DEF Indexed
  <2>7. rep.pc # "idle" => Handled(rep.doc, rep.new)'
    BY <2>1, <2>5 DEF Handled
  <2> QED
    BY <2>1, <2>4, <2>6, <2>7 DEF IndexTracks
<1>2. CASE TakeChange \/ TakeDelete
  <2> DEFINE m == Head(wal)
  <2>1. /\ wal # <<>> /\ wal' = Tail(wal) /\ UNCHANGED <<table, docIndex>>
        /\ rep.pc = "idle" /\ rep'.pc \in {"conns", "drop"} /\ rep'.kind = m.kind
        /\ rep'.doc = m.doc /\ rep'.old = m.old /\ rep'.new = m.new
    BY <1>2 DEF TakeChange, TakeDelete, Take, Idle
  <2>2. m \in Changes /\ (m.kind = "delete" <=> m.new = NoScore)
    <3>1. m = wal[1] /\ 1 \in DOMAIN wal
      BY <2>1, LogShrinks
    <3> QED
      BY <3>1, LogType DEF LogChains
  <2>3. m.doc \in Docs
    BY <2>2 DEF Changes
  <2> HIDE DEF m
  <2>4. \A x \in Docs : x # m.doc =>
          \E u \in Values : Handled(x, u)' /\ RowsOf(docIndex, x) = Row(x, u)
    BY <2>1, TakeHandles DEF IndexTracks, m
  <2>5. RowsOf(docIndex, m.doc) = Row(m.doc, m.old)
    <3>1. PICK u \in Values : Handled(m.doc, u) /\ RowsOf(docIndex, m.doc) = Row(m.doc, u)
      BY <2>1, <2>3 DEF IndexTracks
    <3>2. u = m.old
      BY <2>1, <2>3, <3>1, TakeHandles DEF m
    <3> QED
      BY <3>1, <3>2
  <2>6. ASSUME NEW d, NEW u, d = m.doc, u = m.new
        PROVE  Handled(d, u)'
    BY <2>1, <2>3, <2>6, TakeHandles DEF m
  <2>7. Handled(rep.doc, rep.new)'
    BY <2>1, <2>6 DEF Handled
  <2>8. ~ Indexed'
    BY <2>1 DEF Indexed
  <2> QED
    BY <2>1, <2>2, <2>4, <2>5, <2>7, <2>8 DEF IndexTracks
<1>3. CASE Replication /\ ~TakeChange /\ ~TakeDelete
  <2>0. /\ rep.pc # "idle" /\ UNCHANGED <<table, wal>> /\ rep \in Handlers
        /\ rep.doc \in Docs /\ rep.new \in Values
    BY <1>3, HandlerFrame DEF TypeOK, Handlers
  <2>1. \A x, u : Handled(x, u)' <=> Handled(x, u)
    BY <2>0 DEF Handled, Waiting, ScoreOf
  <2>2. CASE IndexDoc
    <3> DEFINE r == [rep EXCEPT !.pc = "refill"]
    <3>1. /\ docIndex' = (docIndex \ Row(rep.doc, rep.old)) \cup Row(rep.doc, rep.new)
          /\ rep' = Onward(r) /\ rep.pc = "tell"
      BY <2>2 DEF IndexDoc, Become
    <3>2. r \in Handlers /\ r.pc = "refill" /\ SameChange(r)
      BY <2>0 DEF Handlers, SameChange
    <3> HIDE DEF r
    <3>3. RowsOf(docIndex, rep.doc) = Row(rep.doc, rep.old) /\ docIndex \subseteq Rows
      BY <2>0, <3>1 DEF IndexTracks, Indexed, TypeOK
    <3>4. /\ RowsOf(docIndex', rep.doc) = Row(rep.doc, rep.new)
          /\ \A x : x # rep.doc => RowsOf(docIndex', x) = RowsOf(docIndex, x)
      <4>1. docIndex' = Replaced(docIndex, rep.doc, rep.old, rep.new)
        BY <3>1 DEF Replaced
      <4> QED
        BY <3>3, <4>1, RowReplaced
    <3>5. rep.kind # "delete"
      BY <3>1 DEF TypeOK
    <3>6. rep'.pc = "idle" \/ (SameChange(rep') /\ Indexed')
      BY <3>1, <3>2, <3>5, OnwardCases DEF Indexed, SameChange
    <3>7. \A x \in Docs : \E u \in Values : Handled(x, u) /\ RowsOf(docIndex', x) = Row(x, u)
      BY <2>0, <3>4 DEF IndexTracks
    <3>8. ASSUME rep'.pc # "idle"
          PROVE  /\ Handled(rep.doc, rep.new)'
                 /\ RowsOf(docIndex, rep.doc)' = Row(rep.doc, rep.new)'
                 /\ (rep.kind = "delete" <=> rep.new = NoScore)'
      <4>1. Handled(rep.doc, rep.new) /\ (rep.kind = "delete" <=> rep.new = NoScore)
        BY <2>0 DEF IndexTracks
      <4>2. SameChange(rep')
        BY <3>6, <3>8
      <4>3. Handled(rep.doc, rep.new)'
        BY <2>0, <4>1, <4>2 DEF Handled, Waiting, ScoreOf, SameChange
      <4> QED
        BY <3>4, <4>1, <4>2, <4>3 DEF SameChange
    <3> QED
      BY <2>1, <3>6, <3>7, <3>8 DEF IndexTracks
  <2>3. CASE UnindexDoc
    <3>1. /\ docIndex' = docIndex \ Row(rep.doc, rep.old)
          /\ rep'.pc = "idle" /\ rep.kind = "delete" /\ rep.pc = "drop"
      BY <2>3 DEF UnindexDoc, Become, Idle, TypeOK
    <3>2. RowsOf(docIndex, rep.doc) = Row(rep.doc, rep.old) /\ docIndex \subseteq Rows
      BY <2>0, <3>1 DEF IndexTracks, Indexed, TypeOK
    <3>3. Handled(rep.doc, rep.new) /\ Row(rep.doc, rep.new) = {}
      BY <2>0, <3>1 DEF IndexTracks, Row
    <3>4. /\ RowsOf(docIndex', rep.doc) = Row(rep.doc, rep.new)
          /\ \A x : x # rep.doc => RowsOf(docIndex', x) = RowsOf(docIndex, x)
      <4>1. docIndex' = Replaced(docIndex, rep.doc, rep.old, rep.new)
        BY <3>1, <3>3 DEF Replaced
      <4> QED
        BY <3>2, <4>1, RowReplaced
    <3>5. \A x \in Docs : \E u \in Values : Handled(x, u) /\ RowsOf(docIndex', x) = Row(x, u)
      BY <2>0, <3>3, <3>4 DEF IndexTracks
    <3> QED
      BY <2>1, <3>1, <3>5 DEF IndexTracks
  <2>4. CASE docIndex' = docIndex /\ rep'.pc = "idle" /\ Indexed
    <3>1. \A x \in Docs : \E u \in Values : Handled(x, u) /\ RowsOf(docIndex, x) = Row(x, u)
      BY <2>0, <2>4 DEF IndexTracks
    <3> QED
      BY <2>1, <2>4, <3>1 DEF IndexTracks
  <2>5. CASE /\ docIndex' = docIndex /\ rep'.pc # "idle" /\ SameChange(rep')
             /\ Indexed' <=> Indexed
    <3>1. \A x \in Docs : x # rep.doc => \E u \in Values : Handled(x, u) /\ RowsOf(docIndex, x) = Row(x, u)
      BY <2>0 DEF IndexTracks
    <3>2. /\ Handled(rep.doc, rep.new) /\ (rep.kind = "delete" <=> rep.new = NoScore)
          /\ RowsOf(docIndex, rep.doc) = Row(rep.doc, IF Indexed THEN rep.new ELSE rep.old)
      BY <2>0 DEF IndexTracks
    <3>3. Handled(rep.doc, rep.new)'
      BY <2>0, <2>5, <3>2 DEF Handled, Waiting, ScoreOf, SameChange
    <3> QED
      BY <2>1, <2>5, <3>1, <3>2, <3>3 DEF IndexTracks, SameChange
  <2> QED
    BY <1>3, <2>2, <2>3, <2>4, <2>5, HandlerFrame
<1>4. CASE UNCHANGED <<table, wal, rep, docIndex>>
  BY <1>4 DEF IndexTracks, Handled, Waiting, ScoreOf, Indexed
<1> QED
  BY <1>1, <1>2, <1>3, <1>4, LogCases

\* What holds of the table, its log and the document index.
TableInv == OneRowPerDoc /\ LogChains /\ IndexTracks

LEMMA TableInit ==
  ASSUME Init
  PROVE  TableInv
<1>1. /\ table = {} /\ DOMAIN wal = {} /\ docIndex = {} /\ rep.pc = "idle"
      /\ NoScore \in Values
  BY DEF Init, Idle, Values
<1>2. OneRowPerDoc /\ LogChains
  BY <1>1 DEF OneRowPerDoc, LogChains, Waiting
<1>3. \A d \in Docs : Handled(d, NoScore) /\ RowsOf(docIndex, d) = Row(d, NoScore)
  BY <1>1 DEF Handled, Waiting, ScoreOf, RowsOf, Row
<1> QED
  BY <1>1, <1>2, <1>3 DEF TableInv, IndexTracks

LEMMA TableInvariance == Spec => [](IInv /\ TableInv)
<1>1. Init => IInv /\ TableInv
  BY InvInit, TableInit
<1>2. IInv /\ TableInv /\ [Next]_vars => IInv' /\ TableInv'
  BY InvNext, LogStep, IndexTracksStep DEF IInv, TableInv
<1> QED
  BY <1>1, <1>2, PTL DEF Spec

\* Between two changes the document index holds the rows of the table as it was
\* before the changes that wait, so that a refill chooses from documents the
\* table had (replication.rs:272-276, :496-500, :578-580).
THEOREM DocumentIndexFollows == Spec => []IndexFollowsTable
<1>1. IInv /\ TableInv => IndexFollowsTable
  BY DEF TableInv, IndexTracks, IndexFollowsTable
<1> QED
  BY <1>1, TableInvariance, PTL

-----------------------------------------------------------------------------
(* What a step of connection c does to the range index, and to the storage. *)

\* y follows x: a query keeps what it asks for while it lives, a query is new
\* only under an id not yet handed out, a document loses only the queries that
\* are dropped, and the other connections keep theirs.
Follows(x, y, c) ==
  /\ y.nextId >= x.nextId
  /\ \A q \in Live(y) :
       \/ q \in Live(x) /\ y.queries[q] = x.queries[q]
       \/ q \notin Live(x) /\ q >= x.nextId
  /\ \A d \in Docs : y.tracked[d] = x.tracked[d] \cap Live(y)
  /\ \A o \in Conns, q \in QueryIds : o # c => (o \in y.subs[q] <=> o \in x.subs[q])

LEMMA SameFollows ==
  ASSUME NEW x, IndexOK(x), NEW c
  PROVE  Follows(x, x, c)
<1>1. x.nextId \in Nat /\ \A d \in Docs : x.tracked[d] \subseteq Live(x)
  BY IndexParts DEF IndexOK
<1> QED
  BY <1>1 DEF Follows

LEMMA SubscribedFollows ==
  ASSUME NEW x, IndexOK(x), NEW c \in Conns, NEW spec \in Specs,
         NEW q \in QueryIds, q \in IdsOf(x, spec) \cup {x.nextId}
  PROVE  Follows(x, Subscribed(x, c, spec, q), c)
<1> DEFINE y == Subscribed(x, c, spec, q)
<1>1. /\ y.queries = [p \in Live(x) \cup {q} |->
                        IF p = q THEN spec ELSE x.queries[p]]
      /\ y.nextId = IF q = x.nextId THEN x.nextId + 1 ELSE x.nextId
      /\ y.subs = [x.subs EXCEPT ![q] = @ \cup {c}]
      /\ y.tracked = x.tracked
  BY DEF Subscribed, WithQuery
<1> HIDE DEF y
<1>2. Live(y) = Live(x) \cup {q}
  BY <1>1 DEF Live
<1>3. /\ x.nextId \in Nat /\ Live(x) \subseteq 0 .. (x.nextId - 1)
      /\ x.subs \in [QueryIds -> SUBSET Conns]
      /\ \A d \in Docs : x.tracked[d] \subseteq Live(x)
  BY IndexParts DEF IndexOK
<1>4. y.nextId >= x.nextId
  BY <1>1, <1>3
<1>5. \A p \in Live(y) : \/ p \in Live(x) /\ y.queries[p] = x.queries[p]
                         \/ p \notin Live(x) /\ p >= x.nextId
  <2>1. q \in IdsOf(x, spec) => q \in Live(x) /\ x.queries[q] = spec
    BY DEF IdsOf
  <2>2. x.nextId \notin Live(x) /\ x.nextId >= x.nextId
    BY <1>3
  <2> QED
    BY <1>1, <1>2, <2>1, <2>2
<1>6. \A d \in Docs : y.tracked[d] = x.tracked[d] \cap Live(y)
  BY <1>1, <1>2, <1>3
<1>7. \A o \in Conns, p \in QueryIds : o # c => (o \in y.subs[p] <=> o \in x.subs[p])
  BY <1>1, <1>3
<1> QED
  BY <1>4, <1>5, <1>6, <1>7 DEF Follows, y

LEMMA UnsubscribedFollows ==
  ASSUME NEW x, IndexOK(x), NEW c \in Conns, NEW Q, Q \subseteq QueryIds
  PROVE  /\ Follows(x, Unsubscribed(x, c, Q), c)
         /\ \A q \in Q : c \notin Unsubscribed(x, c, Q).subs[q]
         /\ \A q \in QueryIds : c \in Unsubscribed(x, c, Q).subs[q] => c \in x.subs[q]
<1> DEFINE y == Unsubscribed(x, c, Q)
           unheld == {q \in Q : x.subs[q] \subseteq {c}}
<1>1. /\ y.queries = [q \in Live(x) \ unheld |-> x.queries[q]]
      /\ y.nextId = x.nextId
      /\ y.subs = [q \in QueryIds |-> IF q \in Q THEN x.subs[q] \ {c}
                                                 ELSE x.subs[q]]
      /\ y.tracked = [d \in Docs |-> x.tracked[d] \ unheld]
  BY DEF Unsubscribed, WithoutConn
<1> HIDE DEF y
<1>2. Live(y) = Live(x) \ unheld
  BY <1>1 DEF Live
<1>3. /\ x.nextId \in Nat /\ x.nextId >= x.nextId
      /\ \A d \in Docs : x.tracked[d] \subseteq Live(x)
  BY IndexParts DEF IndexOK
<1>4. \A p \in Live(y) : p \in Live(x) /\ y.queries[p] = x.queries[p]
  BY <1>1, <1>2
<1>5. \A d \in Docs : y.tracked[d] = x.tracked[d] \cap Live(y)
  BY <1>1, <1>2, <1>3
<1>6. /\ \A o \in Conns, q \in QueryIds : o # c => (o \in y.subs[q] <=> o \in x.subs[q])
      /\ \A q \in Q : c \notin y.subs[q]
      /\ \A q \in QueryIds : c \in y.subs[q] => c \in x.subs[q]
  BY <1>1
<1> QED
  BY <1>1, <1>3, <1>4, <1>5, <1>6 DEF Follows, y

LEMMA ConnectionFollows ==
  ASSUME IInv, NEW c \in Conns, Connection(c)
  PROVE  Follows(index, index', c)
<1> USE InvParts
<1>1. ASSUME NEW spec \in Asks[c], Subscribe(c, spec)
      PROVE  Follows(index, index', c)
  <2>1. spec \in Specs
    BY SomeSpecs
  <2>2. PICK q \in QueryIds : /\ q \in IdsOf(index, spec) \cup {index.nextId}
                              /\ index' = Subscribed(index, c, spec, q)
    BY <1>1, IndexParts DEF Subscribe, IdsOf, IndexOK
  <2> QED
    BY <2>1, <2>2, SubscribedFollows
<1>2. ASSUME NEW spec \in Asks[c], Unsubscribe(c, spec)
      PROVE  Follows(index, index', c)
  <2>1. PICK q \in QueryIds : index' = Unsubscribed(index, c, {q})
    BY <1>2, IndexParts DEF Unsubscribe, IdsOf, IndexOK
  <2>2. {q} \subseteq QueryIds
    OBVIOUS
  <2> QED
    BY <2>1, <2>2, UnsubscribedFollows
<1>3. ASSUME LeaveQueries(c)
      PROVE  Follows(index, index', c)
  <2>1. QueriesOf(index, c) \subseteq QueryIds
    BY DEF QueriesOf
  <2> QED
    BY <1>3, <2>1, UnsubscribedFollows DEF LeaveQueries
<1>4. UNCHANGED index => Follows(index, index', c)
  BY SameFollows
<1> QED
  BY <1>1, <1>2, <1>3, <1>4
     DEF Connection, Connect, Snapshot, SnapshotFails, ApplyRow, Unregister, ClearStorage

\* Only the replication puts documents under queries.
LEMMA IndexFrame ==
  ASSUME IInv, [Next]_vars, ~TakeChange, ~TakeDelete
  PROVE  \E c : Follows(index, index', c)
<1>1. ASSUME NEW c \in Conns, Connection(c)
      PROVE  \E o : Follows(index, index', o)
  BY <1>1, ConnectionFollows
<1>2. ASSUME UNCHANGED index
      PROVE  \E o : Follows(index, index', o)
  <2>1. Follows(index, index, 0)
    BY InvParts, SameFollows
  <2> QED
    BY <1>2, <2>1
<1>3. Replication => UNCHANGED index
  BY DEF Replication, ReadConns, Tell, IndexDoc, DropQuery, Drop, UnindexDoc,
         Refill, ChooseFill, Fill
<1> QED
  BY <1>1, <1>2, <1>3 DEF Next, vars, Insert, Update, Delete, Change

-----------------------------------------------------------------------------
(* What the range index and the handler know of a document.                 *)

\* The changes of a document that wait have a last one.
LogEnds == \A d \in Docs : Waiting(d) # {} =>
             \E i \in Waiting(d) : \A j \in Waiting(d) : j <= i

LEMMA LogEndsStep ==
  ASSUME TypeOK, LogEnds, [Next]_vars
  PROVE  LogEnds'
<1>1. CASE \E kind \in Kinds, d \in Docs, v \in Values : Change(kind, d, v)
  <2>1. PICK kind \in Kinds, d \in Docs, v \in Values : Change(kind, d, v)
    BY <1>1
  <2> DEFINE m == [kind |-> kind, doc |-> d, old |-> ScoreOf(d), new |-> v]
             n == Len(wal) + 1
  <2>2. m \in Changes /\ m.doc = d /\ wal' = Append(wal, m)
    BY <2>1, ScoreOfType DEF Changes, Change
  <2> HIDE DEF m
  <2>3. /\ n \in Nat /\ DOMAIN wal = 1 .. n - 1
        /\ \A y : Waiting(y)' = IF y = d THEN Waiting(y) \cup {n} ELSE Waiting(y)
    BY <2>2, LogGrows
  <2> HIDE DEF n
  <2>4. \A i \in Waiting(d) : i <= n
    BY <2>3 DEF Waiting
  <2> QED
    BY <2>3, <2>4 DEF LogEnds
<1>2. CASE TakeChange \/ TakeDelete
  <2>1. wal # <<>> /\ wal' = Tail(wal)
    BY <1>2 DEF TakeChange, TakeDelete, Take
  <2>2. /\ DOMAIN wal' = 1 .. Len(wal) - 1 /\ Len(wal) \in Nat
        /\ \A x : \A i \in Waiting(x)' : i \in Nat /\ i + 1 \in Waiting(x)
        /\ \A x : \A i \in Waiting(x) : i \in Nat /\ (i = 1 \/ i - 1 \in Waiting(x)')
    BY <2>1, LogShrinks
  <2>3. ASSUME NEW d \in Docs, NEW k \in Waiting(d)'
        PROVE  \E i \in Waiting(d)' : \A j \in Waiting(d)' : j <= i
    <3>1. k + 1 \in Waiting(d) /\ k >= 1 /\ k \in Nat
      BY <2>2, <2>3 DEF Waiting
    <3>2. PICK l \in Waiting(d) : \A j \in Waiting(d) : j <= l
      BY <3>1 DEF LogEnds
    <3>3. l - 1 \in Waiting(d)' /\ l \in Nat
      BY <2>2, <3>1, <3>2
    <3>4. \A j \in Waiting(d)' : j <= l - 1
      BY <2>2, <3>2, <3>3
    <3> QED
      BY <3>3, <3>4
  <2> QED
    BY <2>3 DEF LogEnds
<1>3. CASE UNCHANGED <<table, wal>>
  BY <1>3 DEF LogEnds, Waiting
<1> QED
  BY <1>1, <1>2, <1>3, LogCases

\* A document without a change that waits is tracked for queries it fits.
TrackedFits ==
  \A d \in Docs : Waiting(d) = {} =>
    \A q \in index.tracked[d] :
      ScoreOf(d) # NoScore /\ InRange(index.queries[q], ScoreOf(d))

LEMMA TrackedFitsStep ==
  ASSUME IInv, OneRowPerDoc, LogChains, TrackedFits, [Next]_vars
  PROVE  TrackedFits'
<1>0. /\ TypeOK /\ index.tracked \in [Docs -> SUBSET QueryIds]
      /\ \A d \in Docs : index.tracked[d] \subseteq Live(index)
  BY InvParts, IndexParts DEF IInv, IndexOK
<1>1. CASE \E kind \in Kinds, d \in Docs, v \in Values : Change(kind, d, v)
  <2>1. PICK kind \in Kinds, d \in Docs, v \in Values : Change(kind, d, v)
    BY <1>1
  <2> DEFINE m == [kind |-> kind, doc |-> d, old |-> ScoreOf(d), new |-> v]
  <2>2. m \in Changes /\ m.doc = d /\ wal' = Append(wal, m) /\ UNCHANGED index
    BY <1>0, <2>1, ScoreOfType DEF Changes, Change
  <2> HIDE DEF m
  <2>3. Waiting(d)' # {} /\ \A x : x # d => Waiting(x)' = Waiting(x)
    BY <1>0, <2>2, LogGrows
  <2>4. \A x : x # d => ScoreOf(x)' = ScoreOf(x)
    BY <1>0, <2>1, ChangedScores
  <2> QED
    BY <2>2, <2>3, <2>4 DEF TrackedFits
<1>2. CASE TakeChange \/ TakeDelete
  <2> DEFINE m == Head(wal)
  <2>1. wal # <<>> /\ wal' = Tail(wal) /\ table' = table
    BY <1>2 DEF TakeChange, TakeDelete, Take
  <2>2. m \in Changes /\ m.doc \in Docs /\ (m.kind = "delete" <=> m.new = NoScore)
    <3>1. m = wal[1] /\ 1 \in DOMAIN wal
      BY <1>0, <2>1, LogShrinks
    <3> QED
      BY <1>0, <3>1, LogType DEF LogChains, Changes
  <2>3. PICK S : /\ index' = [index EXCEPT !.tracked[m.doc] = S]
                 /\ S = {} \/ (m.new # NoScore /\ S \in Covers(index, m.new))
    <3>1. CASE TakeDelete
      BY <3>1 DEF TakeDelete, Take
    <3>2. CASE TakeChange
      <4>1. m.new # NoScore
        BY <2>2, <3>2 DEF TakeChange
      <4> QED
        BY <3>2, <4>1 DEF TakeChange, Take
    <3> QED
      BY <1>2, <3>1, <3>2
  <2>4. /\ index'.queries = index.queries
        /\ \A q \in index'.tracked[m.doc] :
             m.new # NoScore /\ InRange(index.queries[q], m.new)
        /\ \A x \in Docs : x # m.doc => index'.tracked[x] = index.tracked[x]
    <3>1. \A q \in S : m.new # NoScore /\ InRange(index.queries[q], m.new)
      BY <2>3 DEF Covers
    <3> QED
      BY <1>0, <2>2, <2>3, <3>1 DEF TypeOK, Indexes
  <2>5. /\ \A x : \A i \in Waiting(x) : i = 1 \/ i - 1 \in Waiting(x)'
        /\ \A x : 1 \in Waiting(x) => x = m.doc
    BY <1>0, <2>1, LogShrinks DEF Waiting
  <2>6. \A x : ScoreOf(x)' = ScoreOf(x)
    BY <2>1 DEF ScoreOf
  <2>7. \A x \in Docs : x # m.doc /\ Waiting(x)' = {} => Waiting(x) = {}
    BY <2>5
  <2>8. ASSUME NEW d \in Docs, d = m.doc, Waiting(d)' = {}
        PROVE  m.new = ScoreOf(d)'
    <3>1. \A u : u = Head(wal).new => Handled(d, u)'
      BY <1>0, <2>1, <2>8, TakeHandles
    <3> QED
      BY <2>8, <3>1 DEF Handled
  <2> HIDE DEF m
  <2>9. ASSUME NEW d \in Docs, Waiting(d)' = {}, NEW q \in index'.tracked[d]
        PROVE  ScoreOf(d)' # NoScore /\ InRange(index'.queries[q], ScoreOf(d)')
    <3>1. CASE d = m.doc
      BY <2>4, <2>8, <2>9, <3>1
    <3>2. CASE d # m.doc
      <4>1. q \in index.tracked[d] /\ Waiting(d) = {}
        BY <2>4, <2>7, <2>9, <3>2
      <4> QED
        BY <2>4, <2>6, <4>1 DEF TrackedFits
    <3> QED
      BY <3>1, <3>2
  <2> QED
    BY <2>9 DEF TrackedFits
<1>3. CASE UNCHANGED <<table, wal>> /\ ~TakeChange /\ ~TakeDelete
  <2>1. PICK c : Follows(index, index', c)
    BY <1>3, IndexFrame
  <2>2. \A d \in Docs : \A q \in index'.tracked[d] :
          q \in index.tracked[d] /\ index'.queries[q] = index.queries[q]
    BY <1>0, <2>1 DEF Follows
  <2>3. \A x : Waiting(x)' = Waiting(x) /\ ScoreOf(x)' = ScoreOf(x)
    BY <1>3 DEF Waiting, ScoreOf
  <2> QED
    BY <2>2, <2>3 DEF TrackedFits
<1> QED
  BY <1>0, <1>1, <1>2, <1>3, LogCases

\* Query q lives and has no limit.
Unlim(q) == q \in Live(index) /\ index.queries[q].limit = Unlimited

\* The document that is handled has left query q, of a known id.
Left(q) == /\ q < index.nextId /\ q \notin index.tracked[rep.doc]
           /\ Unlim(q) => ~InRange(index.queries[q], rep.new)

\* A document that is deleted is tracked for nothing, and the queries from which
\* the handler takes a document have lost it.
HandlerKnows ==
  /\ rep.pc # "idle" /\ rep.kind = "delete" => index.tracked[rep.doc] = {}
  /\ rep.pc = "conns" => \A q \in rep.before \ rep.after : Left(q)
  /\ rep.pc = "tell" =>
       \A c \in rep.todo : \A q \in rep.wasIn[c] \ rep.isIn[c] : Left(q)

\* A query without a limit covers its range.
LEMMA CoversUnlimited ==
  ASSUME NEW x, NEW v, NEW S \in Covers(x, v), NEW q \in Live(x)
  PROVE  /\ q \in S => InRange(x.queries[q], v)
         /\ InRange(x.queries[q], v) /\ x.queries[q].limit = Unlimited => q \in S
BY DEF Covers

LEMMA LeftStays ==
  ASSUME IInv, IndexOK(index'), NEW c, Follows(index, index', c), rep.doc \in Docs,
         rep'.doc = rep.doc, rep'.new = rep.new, NEW q \in QueryIds, Left(q)
  PROVE  Left(q)'
<1>1. /\ index.nextId \in Nat /\ index'.nextId >= index.nextId
      /\ q < index.nextId /\ Live(index) \subseteq 0 .. (index.nextId - 1)
  BY InvParts, IndexParts DEF IndexOK, Follows, Left
<1>2. q \in Live(index') => q \in Live(index) /\ index'.queries[q] = index.queries[q]
  <2>1. ASSUME q \in Live(index'), q >= index.nextId, index.nextId \in Nat
        PROVE  FALSE
    <3>1. q \in Int
      BY QueryIdsAreSmall
    <3> QED
      BY <1>1, <2>1, <3>1
  <2> QED
    BY <1>1, <2>1 DEF Follows
<1>3. q \notin index'.tracked[rep.doc]
  BY DEF Follows, Left
<1>4. q < index'.nextId
  <2>1. q \in Int /\ index'.nextId \in Int
    BY QueryIdsAreSmall DEF IndexOK, Indexes
  <2> QED
    BY <1>1, <2>1
<1> QED
  BY <1>2, <1>3, <1>4 DEF Left, Unlim

LEMMA HandlerKnowsStep ==
  ASSUME IInv, TableInv, HandlerKnows, [Next]_vars
  PROVE  HandlerKnows'
<1>0. /\ TypeOK /\ rep \in Handlers /\ rep.doc \in Docs /\ IndexOK(index) /\ IndexOK(index')
      /\ index.tracked \in [Docs -> SUBSET QueryIds]
      /\ \A d \in Docs : index.tracked[d] \subseteq Live(index)
      /\ Live(index) \subseteq 0 .. (index.nextId - 1)
  BY InvParts, IndexParts, IndexStep DEF IInv, IndexOK, Handlers
<1>1. CASE TakeChange \/ TakeDelete
  <2> DEFINE m == Head(wal)
  <2>1. m \in Changes /\ m.doc \in Docs
    BY <1>0, <1>1, ChangeType DEF TakeChange, TakeDelete, Changes
  <2>2. CASE TakeDelete
    <3>1. /\ index' = [index EXCEPT !.tracked[m.doc] = {}]
          /\ rep'.pc = "drop" /\ rep'.doc = m.doc
      BY <2>2 DEF TakeDelete, Take, Idle
    <3>2. index'.tracked[m.doc] = {}
      BY <1>0, <2>1, <3>1 DEF IndexOK, Indexes
    <3> QED
      BY <3>1, <3>2 DEF HandlerKnows
  <2>3. CASE TakeChange
    <3>1. PICK S \in Covers(index, m.new) :
            Take("conns", index.tracked[m.doc], S)
      BY <2>3 DEF TakeChange
    <3>2. /\ index' = [index EXCEPT !.tracked[m.doc] = S]
          /\ rep'.pc = "conns" /\ rep'.doc = m.doc /\ rep'.new = m.new
          /\ rep'.kind # "delete" /\ rep'.after = S
          /\ rep'.before = index.tracked[m.doc]
      BY <2>1, <2>3, <3>1 DEF Take, TakeChange, Idle
    <3>3. /\ index'.tracked[m.doc] = S /\ index'.queries = index.queries
          /\ index'.nextId = index.nextId
      BY <1>0, <2>1, <3>2 DEF IndexOK, Indexes
    <3>4. ASSUME NEW q \in index.tracked[m.doc] \ S
          PROVE  Left(q)'
      <4>1. q \in Live(index) /\ q < index.nextId
        BY <1>0, <2>1, <3>4 DEF IndexOK, Indexes
      <4>2. Unlim(q) => ~InRange(index.queries[q], m.new)
        BY <3>4, <4>1, CoversUnlimited DEF Unlim
      <4> QED
        BY <3>2, <3>3, <3>4, <4>1, <4>2 DEF Left, Unlim, Live
    <3> QED
      BY <3>2, <3>4 DEF HandlerKnows
  <2> QED
    BY <1>1, <2>2, <2>3
<1>2. CASE Replication /\ ~TakeChange /\ ~TakeDelete
  <2>1. /\ rep.pc # "idle"
        /\ rep'.pc \in {"conns", "tell"} => ReadConns \/ \E c \in Conns : Tell(c)
        /\ rep'.pc = "idle" \/ SameChange(rep')
    <3>1. IndexDoc => rep'.pc = "idle" \/ SameChange(rep')
      <4> DEFINE r == [rep EXCEPT !.pc = "refill"]
      <4>1. IndexDoc => rep' = Onward(r)
        BY DEF IndexDoc, Become
      <4>2. r \in Handlers /\ r.pc = "refill" /\ SameChange(r)
        BY <1>0 DEF Handlers, SameChange
      <4> HIDE DEF r
      <4> QED
        BY <4>1, <4>2, OnwardCases DEF Handlers, SameChange
    <3>2. UnindexDoc => rep'.pc = "idle"
      BY DEF UnindexDoc, Become, Idle
    <3> QED
      BY <1>0, <1>2, <3>1, <3>2, HandlerFrame
  <2>2. UNCHANGED index
    BY <1>2 DEF Replication, ReadConns, Tell, IndexDoc, DropQuery, Drop, UnindexDoc,
                Refill, ChooseFill, Fill
  <2>3. rep'.pc # "idle" /\ rep'.kind = "delete" => index'.tracked[rep'.doc] = {}
    BY <2>1, <2>2 DEF HandlerKnows, SameChange
  <2>4. \A q : rep'.pc # "idle" /\ Left(q) => Left(q)'
    BY <2>1, <2>2 DEF Left, Unlim, SameChange
  <2>5. CASE ReadConns
    <3>1. ASSUME NEW c \in Conns, NEW q \in rep'.wasIn[c] \ rep'.isIn[c]
          PROVE  Left(q)'
      <4>1. q \in rep.before \ rep.after
        BY <2>5, <3>1 DEF ReadConns, Of
      <4> QED
        BY <2>4, <2>5, <4>1 DEF HandlerKnows, ReadConns
    <3> QED
      BY <1>0, <2>3, <2>5, <3>1 DEF HandlerKnows, ReadConns, Handlers
  <2>6. ASSUME NEW c \in Conns, Tell(c)
        PROVE  HandlerKnows'
    <3>1. /\ rep.pc = "tell" /\ rep'.pc = "tell" /\ rep'.todo = rep.todo \ {c}
          /\ \A o \in Conns : o # c => rep'.wasIn[o] = rep.wasIn[o] /\ rep'.isIn[o] = rep.isIn[o]
      BY <1>0, <2>6 DEF Tell, Notify, Handlers
    <3>2. rep.todo \subseteq Conns
      BY <1>0 DEF Handlers
    <3>3. ASSUME NEW o \in rep'.todo, NEW q \in rep'.wasIn[o] \ rep'.isIn[o]
          PROVE  Left(q)'
      BY <2>4, <3>1, <3>2, <3>3 DEF HandlerKnows
    <3> QED
      BY <2>3, <3>1, <3>3 DEF HandlerKnows
  <2>7. CASE rep'.pc \notin {"conns", "tell"}
    BY <2>3, <2>7 DEF HandlerKnows
  <2> QED
    BY <2>1, <2>5, <2>6, <2>7
<1>3. CASE UNCHANGED rep /\ ~TakeChange /\ ~TakeDelete
  <2>1. PICK c : Follows(index, index', c)
    BY <1>3, IndexFrame
  <2>2. \A q \in QueryIds : Left(q) => Left(q)'
    BY <1>0, <1>3, <2>1, LeftStays
  <2>3. index'.tracked[rep.doc] \subseteq index.tracked[rep.doc]
    BY <1>0, <2>1 DEF Follows
  <2>4. /\ rep.before \subseteq QueryIds
        /\ \A o \in rep.todo : rep.wasIn[o] \subseteq QueryIds
    BY <1>0 DEF Handlers
  <2> QED
    BY <1>3, <2>2, <2>3, <2>4 DEF HandlerKnows
<1>4. ASSUME NEW c \in Conns, Connection(c)
      PROVE  UNCHANGED rep
  BY <1>4 DEF Connection, Connect, Subscribe, Snapshot, SnapshotFails,
               ApplyRow, Unsubscribe, Unregister, LeaveQueries, ClearStorage
<1> QED
  BY <1>1, <1>2, <1>3, <1>4 DEF Next, vars, Insert, Update, Delete, Change

-----------------------------------------------------------------------------
(* No document of an unlimited query is lost.                               *)

NewHoldsNone == \A c \in Conns : At(c, "new") => QueriesOf(index, c) = {}

\* Connection c waits for the documents of query q, whose snapshot it has read.
Served(c, q) ==
  /\ c \in index.subs[q] /\ Unlim(q)
  /\ task[c].pc \in {"listening", "reading", "applying"}
  /\ task[c].pc = "reading" => task[c].query # q

\* A change of d waits that brings it to query q: d is not tracked for q, or a
\* change that waits takes it out of q.
Misfit(q, d) ==
  /\ Waiting(d) # {}
  /\ \/ q \notin index.tracked[d]
     \/ \E i \in Waiting(d) : \/ wal[i].new = NoScore
                              \/ ~InRange(index.queries[q], wal[i].new)

Given(c, q, d) == store.entry[<<c, q, d>>] \in {"exists", "notset"}

\* The snapshot that is applied brings d.
Applies(c, q, d) ==
  task[c].pc = "applying" /\ task[c].query = q /\ d \in task[c].rows

\* The handler brings d.
Due(c, q, d) ==
  /\ rep.doc = d /\ rep.kind # "delete"
  /\ \/ rep.pc = "conns" /\ q \in rep.after \ rep.before
     \/ rep.pc = "tell" /\ c \in rep.todo /\ q \in rep.isIn[c] \ rep.wasIn[c]

Owed(c, q, d) == Misfit(q, d) \/ Given(c, q, d) \/ Applies(c, q, d) \/ Due(c, q, d)

\* A connection has, or will get, each document of the table that matches one of
\* its queries without a limit.
Delivered ==
  \A c \in Conns, q \in QueryIds : Served(c, q) =>
    \A e \in table : InRange(index.queries[q], e[1]) => Owed(c, q, e[2])

LEMMA ChangeDelivers ==
  ASSUME IInv, TableInv, LogEnds, TrackedFits, Delivered, NEW kind \in Kinds,
         NEW d \in Docs, NEW v \in Values, Change(kind, d, v)
  PROVE  Delivered'
<1>0. TypeOK /\ OneRowPerDoc /\ LogChains
  BY DEF IInv, TableInv
<1> DEFINE m == [kind |-> kind, doc |-> d, old |-> ScoreOf(d), new |-> v]
           n == Len(wal) + 1
<1>1. /\ m \in Changes /\ m.doc = d /\ m.new = v /\ wal' = Append(wal, m)
      /\ UNCHANGED <<index, store, task, rep>>
      /\ table' = (table \ Row(d, ScoreOf(d))) \cup Row(d, v)
  BY <1>0, ScoreOfType DEF Changes, Change
<1> HIDE DEF m
<1>2. /\ DOMAIN wal = 1 .. n - 1 /\ (\A i \in DOMAIN wal : wal'[i] = wal[i])
      /\ \A x : Waiting(x)' = IF x = d THEN Waiting(x) \cup {n} ELSE Waiting(x)
  BY <1>0, <1>1, LogGrows
<1> HIDE DEF n
<1>3. \A x : Waiting(x) \subseteq DOMAIN wal
  BY DEF Waiting
<1>4. \A q, x : Misfit(q, x) => Misfit(q, x)'
  BY <1>1, <1>2, <1>3 DEF Misfit
<1>5. \A c, q, x : Owed(c, q, x) => Owed(c, q, x)'
  BY <1>1, <1>4 DEF Owed, Given, Applies, Due
<1>6. \A c, q : Served(c, q)' => Served(c, q)
  BY <1>1 DEF Served, Unlim
<1>7. ASSUME NEW q,
             \A f \in table : f[2] = d => ~InRange(index.queries[q], f[1])
      PROVE  Misfit(q, d)'
  <2>1. ScoreOf(d) = NoScore \/ ~InRange(index.queries[q], ScoreOf(d))
    <3>1. ScoreOf(d) # NoScore => <<ScoreOf(d), d>> \in table
      BY <1>0, ScoreIsRow
    <3> QED
      BY <1>7, <3>1
  <2>2. Waiting(d)' # {}
    BY <1>2
  <2>3. CASE Waiting(d) = {}
    <3>1. q \notin index.tracked[d]
      BY <2>1, <2>3 DEF TrackedFits
    <3> QED
      BY <1>1, <2>2, <3>1 DEF Misfit
  <2>4. CASE Waiting(d) # {}
    <3>1. PICK i \in Waiting(d) : \A j \in Waiting(d) : j <= i
      BY <2>4 DEF LogEnds
    <3>2. wal[i].new = ScoreOf(d)
      BY <1>0, <3>1 DEF LogChains
    <3>3. i \in Waiting(d)' /\ wal'[i].new = ScoreOf(d)
      BY <1>2, <1>3, <3>2
    <3> QED
      BY <1>1, <2>1, <3>3 DEF Misfit
  <2> QED
    BY <2>3, <2>4
<1>8. ASSUME NEW c \in Conns, NEW q \in QueryIds, Served(c, q)',
             NEW e \in table', InRange(index.queries[q], e[1])
      PROVE  Owed(c, q, e[2])'
  <2>1. CASE \E f \in table : f[2] = e[2] /\ InRange(index.queries[q], f[1])
    BY <1>5, <1>6, <1>8, <2>1 DEF Delivered
  <2>2. CASE \A f \in table : f[2] = e[2] => ~InRange(index.queries[q], f[1])
    <3>1. e[2] = d
      BY <1>1, <1>8, <2>2 DEF Row
    <3>2. Misfit(q, d)'
      BY <1>7, <2>2, <3>1
    <3>3. Owed(c, q, d)'
      BY <3>2 DEF Owed
    <3> QED
      BY <3>1, <3>3
  <2> QED
    BY <2>1, <2>2
<1> QED
  BY <1>1, <1>8 DEF Delivered

LEMMA TakeDelivers ==
  ASSUME IInv, TableInv, Delivered, TakeChange \/ TakeDelete
  PROVE  Delivered'
<1> DEFINE m == Head(wal)
<1>0. TypeOK /\ OneRowPerDoc /\ LogChains
  BY DEF IInv, TableInv
<1>1. /\ wal # <<>> /\ wal' = Tail(wal) /\ UNCHANGED <<table, store, task>>
      /\ rep.pc = "idle" /\ rep'.doc = m.doc /\ rep'.kind = m.kind
  BY DEF TakeChange, TakeDelete, Take, Idle
<1>2. m \in Changes /\ m.doc \in Docs /\ (m.kind = "delete" <=> m.new = NoScore)
  <2>1. m = wal[1] /\ 1 \in DOMAIN wal
    BY <1>0, <1>1, LogShrinks
  <2> QED
    BY <1>0, <2>1, LogType DEF LogChains, Changes
<1>3. PICK S : /\ index' = [index EXCEPT !.tracked[m.doc] = S]
               /\ \/ TakeDelete /\ S = {}
                  \/ /\ TakeChange /\ S \in Covers(index, m.new)
                     /\ rep'.pc = "conns" /\ rep'.after = S
                     /\ rep'.before = index.tracked[m.doc]
  <2>1. CASE TakeDelete
    BY <2>1 DEF TakeDelete, Take
  <2>2. CASE TakeChange
    BY <2>2 DEF TakeChange, Take, Idle
  <2> QED
    BY <2>1, <2>2
<1>4. /\ index'.queries = index.queries /\ index'.subs = index.subs
      /\ index'.tracked[m.doc] = S
      /\ \A x \in Docs : x # m.doc => index'.tracked[x] = index.tracked[x]
  BY <1>0, <1>2, <1>3 DEF TypeOK, Indexes
<1>5. /\ \A x : \A i \in Waiting(x) :
             i = 1 \/ (i - 1 \in Waiting(x)' /\ wal'[i - 1] = wal[i])
      /\ m = wal[1]
  <2>1. /\ DOMAIN wal = 1 .. Len(wal) /\ DOMAIN wal' = 1 .. Len(wal) - 1
        /\ \A i \in DOMAIN wal' : wal'[i] = wal[i + 1]
        /\ m = wal[1] /\ Len(wal) \in Nat
        /\ \A x : \A i \in Waiting(x) : i \in Nat /\ (i = 1 \/ i - 1 \in Waiting(x)')
    BY <1>0, <1>1, LogShrinks
  <2>2. \A i \in DOMAIN wal : i # 1 => wal'[i - 1] = wal[i]
    BY <2>1
  <2> QED
    BY <2>1, <2>2 DEF Waiting
<1>6. \A c, q, x : ~Due(c, q, x)
  BY <1>1 DEF Due
<1>7. ASSUME NEW c \in Conns, NEW q \in QueryIds, Served(c, q)',
             NEW e \in table, InRange(index.queries[q], e[1])
      PROVE  Owed(c, q, e[2])'
  <2>1. q \in Live(index) /\ index.queries[q].limit = Unlimited /\ Served(c, q)
    BY <1>1, <1>4, <1>7 DEF Served, Unlim, Live
  <2>2. Misfit(q, e[2]) \/ Given(c, q, e[2]) \/ Applies(c, q, e[2])
    BY <1>6, <1>7, <2>1 DEF Delivered, Owed
  <2>3. Given(c, q, e[2]) \/ Applies(c, q, e[2]) => Owed(c, q, e[2])'
    BY <1>1 DEF Owed, Given, Applies
  <2>4. e[2] \in Docs /\ e[1] # NoScore /\ ScoreOf(e[2]) = e[1]
    BY <1>0, ScoreIsRow, ScoresAreScores DEF TypeOK, Rows
  <2>5. CASE e[2] # m.doc
    <3>1. ASSUME Misfit(q, e[2])
          PROVE  Misfit(q, e[2])'
      <4>1. 1 \notin Waiting(e[2])
        BY <1>5, <2>5 DEF Waiting
      <4>2. \A i \in Waiting(e[2]) : i - 1 \in Waiting(e[2])' /\ wal'[i - 1] = wal[i]
        BY <1>5, <4>1
      <4> QED
        BY <1>4, <2>4, <2>5, <3>1, <4>2 DEF Misfit
    <3> QED
      BY <2>2, <2>3, <3>1 DEF Owed
  <2>6. CASE e[2] = m.doc
    <3>1. ASSUME NEW d \in Docs, d = m.doc, Waiting(d)' = {}
          PROVE  m.new = e[1]
      <4>1. \A u : u = Head(wal).new => Handled(d, u)'
        BY <1>0, <1>1, <3>1, TakeHandles
      <4>2. m.new = ScoreOf(d)'
        BY <3>1, <4>1 DEF Handled
      <4>3. ScoreOf(d)' = ScoreOf(d)
        BY <1>1 DEF ScoreOf
      <4> QED
        BY <2>4, <2>6, <3>1, <4>2, <4>3
    <3>2. Waiting(e[2])' = {} => m.new = e[1]
      BY <2>4, <2>6, <3>1 DEF Waiting
    <3> HIDE DEF m
    <3>3. CASE q \notin S
      <4>1. m.new # e[1]
        <5>1. CASE TakeDelete
          BY <1>2, <2>4, <5>1 DEF TakeDelete, m
        <5>2. CASE S \in Covers(index, m.new)
          BY <1>7, <2>1, <3>3, <5>2, CoversUnlimited
        <5> QED
          BY <1>3, <5>1, <5>2
      <4>2. Waiting(e[2])' # {} /\ q \notin index'.tracked[e[2]]
        BY <1>4, <2>6, <3>2, <3>3, <4>1
      <4> QED
        BY <4>2 DEF Owed, Misfit
    <3>4. CASE q \in S
      <4>1. /\ S \in Covers(index, m.new) /\ rep'.pc = "conns" /\ rep'.after = S
            /\ rep'.before = index.tracked[m.doc] /\ m.kind # "delete"
        BY <1>3, <3>4 DEF TakeChange, m
      <4>2. m.new # NoScore /\ InRange(index.queries[q], m.new)
        BY <1>2, <2>1, <3>4, <4>1, CoversUnlimited
      <4>3. CASE q \notin index.tracked[m.doc]
        BY <1>1, <2>6, <3>4, <4>1, <4>3 DEF Owed, Due, m
      <4>4. CASE q \in index.tracked[m.doc] /\ Misfit(q, e[2])
        <5>1. PICK i \in Waiting(e[2]) :
                wal[i].new = NoScore \/ ~InRange(index.queries[q], wal[i].new)
          BY <2>6, <4>4 DEF Misfit
        <5>2. i # 1
          BY <1>5, <4>2, <5>1 DEF m
        <5>3. i - 1 \in Waiting(e[2])' /\ wal'[i - 1] = wal[i]
          BY <1>5, <5>2
        <5> QED
          BY <1>4, <5>1, <5>3 DEF Owed, Misfit
      <4> QED
        BY <2>2, <2>3, <4>3, <4>4
    <3> QED
      BY <3>3, <3>4
  <2> QED
    BY <2>5, <2>6
<1> QED
  BY <1>1, <1>4, <1>7 DEF Delivered

\* What the transactions do to the entries.
LEMMA AddDocumentEntries ==
  ASSUME NEW s, NEW c, NEW Q, NEW d, NEW k \in Keys
  PROVE  AddDocument(s, c, Q, d).entry[k] =
           IF k \in KeysOf(c, Q, d) THEN "exists" ELSE s.entry[k]
BY DEF AddDocument

LEMMA HandleDeletionEntries ==
  ASSUME NEW s, NEW c, NEW Q, NEW d, NEW k \in Keys, k \notin KeysOf(c, Q, d)
  PROVE  HandleDeletion(s, c, Q, d).entry[k] = s.entry[k]
BY DEF HandleDeletion

LEMMA ApplyDbResultEntries ==
  ASSUME NEW s \in Stores, NEW c \in Conns, NEW q \in QueryIds, NEW d \in Docs,
         NEW k \in Keys
  PROVE  /\ k = <<c, q, d>> => ApplyDbResult(s, c, q, d).entry[k] \in {"notset", "exists"}
         /\ k # <<c, q, d>> => ApplyDbResult(s, c, q, d).entry[k] = s.entry[k]
<1>1. CASE s.entry[<<c, q, d>>] = "deleted"
  <2>1. ApplyDbResult(s, c, q, d).entry = [s.entry EXCEPT ![<<c, q, d>>] = "notset"]
    BY <1>1 DEF ApplyDbResult, Stores
  <2>2. s.entry \in [Keys -> EntryStates]
    BY DEF Stores
  <2> QED
    BY <2>1, <2>2
<1>2. CASE s.entry[<<c, q, d>>] # "deleted"
  <2>1. ApplyDbResult(s, c, q, d) = AddDocument(s, c, {q}, d)
    BY <1>2 DEF ApplyDbResult
  <2>2. k \in KeysOf(c, {q}, d) <=> k = <<c, q, d>>
    BY DEF KeysOf, Keys
  <2> QED
    BY <2>1, <2>2, AddDocumentEntries
<1> QED
  BY <1>1, <1>2

LEMMA RemoveQueriesEntries ==
  ASSUME NEW s, NEW c, NEW Q, NEW k \in Keys, k[1] # c \/ k[2] \notin Q
  PROVE  RemoveQueries(s, c, Q).entry[k] = s.entry[k]
BY DEF RemoveQueries, Cleared

\* A row of the document that is handled, which has left the query, is the
\* result of a change that waits.
LEMMA LeftMisfit ==
  ASSUME TypeOK, TableInv, rep.pc # "idle", NEW q, NEW e \in table,
         e[2] = rep.doc, InRange(index.queries[q], e[1]),
         q \notin index.tracked[rep.doc],
         rep.new = NoScore \/ ~InRange(index.queries[q], rep.new)
  PROVE  Misfit(q, e[2])
<1>1. e[2] \in Docs /\ e[1] # NoScore /\ ScoreOf(e[2]) = e[1]
  BY ScoreIsRow, ScoresAreScores DEF TypeOK, Rows, TableInv
<1>2. Handled(rep.doc, rep.new)
  BY DEF TableInv, IndexTracks
<1>3. Waiting(e[2]) # {}
  BY <1>1, <1>2 DEF Handled
<1> QED
  BY <1>3 DEF Misfit

LEMMA HandlerDelivers ==
  ASSUME IInv, TableInv, HandlerKnows, Delivered, Replication, ~TakeChange, ~TakeDelete
  PROVE  Delivered'
<1>0. /\ TypeOK /\ rep \in Handlers /\ rep.doc \in Docs /\ store \in Stores
      /\ rep.pc # "idle"
  BY InvParts, HandlerFrame DEF IInv, Handlers
<1>1. UNCHANGED <<table, wal, index, task>>
  BY DEF Replication, ReadConns, Tell, IndexDoc, DropQuery, Drop, UnindexDoc,
         Refill, ChooseFill, Fill, database
<1>2. \A c, q, x : /\ Served(c, q)' <=> Served(c, q)
                   /\ Misfit(q, x)' <=> Misfit(q, x)
                   /\ Applies(c, q, x)' <=> Applies(c, q, x)
  BY <1>1 DEF Served, Unlim, Misfit, Waiting, Applies
<1> SUFFICES ASSUME NEW c \in Conns, NEW q \in QueryIds, Served(c, q),
                    NEW e \in table, InRange(index.queries[q], e[1])
             PROVE  Given(c, q, e[2]) \/ Due(c, q, e[2]) => Owed(c, q, e[2])'
  BY <1>1, <1>2 DEF Delivered, Owed
<1>3. e[2] \in Docs /\ <<c, q, e[2]>> \in Keys
  BY <1>0 DEF TypeOK, Rows, Keys
<1>4. Misfit(q, e[2]) => Owed(c, q, e[2])'
  BY <1>2 DEF Owed
<1>5. ASSUME NEW o \in Conns, Tell(o)
      PROVE  Given(c, q, e[2]) \/ Due(c, q, e[2]) => Owed(c, q, e[2])'
  <2> DEFINE was == rep.wasIn[o]  is == rep.isIn[o]
             S == AddDocument(store, o, is \ was, rep.doc)
             k == <<c, q, e[2]>>
  <2>1. /\ rep.pc = "tell" /\ o \in rep.todo
        /\ store' = HandleDeletion(S, o, was \ is, rep.doc)
        /\ rep'.pc = "tell" /\ rep'.doc = rep.doc /\ rep'.kind = rep.kind
        /\ rep'.todo = rep.todo \ {o}
        /\ \A p \in Conns : p # o => rep'.wasIn[p] = rep.wasIn[p] /\ rep'.isIn[p] = rep.isIn[p]
    BY <1>0, <1>5 DEF Tell, Notify, Handlers
  <2> HIDE DEF S
  <2>2. CASE k \in KeysOf(o, was \ is, rep.doc)
    <3>1. c = o /\ q \in was \ is /\ e[2] = rep.doc
      BY <2>2 DEF KeysOf
    <3>2. Left(q)
      BY <2>1, <3>1 DEF HandlerKnows
    <3>3. q \notin index.tracked[rep.doc] /\ ~InRange(index.queries[q], rep.new)
      BY <3>2 DEF Left, Served
    <3> QED
      BY <1>0, <1>4, <3>1, <3>3, LeftMisfit
  <2>3. CASE k \notin KeysOf(o, was \ is, rep.doc)
    <3>1. store'.entry[k] = S.entry[k]
      BY <1>3, <2>1, <2>3, HandleDeletionEntries
    <3>2. S.entry[k] = IF k \in KeysOf(o, is \ was, rep.doc) THEN "exists" ELSE store.entry[k]
      BY <1>3, AddDocumentEntries DEF S
    <3>3. Given(c, q, e[2]) => Given(c, q, e[2])'
      BY <3>1, <3>2 DEF Given
    <3>4. ASSUME Due(c, q, e[2])
          PROVE  Owed(c, q, e[2])'
      <4>1. CASE c = o
        <5>1. k \in KeysOf(o, is \ was, rep.doc)
          BY <2>1, <3>4, <4>1 DEF Due, KeysOf
        <5>2. Given(c, q, e[2])'
          BY <3>1, <3>2, <5>1 DEF Given
        <5> QED
          BY <5>2 DEF Owed
      <4>2. CASE c # o
        <5>1. Due(c, q, e[2])'
          BY <2>1, <3>4, <4>2 DEF Due
        <5> QED
          BY <5>1 DEF Owed
      <4> QED
        BY <4>1, <4>2
    <3> QED
      BY <3>3, <3>4 DEF Owed
  <2> QED
    BY <2>2, <2>3
<1>6. ASSUME NEW o \in Conns, Drop(o)
      PROVE  Given(c, q, e[2]) \/ Due(c, q, e[2]) => Owed(c, q, e[2])'
  <2>1. rep.kind = "delete" /\ store' = HandleDeletion(store, o, {rep.query}, rep.doc)
    BY <1>0, <1>6 DEF Drop, TypeOK
  <2>2. ~Due(c, q, e[2])
    BY <2>1 DEF Due
  <2>3. CASE e[2] = rep.doc
    <3>1. q \notin index.tracked[rep.doc] /\ rep.new = NoScore
      BY <1>0, <2>1 DEF HandlerKnows, TableInv, IndexTracks
    <3> QED
      BY <1>0, <1>4, <2>3, <3>1, LeftMisfit
  <2>4. CASE e[2] # rep.doc
    <3>1. <<c, q, e[2]>> \notin KeysOf(o, {rep.query}, rep.doc)
      BY <2>4 DEF KeysOf
    <3>2. store'.entry[<<c, q, e[2]>>] = store.entry[<<c, q, e[2]>>]
      BY <1>3, <2>1, <3>1, HandleDeletionEntries
    <3> QED
      BY <2>2, <3>2 DEF Owed, Given
  <2> QED
    BY <2>3, <2>4
<1>7. ASSUME Fill
      PROVE  Given(c, q, e[2]) \/ Due(c, q, e[2]) => Owed(c, q, e[2])'
  <2>1. PICK f : store' = AddDocument(store, rep.pair[1], {rep.pair[2]}, f[2])
    BY <1>7 DEF Fill
  <2>2. Given(c, q, e[2]) => Given(c, q, e[2])'
    BY <1>3, <2>1, AddDocumentEntries DEF Given
  <2>3. ~Due(c, q, e[2])
    BY <1>7 DEF Due, Fill
  <2> QED
    BY <2>2, <2>3 DEF Owed
<1>8. ASSUME ReadConns
      PROVE  Given(c, q, e[2]) \/ Due(c, q, e[2]) => Owed(c, q, e[2])'
  <2>1. Given(c, q, e[2]) => Given(c, q, e[2])'
    BY <1>8 DEF ReadConns, Given
  <2>2. ASSUME Due(c, q, e[2])
        PROVE  Due(c, q, e[2])'
    <3>1. q \in rep.after \ rep.before /\ rep.doc = e[2] /\ rep.kind # "delete"
      BY <1>8, <2>2 DEF Due, ReadConns
    <3>2. /\ rep'.isIn[c] = Of(rep.after, c) /\ rep'.wasIn[c] = Of(rep.before, c)
          /\ rep'.pc = "tell" /\ rep'.doc = rep.doc /\ rep'.kind = rep.kind
          /\ rep'.todo = {o \in Conns : Of(rep.before \cup rep.after, o) # {}}
      BY <1>0, <1>8 DEF ReadConns, Handlers
    <3>3. q \in Of(rep.after, c) /\ q \notin Of(rep.before, c)
          /\ q \in Of(rep.before \cup rep.after, c)
      BY <3>1 DEF Of, Served
    <3> QED
      BY <3>1, <3>2, <3>3 DEF Due
  <2> QED
    BY <2>1, <2>2 DEF Owed
<1>9. ASSUME \/ IndexDoc \/ UnindexDoc \/ ChooseFill
             \/ \E p \in QueryIds : DropQuery(p)
             \/ \E r \in Conns \X QueryIds : Refill(r)
      PROVE  Given(c, q, e[2]) \/ Due(c, q, e[2]) => Owed(c, q, e[2])'
  <2>1. store' = store
    BY <1>9 DEF IndexDoc, UnindexDoc, ChooseFill, DropQuery, Refill
  <2>2. ~Due(c, q, e[2])
    BY <1>9 DEF IndexDoc, UnindexDoc, ChooseFill, DropQuery, Refill, Due
  <2> QED
    BY <2>1, <2>2 DEF Owed, Given
<1> QED
  BY <1>5, <1>6, <1>7, <1>8, <1>9 DEF Replication

\* The snapshot of a query without a limit holds every row of its range.
LEMMA SnapshotIsWhole ==
  ASSUME TypeOK, OneRowPerDoc, NEW spec, spec.limit = Unlimited,
         NEW S \in FirstRows(spec)
  PROVE  S = {e \in table : InRange(spec, e[1])}
<1> DEFINE rows == {e \in table : InRange(spec, e[1])}
           f == [e \in rows |-> e[2]]
<1>1. f \in Injection(rows, Docs)
  <2>1. \A e \in rows : e[2] \in Docs
    BY DEF TypeOK, Rows
  <2> QED
    BY <2>1 DEF Injection, IsInjective, OneRowPerDoc
<1> HIDE DEF f
<1>2. IsFiniteSet(rows) /\ Cardinality(rows) <= Cardinality(Docs)
  BY <1>1, FS_Injection, UnlimitedIsLarge
<1>3. Cardinality(rows) \in Nat /\ Cardinality(Docs) \in Nat
  BY <1>2, FS_CardinalityType, UnlimitedIsLarge
<1>4. Cardinality(rows) < spec.limit
  BY <1>2, <1>3, UnlimitedIsLarge
<1>5. S \in SUBSET rows /\ Cardinality(S) = Cardinality(rows)
  BY <1>4 DEF FirstRows
<1> HIDE DEF rows
<1>6. S = rows
  BY <1>2, <1>5, FS_Subset
<1> QED
  BY <1>6 DEF rows

LEMMA ConnectionStore ==
  ASSUME IInv, NEW p \in Conns, Connection(p), NEW k \in Keys, k[1] # p
  PROVE  store'.entry[k] = store.entry[k]
<1>1. store \in Stores
  BY InvParts
<1>2. ASSUME NEW d \in Docs, ApplyRow(p, d)
      PROVE  store'.entry[k] = store.entry[k]
  <2>1. task[p].query \in QueryIds
    BY <1>2 DEF ApplyRow, At, IInv, TypeOK, Tasks
  <2>2. k # <<p, task[p].query, d>>
    OBVIOUS
  <2> QED
    BY <1>1, <1>2, <2>1, <2>2, ApplyDbResultEntries DEF ApplyRow
<1>3. ASSUME NEW spec \in Asks[p], Unsubscribe(p, spec)
      PROVE  store'.entry[k] = store.entry[k]
  BY <1>3, RemoveQueriesEntries DEF Unsubscribe, RemoveQueryForConnection
<1>4. ASSUME ClearStorage(p)
      PROVE  store'.entry[k] = store.entry[k]
  BY <1>4, RemoveQueriesEntries DEF ClearStorage, RemoveConnection
<1> QED
  BY <1>2, <1>3, <1>4 DEF Connection, Connect, Subscribe, Snapshot, SnapshotFails,
     Unregister, LeaveQueries

LEMMA ConnectionDelivers ==
  ASSUME IInv, TableInv, NewHoldsNone, Delivered, NEW p \in Conns, Connection(p)
  PROVE  Delivered'
<1>0. /\ TypeOK /\ OneRowPerDoc /\ store \in Stores /\ IndexOK(index)
      /\ Follows(index, index', p)
      /\ task \in [Conns -> Tasks]
  BY InvParts, ConnectionFollows DEF IInv, TableInv, TypeOK
<1>1. UNCHANGED <<table, wal, rep>>
  BY DEF Connection, Connect, Subscribe, Snapshot, SnapshotFails, ApplyRow,
         Unsubscribe, Unregister, LeaveQueries, ClearStorage, database
<1>2. \A c, q, x : Due(c, q, x)' <=> Due(c, q, x)
  BY <1>1 DEF Due
<1>3. \A c \in Conns, q \in QueryIds : c \in index.subs[q] => q \in Live(index)
  BY <1>0 DEF IndexOK
<1>4. ASSUME NEW q \in Live(index), q \in Live(index')
      PROVE  /\ index'.queries[q] = index.queries[q]
             /\ \A x \in Docs : Misfit(q, x)' <=> Misfit(q, x)
  <2>1. index'.queries[q] = index.queries[q]
    BY <1>0, <1>4 DEF Follows
  <2>2. \A x \in Docs : q \in index'.tracked[x] <=> q \in index.tracked[x]
    BY <1>0, <1>4 DEF Follows
  <2> QED
    BY <1>1, <2>1, <2>2 DEF Misfit, Waiting
<1>5. ASSUME NEW c \in Conns, c # p
      PROVE  task'[c] = task[c]
  BY <1>0, <1>5 DEF Connection, Connect, Subscribe, Snapshot, SnapshotFails, ApplyRow,
         Unsubscribe, Unregister, LeaveQueries, ClearStorage, Goto, Becomes
<1>6. \A e \in table : e[2] \in Docs
  BY <1>0 DEF TypeOK, Rows
\* A connection that had the query before keeps what it had, unless its own step
\* takes it away.
<1>7. ASSUME NEW c \in Conns, NEW q \in QueryIds, Served(c, q)', Served(c, q),
             \A x \in Docs : Given(c, q, x) \/ Applies(c, q, x) =>
                               Given(c, q, x)' \/ Applies(c, q, x)',
             NEW e \in table, InRange(index'.queries[q], e[1])
      PROVE  Owed(c, q, e[2])'
  <2>1. q \in Live(index) /\ q \in Live(index')
    BY <1>7 DEF Served, Unlim
  <2>2. InRange(index.queries[q], e[1])
    BY <1>4, <1>7, <2>1
  <2>3. Owed(c, q, e[2])
    BY <1>7, <2>2 DEF Delivered
  <2> QED
    BY <1>2, <1>4, <1>6, <1>7, <2>1, <2>3 DEF Owed
<1>8. ASSUME NEW c \in Conns, NEW q \in QueryIds, c # p, Served(c, q)'
      PROVE  /\ Served(c, q)
             /\ \A x \in Docs : Given(c, q, x) \/ Applies(c, q, x) =>
                                  Given(c, q, x)' \/ Applies(c, q, x)'
  <2>1. c \in index.subs[q] /\ q \in Live(index)
    BY <1>0, <1>3, <1>8 DEF Follows, Served
  <2>2. Served(c, q)
    BY <1>4, <1>5, <1>8, <2>1 DEF Served, Unlim
  <2>3. \A x \in Docs : store'.entry[<<c, q, x>>] = store.entry[<<c, q, x>>]
    <3>1. \A x \in Docs : <<c, q, x>> \in Keys
      BY DEF Keys
    <3> QED
      BY <1>8, <3>1, ConnectionStore
  <2> QED
    BY <1>5, <1>8, <2>2, <2>3 DEF Given, Applies
<1> DEFINE Goal(q) ==
             \A e \in table : InRange(index'.queries[q], e[1]) => Owed(p, q, e[2])'
<1>9. ASSUME NEW q \in QueryIds, Served(p, q)'
      PROVE  Goal(q)
  <2>1. ASSUME Connect(p)
        PROVE  FALSE
    BY <1>9, <2>1 DEF Connect, NewHoldsNone, QueriesOf, Served
  <2>2. ASSUME NEW spec \in Asks[p], Subscribe(p, spec)
        PROVE  Goal(q)
    <3>1. PICK r \in QueryIds : /\ index' = Subscribed(index, p, spec, r)
                                /\ task' = [task EXCEPT ![p] =
                                     [pc |-> "reading", query |-> r, rows |-> {}]]
      BY <1>0, <2>2, IndexParts DEF Subscribe, IdsOf, IndexOK
    <3>2. q # r
      BY <1>0, <1>9, <3>1 DEF Served
    <3>3. p \in index.subs[q]
      BY <1>0, <1>9, <3>1, <3>2 DEF Served, Subscribed, IndexOK, Indexes
    <3>4. Served(p, q)
      BY <1>3, <1>4, <1>9, <2>2, <3>3 DEF Served, Unlim, Subscribe, At
    <3>5. store' = store /\ task[p].pc = "listening"
      BY <2>2 DEF Subscribe, At
    <3> QED
      BY <1>7, <1>9, <3>4, <3>5 DEF Given, Applies
  <2>3. ASSUME Snapshot(p)
        PROVE  Goal(q)
    <3>1. PICK S \in FirstRows(index.queries[task[p].query]) :
            \E t \in Applying(task[p].query, {f[2] : f \in S}) :
               task' = [task EXCEPT ![p] = t]
      BY <2>3 DEF Snapshot, Becomes
    <3>2. index' = index /\ store' = store /\ task[p].pc = "reading"
      BY <2>3 DEF Snapshot, At
    <3>3. CASE q # task[p].query
      <4>1. Served(p, q)
        BY <1>9, <3>2, <3>3 DEF Served, Unlim
      <4> QED
        BY <1>7, <1>9, <3>2, <4>1 DEF Given, Applies
    <3>4. CASE q = task[p].query
      <4>1. index.queries[q].limit = Unlimited
        BY <1>9, <3>2 DEF Served, Unlim
      <4>2. S = {f \in table : InRange(index.queries[q], f[1])}
        BY <1>0, <3>1, <3>4, <4>1, SnapshotIsWhole
      <4>3. ASSUME NEW e \in table, InRange(index.queries[q], e[1])
            PROVE  Applies(p, q, e[2])'
        <5>1. e[2] \in {f[2] : f \in S}
          BY <4>2, <4>3
        <5>2. task'[p] = [pc |-> "applying", query |-> q, rows |-> {f[2] : f \in S}]
          BY <1>0, <3>1, <3>4, <5>1 DEF Applying
        <5> QED
          BY <5>1, <5>2 DEF Applies
      <4> QED
        BY <3>2, <4>3 DEF Owed
    <3> QED
      BY <3>3, <3>4
  <2>4. ASSUME NEW d \in Docs, ApplyRow(p, d)
        PROVE  Goal(q)
    <3> DEFINE r == task[p].query
    <3>1. /\ index' = index /\ task[p].pc = "applying" /\ r \in QueryIds
          /\ store' = ApplyDbResult(store, p, r, d)
          /\ \E t \in Applying(r, task[p].rows \ {d}) :
                task' = [task EXCEPT ![p] = t]
      BY <1>0, <2>4 DEF ApplyRow, Becomes, At, TypeOK, Tasks
    <3>2. Served(p, q)
      BY <1>9, <3>1 DEF Served, Unlim
    <3>3. ASSUME NEW x \in Docs, Given(p, q, x) \/ Applies(p, q, x)
          PROVE  Given(p, q, x)' \/ Applies(p, q, x)'
      <4>1. <<p, q, x>> \in Keys
        BY DEF Keys
      <4>2. CASE <<p, q, x>> = <<p, r, d>>
        BY <1>0, <3>1, <4>1, <4>2, ApplyDbResultEntries DEF Given
      <4>3. CASE <<p, q, x>> # <<p, r, d>>
        <5>1. store'.entry[<<p, q, x>>] = store.entry[<<p, q, x>>]
          BY <1>0, <3>1, <4>1, <4>3, ApplyDbResultEntries
        <5>2. ASSUME Applies(p, q, x)
              PROVE  Applies(p, q, x)'
          <6>1. q = r /\ x \in task[p].rows \ {d}
            BY <4>3, <5>2 DEF Applies
          <6>2. task'[p] = [pc |-> "applying", query |-> r, rows |-> task[p].rows \ {d}]
            BY <1>0, <3>1, <6>1 DEF Applying
          <6> QED
            BY <6>1, <6>2 DEF Applies
        <5> QED
          BY <3>3, <5>1, <5>2 DEF Given
      <4> QED
        BY <4>2, <4>3
    <3> QED
      BY <1>7, <1>9, <3>2, <3>3
  <2>5. ASSUME NEW spec \in Asks[p], Unsubscribe(p, spec)
        PROVE  Goal(q)
    <3>1. PICK r \in QueryIds : /\ index' = Unsubscribed(index, p, {r})
                                /\ store' = RemoveQueries(store, p, {r})
      BY <1>0, <2>5, IndexParts
         DEF Unsubscribe, IdsOf, IndexOK, RemoveQueryForConnection
    <3>2. {r} \subseteq QueryIds
      OBVIOUS
    <3>3. q # r /\ p \in index.subs[q]
      BY <1>0, <1>9, <3>1, <3>2, UnsubscribedFollows DEF Served
    <3>4. task[p].pc = "listening"
      BY <2>5 DEF Unsubscribe, At
    <3>5. Served(p, q)
      BY <1>3, <1>4, <1>9, <3>3, <3>4 DEF Served, Unlim
    <3>6. \A x \in Docs : store'.entry[<<p, q, x>>] = store.entry[<<p, q, x>>]
      <4>1. \A x \in Docs : <<p, q, x>> \in Keys
        BY DEF Keys
      <4> QED
        BY <3>1, <3>3, <4>1, RemoveQueriesEntries
    <3> QED
      BY <1>7, <1>9, <3>4, <3>5, <3>6 DEF Given, Applies
  <2>6. ASSUME SnapshotFails(p) \/ Unregister(p) \/ LeaveQueries(p) \/ ClearStorage(p)
        PROVE  FALSE
    <3>1. task'[p].pc \in {"failed", "leaving", "clearing", "gone"}
      BY <1>0, <2>6 DEF SnapshotFails, Becomes, Failed, Unregister, LeaveQueries,
                        ClearStorage, Goto, Tasks
    <3> QED
      BY <1>9, <3>1 DEF Served
  <2> HIDE DEF Goal
  <2> QED
    BY <2>1, <2>2, <2>3, <2>4, <2>5, <2>6 DEF Connection
<1> QED
  BY <1>1, <1>7, <1>8, <1>9 DEF Delivered

LEMMA NewHoldsNoneStep ==
  ASSUME IInv, NewHoldsNone, [Next]_vars
  PROVE  NewHoldsNone'
<1>0. /\ task \in [Conns -> Tasks] /\ index.tracked \in [Docs -> SUBSET QueryIds]
      /\ index \in Indexes
  BY InvParts, IndexParts DEF IInv, TypeOK, IndexOK
<1>1. ASSUME NEW p \in Conns, Connection(p)
      PROVE  NewHoldsNone'
  <2>1. Follows(index, index', p)
    BY <1>1, ConnectionFollows
  <2>2. \A c \in Conns : c # p => task'[c] = task[c]
    BY <1>0, <1>1 DEF Connection, Connect, Subscribe, Snapshot, SnapshotFails, ApplyRow,
           Unsubscribe, Unregister, LeaveQueries, ClearStorage, Goto, Becomes
  <2>3. task'[p].pc # "new"
    <3>1. \A q, S : \A t \in Applying(q, S) \cup Answered : t.pc # "new"
      BY DEF Applying, Answered, Listening, Failed
    <3>2. Snapshot(p) \/ (\E d \in Docs : ApplyRow(p, d)) => task'[p].pc # "new"
      <4>1. ASSUME Snapshot(p)
            PROVE  task'[p].pc # "new"
        <5>1. PICK S : \E t \in Applying(task[p].query, {f[2] : f \in S}) :
                         task' = [task EXCEPT ![p] = t]
          BY <4>1 DEF Snapshot, Becomes
        <5> QED
          BY <1>0, <3>1, <5>1
      <4>2. ASSUME NEW d \in Docs, ApplyRow(p, d)
            PROVE  task'[p].pc # "new"
        <5>1. \E t \in Applying(task[p].query, task[p].rows \ {d}) :
                 task' = [task EXCEPT ![p] = t]
          BY <4>2 DEF ApplyRow, Becomes
        <5> QED
          BY <1>0, <3>1, <5>1
      <4> QED
        BY <4>1, <4>2
    <3>3. (\E spec \in Asks[p] : Subscribe(p, spec)) => task'[p].pc # "new"
      BY <1>0 DEF Subscribe
    <3>4. SnapshotFails(p) \/ (\E spec \in Asks[p] : Unsubscribe(p, spec))
            => task'[p].pc # "new"
      <4>1. SnapshotFails(p) \/ (\E spec \in Asks[p] : Unsubscribe(p, spec))
              => \E t \in Answered : task' = [task EXCEPT ![p] = t]
        BY DEF SnapshotFails, Unsubscribe, Becomes, Answered
      <4> QED
        BY <1>0, <3>1, <4>1
    <3>5. (\E pc : Goto(p, pc) /\ pc # "new") => task'[p].pc # "new"
      BY <1>0 DEF Goto, Tasks
    <3> QED
      BY <1>1, <3>2, <3>3, <3>4, <3>5 DEF Connection, Connect, Unregister,
         LeaveQueries, ClearStorage
  <2> QED
    BY <2>1, <2>2, <2>3 DEF NewHoldsNone, At, QueriesOf, Follows
<1>2. ASSUME TakeChange \/ TakeDelete
      PROVE  index'.subs = index.subs /\ task' = task
  BY <1>0, <1>2 DEF TakeChange, TakeDelete, Take, Indexes
<1>3. ASSUME Replication, ~TakeChange, ~TakeDelete
      PROVE  index' = index /\ task' = task
  BY <1>3 DEF Replication, ReadConns, Tell, IndexDoc, DropQuery, Drop, UnindexDoc,
              Refill, ChooseFill, Fill
<1>4. index'.subs = index.subs /\ task' = task => NewHoldsNone'
  BY DEF NewHoldsNone, At, QueriesOf
<1> QED
  BY <1>1, <1>2, <1>3, <1>4 DEF Next, vars, Insert, Update, Delete, Change

\* The inductive invariant of the delivery.
DeliveryInv ==
  /\ IInv /\ TableInv /\ LogEnds /\ TrackedFits /\ HandlerKnows /\ NewHoldsNone
  /\ Delivered

LEMMA DeliveryInit ==
  ASSUME Init
  PROVE  DeliveryInv
<1>1. IInv /\ TableInv
  BY InvInit, TableInit
<1>2. /\ DOMAIN wal = {} /\ table = {} /\ rep.pc = "idle"
      /\ \A d \in Docs : index.tracked[d] = {}
      /\ \A q \in QueryIds : index.subs[q] = {}
  BY DEF Init, Idle, EmptyIndex
<1> QED
  BY <1>1, <1>2 DEF DeliveryInv, LogEnds, Waiting, TrackedFits, HandlerKnows,
     NewHoldsNone, QueriesOf, Delivered

LEMMA DeliveryNext ==
  ASSUME DeliveryInv, [Next]_vars
  PROVE  DeliveryInv'
<1> USE DEF DeliveryInv
<1>1. IInv' /\ TableInv'
  BY InvNext, LogStep, IndexTracksStep DEF IInv, TableInv
<1>2. LogEnds' /\ TrackedFits' /\ HandlerKnows' /\ NewHoldsNone'
  BY LogEndsStep, TrackedFitsStep, HandlerKnowsStep, NewHoldsNoneStep DEF IInv, TableInv
<1>3. Delivered'
  <2>1. CASE \E kind \in Kinds, d \in Docs, v \in Values : Change(kind, d, v)
    BY <2>1, ChangeDelivers
  <2>2. CASE TakeChange \/ TakeDelete
    BY <2>2, TakeDelivers
  <2>3. CASE Replication /\ ~TakeChange /\ ~TakeDelete
    BY <2>3, HandlerDelivers
  <2>4. CASE \E c \in Conns : Connection(c)
    BY <2>4, ConnectionDelivers
  <2>5. CASE UNCHANGED vars
    BY <2>5 DEF vars, database, Delivered, Served, Unlim, Owed, Misfit, Waiting,
       Given, Applies, Due
  <2>6. ASSUME \/ \E d \in Docs, v \in Scores : Insert(d, v) \/ Update(d, v)
               \/ \E d \in Docs : Delete(d)
        PROVE  \E kind \in Kinds, d \in Docs, v \in Values : Change(kind, d, v)
    BY <2>6 DEF Insert, Update, Delete, Kinds, Values
  <2> QED
    BY <2>1, <2>2, <2>3, <2>4, <2>5, <2>6 DEF Next
<1> QED
  BY <1>1, <1>2, <1>3

LEMMA DeliveryInvariance == Spec => []DeliveryInv
<1>1. Init => DeliveryInv
  BY DeliveryInit
<1>2. DeliveryInv /\ [Next]_vars => DeliveryInv'
  BY DeliveryNext
<1> QED
  BY <1>1, <1>2, PTL DEF Spec

\* At rest, the storage has every document of the table that an acknowledged
\* query without a limit matches: no order of subscription, snapshot and
\* replication loses one (storage.rs:9-12, websocket.rs:240-293,
\* replication.rs:142-280).
THEOREM NothingIsMissed == Spec => []NothingMissed
<1>1. DeliveryInv => NothingMissed
  <2> SUFFICES ASSUME DeliveryInv, rep.pc = "idle", wal = <<>>,
                      NEW c \in Conns, At(c, "listening"),
                      NEW q \in QueriesOf(index, c), index.queries[q].limit = Unlimited,
                      NEW e \in table, InRange(index.queries[q], e[1])
               PROVE  Given(c, q, e[2])
    BY DEF NothingMissed, Given
  <2>1. q \in QueryIds /\ Served(c, q)
    BY DEF QueriesOf, DeliveryInv, IInv, QueriesAreHeld, Served, Unlim, At
  <2>2. Owed(c, q, e[2])
    BY <2>1 DEF DeliveryInv, Delivered
  <2> QED
    BY <2>2 DEF Owed, Misfit, Waiting, Applies, Due, At
<1> QED
  BY <1>1, DeliveryInvariance, PTL

-----------------------------------------------------------------------------
(* Each connection is sent the one event of a change.                       *)

\* The event of the change, and nothing else, has been sent to c.
Exact(c) ==
  told[c].events = Events(told[c].tracked, Matching(c, rep.new) # {})

\* The handler of an insert or an update is about to tell c what it should, or
\* has told it, and its refills concern queries the document does not match.
TellsWell(c) ==
  /\ rep.pc = "conns" =>
       /\ told[c].events = <<>>
       /\ told[c].tracked <=> rep.before \cap QueriesOf(index, c) # {}
       /\ \A q \in QueriesOf(index, c) :
            q \in rep.after <=> InRange(index.queries[q], rep.new)
  /\ rep.pc = "tell" /\ c \in rep.todo =>
       /\ told[c].events = <<>>
       /\ told[c].tracked <=> rep.wasIn[c] # {}
       /\ rep.isIn[c] = Matching(c, rep.new)
       /\ rep.wasIn[c] \subseteq QueriesOf(index, c)
       /\ rep.wasIn[c] \cup rep.isIn[c] # {}
  /\ (rep.pc = "tell" /\ c \notin rep.todo) \/ Indexed => Exact(c)
  /\ \A q : <<c, q>> \in rep.refills =>
       q \in QueriesOf(index, c) /\ ~InRange(index.queries[q], rep.new)
  /\ rep.pc = "choose" /\ rep.pair[1] = c => ~InRange(rep.spec, rep.new)
  /\ rep.pc = "fill" /\ rep.pair[1] = c => \A e \in rep.fill : e[2] # rep.doc

Registered == {"listening", "reading", "applying", "failed"}

\* The notifications are counted of connections that are registered, while a
\* change is handled.
Counted ==
  /\ DOMAIN told \subseteq registry
  /\ \A c \in registry : task[c].pc \in Registered
  /\ rep.pc = "idle" => DOMAIN told = {}

ToldWell == rep.pc # "idle" /\ rep.kind # "delete" =>
              \A c \in DOMAIN told : AllUnlimited(c) => TellsWell(c)

LEMMA CountedStep ==
  ASSUME IInv, Counted, [Next]_vars
  PROVE  Counted'
<1>0. /\ task \in [Conns -> Tasks] /\ registry \subseteq Conns /\ rep \in Handlers
      /\ TypeOK
  BY DEF IInv, TypeOK
<1>1. CASE TakeChange \/ TakeDelete
  <2>1. /\ DOMAIN told' \subseteq registry /\ registry' = registry /\ task' = task
        /\ rep'.pc \in {"conns", "drop"}
    BY <1>1 DEF TakeChange, TakeDelete, Take, Idle, Watchers
  <2> QED
    BY <2>1 DEF Counted
<1>2. CASE Replication /\ ~TakeChange /\ ~TakeDelete
  <2>1. registry' = registry /\ task' = task
    BY <1>2 DEF Replication, ReadConns, Tell, IndexDoc, DropQuery, Drop, UnindexDoc,
                Refill, ChooseFill, Fill
  <2>2. ASSUME NEW r, NEW c, NEW d, NEW what, Notify(r, c, d, what)
        PROVE  /\ DOMAIN told' \subseteq DOMAIN told
               /\ rep'.pc = "idle" => DOMAIN told' = {}
    BY <2>2 DEF Notify
  <2>3. ASSUME NEW r, Become(r)
        PROVE  /\ DOMAIN told' \subseteq DOMAIN told
               /\ rep'.pc = "idle" => DOMAIN told' = {}
    BY <2>3 DEF Become
  <2>4. CASE ReadConns \/ \E q \in QueryIds : DropQuery(q)
    <3>1. told' = told /\ rep'.pc # "idle"
      BY <1>0, <2>4 DEF ReadConns, DropQuery, Handlers
    <3> QED
      BY <2>1, <3>1 DEF Counted
  <2>5. CASE ~ReadConns /\ ~ \E q \in QueryIds : DropQuery(q)
    <3>1. (\E r : Become(r)) \/ (\E r, c, d, what : Notify(r, c, d, what))
      BY <1>2, <2>5 DEF Replication, Tell, IndexDoc, Drop, UnindexDoc,
                        Refill, ChooseFill, Fill
    <3> QED
      BY <2>1, <2>2, <2>3, <3>1 DEF Counted
  <2> QED
    BY <2>4, <2>5
<1>3. ASSUME NEW p \in Conns, Connection(p)
      PROVE  Counted'
  <2>1. rep' = rep /\ \A c \in Conns : c # p => task'[c] = task[c]
    BY <1>0, <1>3 DEF Connection, Connect, Subscribe, Snapshot, SnapshotFails, ApplyRow,
         Unsubscribe, Unregister, LeaveQueries, ClearStorage, Goto, Becomes
  <2>2. DOMAIN told' \subseteq DOMAIN told
    BY <1>3 DEF Connection, Connect, Subscribe, Snapshot, SnapshotFails, ApplyRow,
         Unsubscribe, Unregister, LeaveQueries, ClearStorage, Resubscribed
  <2>3. ASSUME NEW q, NEW S, Becomes(p, Applying(q, S)) \/ Becomes(p, {Failed})
                             \/ Becomes(p, Answered)
        PROVE  task'[p].pc \in Registered
    <3>1. \A t \in Applying(q, S) \cup Answered : t.pc \in Registered
      BY DEF Applying, Answered, Listening, Failed, Registered
    <3>2. PICK t \in Applying(q, S) \cup Answered : task' = [task EXCEPT ![p] = t]
      BY <2>3 DEF Becomes, Answered
    <3> QED
      BY <1>0, <3>1, <3>2
  <2>4. ASSUME registry' = registry \cup {p}, task'[p].pc \in Registered
        PROVE  Counted'
    BY <1>0, <2>1, <2>2, <2>4 DEF Counted
  <2>5. ASSUME registry' = registry, p \notin registry
        PROVE  Counted'
    BY <1>0, <2>1, <2>2, <2>5 DEF Counted
  <2>6. ASSUME registry' = registry, task'[p].pc \in Registered
        PROVE  Counted'
    BY <1>0, <2>1, <2>2, <2>6 DEF Counted
  <2>7. \A pc \in Registered : Goto(p, pc) => task'[p].pc \in Registered
    BY <1>0 DEF Goto, Tasks
  <2>8. CASE Connect(p)
    BY <2>4, <2>7, <2>8 DEF Connect, Registered
  <2>9. CASE \/ Snapshot(p) \/ SnapshotFails(p)
             \/ \E d \in Docs : ApplyRow(p, d)
             \/ \E spec \in Asks[p] : Unsubscribe(p, spec)
    <3>1. registry' = registry
      BY <2>9 DEF Snapshot, SnapshotFails, ApplyRow, Unsubscribe
    <3>2. \/ \E q, S : Becomes(p, Applying(q, S))
          \/ Becomes(p, {Failed}) \/ Becomes(p, Answered)
      BY <2>9 DEF Snapshot, SnapshotFails, ApplyRow, Unsubscribe
    <3> QED
      BY <2>3, <2>6, <3>1, <3>2
  <2>10. CASE \E spec \in Asks[p] : Subscribe(p, spec)
    <3>1. registry' = registry /\ task'[p].pc = "reading"
      BY <1>0, <2>10 DEF Subscribe
    <3> QED
      BY <2>6, <3>1 DEF Registered
  <2>11. CASE Unregister(p)
    <3>1. registry' = registry \ {p} /\ DOMAIN told' = DOMAIN told \ {p}
      BY <2>11 DEF Unregister, Resubscribed
    <3> QED
      BY <1>0, <2>1, <3>1 DEF Counted
  <2>12. CASE LeaveQueries(p) \/ ClearStorage(p)
    <3>1. registry' = registry /\ p \notin registry
      BY <2>12 DEF LeaveQueries, ClearStorage, At, Counted, Registered
    <3> QED
      BY <2>5, <3>1
  <2> QED
    BY <1>3, <2>8, <2>9, <2>10, <2>11, <2>12 DEF Connection
<1>4. CASE UNCHANGED <<registry, task, rep, told>>
  BY <1>4 DEF Counted
<1> QED
  BY <1>1, <1>2, <1>3, <1>4 DEF Next, vars, Insert, Update, Delete, Change

\* A connection whose notifications are still counted has the queries it had.
LEMMA CountedKeep ==
  ASSUME IInv, Counted, NEW p \in Conns, Connection(p), NEW c \in DOMAIN told'
  PROVE  /\ c \in DOMAIN told /\ c \in Conns /\ told'[c] = told[c]
         /\ QueriesOf(index, c)' = QueriesOf(index, c)
         /\ \A q \in QueriesOf(index, c) : index'.queries[q] = index.queries[q]
<1>0. /\ registry \subseteq Conns /\ Follows(index, index', p)
      /\ Live(index) = {q \in QueryIds : index.subs[q] # {}}
  BY InvParts, ConnectionFollows DEF IInv, TypeOK, IndexOK
<1>1. c \in DOMAIN told /\ told'[c] = told[c]
  BY DEF Connection, Connect, Subscribe, Snapshot, SnapshotFails, ApplyRow,
         Unsubscribe, Unregister, LeaveQueries, ClearStorage, Resubscribed
<1>2. c \in Conns /\ c \in registry
  BY <1>0, <1>1 DEF Counted
<1>3. CASE c # p
  <2>1. QueriesOf(index, c)' = QueriesOf(index, c)
    BY <1>0, <1>2, <1>3 DEF QueriesOf, Follows
  <2>2. ASSUME NEW q \in QueriesOf(index, c)
        PROVE  q \in Live(index) /\ q \in Live(index')
    <3>1. q \in QueryIds /\ index.subs[q] # {} /\ index'.subs[q] # {}
      BY <2>1, <2>2 DEF QueriesOf
    <3>2. Live(index') = {r \in QueryIds : index'.subs[r] # {}}
      BY IndexStep DEF IndexOK, Next
    <3> QED
      BY <1>0, <3>1, <3>2
  <2>3. \A q \in QueriesOf(index, c) : index'.queries[q] = index.queries[q]
    BY <1>0, <2>2 DEF Follows
  <2> QED
    BY <1>1, <1>2, <2>1, <2>3
<1>4. CASE c = p
  <2>1. index' = index
    <3>1. task[c].pc \in Registered
      BY <1>2 DEF Counted
    <3>2. \A spec : ~Subscribe(p, spec) /\ ~Unsubscribe(p, spec)
      BY <1>4 DEF Subscribe, Unsubscribe, Resubscribed
    <3>3. ~LeaveQueries(p)
      BY <1>4, <3>1 DEF LeaveQueries, At, Registered
    <3> QED
      BY <3>2, <3>3 DEF Connection, Connect, Snapshot, SnapshotFails, ApplyRow,
                        Unregister, ClearStorage
  <2> QED
    BY <1>1, <1>2, <2>1 DEF QueriesOf
<1> QED
  BY <1>3, <1>4

LEMMA ConnectionTells ==
  ASSUME IInv, Counted, ToldWell, NEW p \in Conns, Connection(p)
  PROVE  ToldWell'
<1>1. UNCHANGED rep
  BY DEF Connection, Connect, Subscribe, Snapshot, SnapshotFails, ApplyRow,
         Unsubscribe, Unregister, LeaveQueries, ClearStorage
<1>2. ASSUME NEW c \in DOMAIN told', rep.pc # "idle", rep.kind # "delete",
             AllUnlimited(c)'
      PROVE  TellsWell(c)'
  <2>1. /\ c \in DOMAIN told /\ told'[c] = told[c]
        /\ QueriesOf(index', c) = QueriesOf(index, c)
        /\ \A q \in QueriesOf(index, c) : index'.queries[q] = index.queries[q]
    BY <1>2, CountedKeep
  <2>2. AllUnlimited(c)
    BY <1>2, <2>1 DEF AllUnlimited
  <2>3. TellsWell(c)
    BY <1>2, <2>1, <2>2 DEF ToldWell
  <2>4. \A v : Matching(c, v)' = Matching(c, v)
    BY <2>1 DEF Matching
  <2>5. Exact(c) => Exact(c)'
    BY <1>1, <2>1, <2>4 DEF Exact
  <2>6. Indexed' <=> Indexed
    BY <1>1 DEF Indexed
  <2>7. Matching(c, rep.new)' = Matching(c, rep.new)
    BY <1>1, <2>1 DEF Matching
  <2> QED
    BY <1>1, <2>1, <2>3, <2>5, <2>6, <2>7 DEF TellsWell
<1> QED
  BY <1>1, <1>2 DEF ToldWell

LEMMA TakeTells ==
  ASSUME IInv, Counted, TakeChange \/ TakeDelete
  PROVE  ToldWell'
<1>1. CASE TakeDelete
  <2>1. rep'.kind = "delete"
    BY <1>1 DEF TakeDelete, Take, Idle
  <2> QED
    BY <2>1 DEF ToldWell
<1>2. CASE TakeChange
  <2> DEFINE m == Head(wal)
  <2>0. m \in Changes /\ m.doc \in Docs
    BY <1>2, ChangeType DEF TakeChange, IInv, Changes
  <2>1. PICK S \in Covers(index, m.new) : Take("conns", index.tracked[m.doc], S)
    BY <1>2 DEF TakeChange
  <2>2. /\ index' = [index EXCEPT !.tracked[m.doc] = S]
        /\ told' = [c \in Watchers |-> Untold(c, m)] /\ m.kind # "delete"
        /\ rep'.pc = "conns" /\ rep'.after = S /\ rep'.new = m.new
        /\ rep'.before = index.tracked[m.doc] /\ rep'.refills = {}
    BY <1>2, <2>1 DEF TakeChange, Take, Idle
  <2> HIDE DEF m
  <2>3. index'.queries = index.queries /\ index'.subs = index.subs
    BY <2>0, <2>2, InvParts DEF IndexOK, Indexes
  <2>4. ASSUME NEW c \in Watchers, AllUnlimited(c)',
               NEW q \in QueriesOf(index', c)
        PROVE  q \in S <=> InRange(index.queries[q], m.new)
    <3>1. q \in QueriesOf(index, c) /\ index.queries[q].limit = Unlimited
      BY <2>3, <2>4 DEF AllUnlimited, QueriesOf
    <3>2. q \in Live(index)
      BY <3>1, InvParts DEF QueriesOf, IndexOK
    <3> QED
      BY <3>1, <3>2, CoversUnlimited
  <2>5. ~ Indexed'
    BY <2>2 DEF Indexed
  <2>6. ASSUME NEW c \in Watchers
        PROVE  /\ told'[c].events = <<>>
               /\ told'[c].tracked <=> rep'.before \cap QueriesOf(index', c) # {}
    BY <2>2, <2>3, <2>6 DEF Untold, QueriesOf
  <2> QED
    BY <2>2, <2>3, <2>4, <2>5, <2>6 DEF ToldWell, TellsWell
<1> QED
  BY <1>1, <1>2

\* The steps of a handler of an insert or an update.
LEMMA ReadConnsTells ==
  ASSUME IInv, Counted, ToldWell, ReadConns
  PROVE  ToldWell'
<1>0. rep \in Handlers /\ rep.pc = "conns"
  BY InvParts DEF ReadConns
<1>1. /\ UNCHANGED <<index, told>> /\ rep'.pc = "tell" /\ rep'.kind = rep.kind
      /\ rep'.new = rep.new /\ rep'.refills = rep.refills
      /\ rep'.wasIn = [c \in Conns |-> Of(rep.before, c)]
      /\ rep'.isIn  = [c \in Conns |-> Of(rep.after, c)]
      /\ rep'.todo  = {c \in Conns : Of(rep.before \cup rep.after, c) # {}}
  BY <1>0 DEF ReadConns, Handlers
<1>2. ASSUME NEW c \in DOMAIN told, rep.kind # "delete", AllUnlimited(c)
      PROVE  TellsWell(c)'
  <2>1. TellsWell(c) /\ c \in Conns
    BY <1>0, <1>2 DEF ToldWell, Counted, IInv, TypeOK
  <2>2. /\ told[c].events = <<>>
        /\ told[c].tracked <=> rep.before \cap QueriesOf(index, c) # {}
        /\ \A q \in QueriesOf(index, c) :
             q \in rep.after <=> InRange(index.queries[q], rep.new)
    BY <1>0, <2>1 DEF TellsWell
  <2>3. rep.after \subseteq QueryIds /\ rep.before \subseteq QueryIds
    BY <1>0 DEF Handlers
  <2>4. /\ Of(rep.after, c) = Matching(c, rep.new)
        /\ Of(rep.before, c) = rep.before \cap QueriesOf(index, c)
        /\ Of(rep.before \cup rep.after, c) = Of(rep.before, c) \cup Of(rep.after, c)
    BY <2>2, <2>3 DEF Of, Matching, QueriesOf
  <2>5. Matching(c, rep.new)' = Matching(c, rep.new)
    BY <1>1 DEF Matching, QueriesOf
  <2>6. Of(rep.before \cup rep.after, c) = {} => Exact(c)'
    BY <1>1, <2>2, <2>4, <2>5 DEF Exact, Events
  <2>7. ~ Indexed'
    BY <1>1 DEF Indexed
  <2>8. /\ rep'.wasIn[c] = Of(rep.before, c) /\ rep'.isIn[c] = Of(rep.after, c)
        /\ c \in rep'.todo <=> Of(rep.before \cup rep.after, c) # {}
    BY <1>1, <2>1
  <2>9. c \in rep'.todo =>
          /\ told'[c].events = <<>>
          /\ told'[c].tracked <=> rep'.wasIn[c] # {}
          /\ rep'.isIn[c] = Matching(c, rep.new)'
          /\ rep'.wasIn[c] \subseteq QueriesOf(index, c)'
          /\ rep'.wasIn[c] \cup rep'.isIn[c] # {}
    <3>1. QueriesOf(index, c)' = QueriesOf(index, c)
      BY <1>1 DEF QueriesOf
    <3>2. told' = told
      BY <1>1
    <3> QED
      BY <2>2, <2>4, <2>5, <2>8, <3>1, <3>2
  <2>10. \A q : <<c, q>> \in rep'.refills =>
           q \in QueriesOf(index, c)' /\ ~InRange(index'.queries[q], rep'.new)
    BY <1>1, <2>1 DEF TellsWell, QueriesOf
  <2>11. c \notin rep'.todo => Exact(c)'
    BY <2>6, <2>8
  <2> QED
    BY <1>1, <2>5, <2>7, <2>9, <2>10, <2>11 DEF TellsWell
<1> QED
  BY <1>0, <1>1, <1>2 DEF ToldWell, AllUnlimited

LEMMA TellTells ==
  ASSUME IInv, Counted, ToldWell, NEW c \in Conns, Tell(c)
  PROVE  ToldWell'
<1> DEFINE was == rep.wasIn[c]  is == rep.isIn[c]
<1>0. rep \in Handlers /\ rep.pc = "tell" /\ c \in rep.todo
  BY InvParts DEF Tell
<1>1. /\ UNCHANGED <<index, registry>> /\ rep'.pc = "tell" /\ rep'.kind = rep.kind
      /\ rep'.new = rep.new
      /\ rep'.refills = rep.refills \cup ({c} \X (was \ is))
      /\ rep'.todo = rep.todo \ {c}
      /\ \A o \in Conns : o # c => rep'.wasIn[o] = rep.wasIn[o] /\ rep'.isIn[o] = rep.isIn[o]
  BY <1>0 DEF Tell, Notify, Handlers
<1>2. told' = IF c \in registry \cap DOMAIN told
                THEN [told EXCEPT ![c].events = Append(@, Kind(was, is))] ELSE told
  BY <1>0, <1>1 DEF Tell, Notify
<1>3. DOMAIN told' = DOMAIN told /\ DOMAIN told \subseteq registry /\ registry \subseteq Conns
  BY <1>2 DEF Counted, IInv, TypeOK
<1>4. ~ Indexed' /\ ~ Indexed
  BY <1>0, <1>1 DEF Indexed
<1>5. ASSUME NEW o \in DOMAIN told, rep.kind # "delete", AllUnlimited(o), o # c
      PROVE  TellsWell(o)'
  <2>1. TellsWell(o)
    BY <1>0, <1>5 DEF ToldWell
  <2>2. told'[o] = told[o]
    BY <1>2, <1>5
  <2>3. Exact(o) => Exact(o)'
    BY <1>1, <2>2 DEF Exact, Matching, QueriesOf
  <2>4. \A q : <<o, q>> \in rep'.refills => <<o, q>> \in rep.refills
    BY <1>1, <1>5
  <2>5. Matching(o, rep.new)' = Matching(o, rep.new)
    BY <1>1 DEF Matching, QueriesOf
  <2> QED
    BY <1>0, <1>1, <1>3, <1>4, <1>5, <2>1, <2>2, <2>3, <2>4, <2>5 DEF TellsWell, QueriesOf
<1>6. ASSUME c \in DOMAIN told, rep.kind # "delete", AllUnlimited(c)
      PROVE  TellsWell(c)'
  <2>1. /\ told[c].events = <<>> /\ (told[c].tracked <=> was # {})
        /\ is = Matching(c, rep.new)
        /\ was \subseteq QueriesOf(index, c) /\ was \cup is # {}
        /\ \A q : <<c, q>> \in rep.refills =>
             q \in QueriesOf(index, c) /\ ~InRange(index.queries[q], rep.new)
    BY <1>0, <1>6 DEF ToldWell, TellsWell
  <2>2. told'[c] = [told[c] EXCEPT !.events = Append(@, Kind(was, is))]
    BY <1>2, <1>3, <1>6
  <2>3. <<Kind(was, is)>> = Events(told[c].tracked, is # {})
    BY <2>1 DEF Kind, Events
  <2>4. told'[c].events = <<Kind(was, is)>> /\ told'[c].tracked = told[c].tracked
    BY <2>1, <2>2
  <2>5. Matching(c, rep.new)' = is
    BY <1>1, <2>1 DEF Matching, QueriesOf
  <2>6. Exact(c)'
    BY <2>3, <2>4, <2>5 DEF Exact
  <2>7. ASSUME NEW q, <<c, q>> \in rep'.refills
        PROVE  q \in QueriesOf(index, c) /\ ~InRange(index.queries[q], rep.new)
    <3>1. CASE <<c, q>> \in rep.refills
      BY <2>1, <3>1
    <3>2. CASE q \in was \ is
      BY <2>1, <3>2 DEF Matching
    <3> QED
      BY <1>1, <2>7, <3>1, <3>2
  <2> QED
    BY <1>1, <1>4, <2>6, <2>7 DEF TellsWell, QueriesOf
<1> QED
  BY <1>0, <1>1, <1>3, <1>5, <1>6 DEF ToldWell, AllUnlimited, QueriesOf

\* After the document index, the connections have been told what they should.
LEMMA IndexedTells ==
  ASSUME UNCHANGED index, SameChange(rep'), NEW c, Exact(c), told'[c] = told[c],
         Indexed', rep'.refills \subseteq rep.refills,
         \A q : <<c, q>> \in rep.refills =>
           q \in QueriesOf(index, c) /\ ~InRange(index.queries[q], rep.new),
         rep'.pc = "choose" /\ rep'.pair[1] = c => ~InRange(rep'.spec, rep.new),
         rep'.pc = "fill" /\ rep'.pair[1] = c => \A e \in rep'.fill : e[2] # rep.doc
  PROVE  TellsWell(c)'
<1>1. Matching(c, rep.new)' = Matching(c, rep.new)
  BY DEF Matching, QueriesOf, SameChange
<1>2. Exact(c)'
  BY <1>1 DEF Exact
<1> QED
  BY <1>2 DEF TellsWell, Indexed, SameChange, QueriesOf

LEMMA IndexDocTells ==
  ASSUME IInv, ToldWell, IndexDoc
  PROVE  ToldWell'
<1> DEFINE r == [rep EXCEPT !.pc = "refill"]
<1>0. rep \in Handlers /\ rep.pc = "tell" /\ rep.todo = {} /\ rep.kind # "delete"
  BY InvParts DEF IndexDoc, IInv, TypeOK
<1>1. rep' = Onward(r) /\ (rep'.pc # "idle" => told' = told) /\ UNCHANGED index
  BY DEF IndexDoc, Become
<1>2. /\ r \in Handlers /\ r.pc = "refill" /\ SameChange(r)
      /\ r.refills = rep.refills
  BY <1>0 DEF Handlers, SameChange
<1> HIDE DEF r
<1>3. rep' = Idle \/ rep' = r
  BY <1>0, <1>1, <1>2, OnwardCases
<1>4. ASSUME rep' = r, NEW c \in DOMAIN told, AllUnlimited(c)
      PROVE  TellsWell(c)'
  <2>1. TellsWell(c)
    BY <1>0, <1>4 DEF ToldWell
  <2>2. Exact(c)
    BY <1>0, <2>1 DEF TellsWell
  <2>3. Indexed' /\ told' = told
    BY <1>0, <1>1, <1>2, <1>4 DEF Indexed, SameChange
  <2>4. \A q : <<c, q>> \in rep.refills =>
           q \in QueriesOf(index, c) /\ ~InRange(index.queries[q], rep.new)
    BY <2>1 DEF TellsWell
  <2> QED
    BY <1>1, <1>2, <1>4, <2>2, <2>3, <2>4, IndexedTells
<1>5. CASE rep' = Idle
  BY <1>5 DEF Idle, ToldWell
<1>6. CASE rep' = r
  BY <1>0, <1>1, <1>2, <1>4, <1>6 DEF ToldWell, AllUnlimited, QueriesOf
<1> QED
  BY <1>3, <1>5, <1>6

LEMMA RefillTells ==
  ASSUME IInv, ToldWell, rep.kind # "delete", NEW p \in Conns \X QueryIds, Refill(p)
  PROVE  ToldWell'
<1> DEFINE rest == [rep EXCEPT !.refills = @ \ {p}]
           next == [rest EXCEPT !.pc = "choose", !.pair = p,
                                !.spec = index.queries[p[2]]]
<1>0. rep \in Handlers /\ rep.pc = "refill" /\ p \in rep.refills
  BY InvParts DEF Refill
<1>1. /\ rep' = next \/ rep' = Onward(rest)
      /\ rep'.pc # "idle" => told' = told
      /\ UNCHANGED index
  BY DEF Refill, Become
<1>2. /\ rest \in Handlers /\ rest.pc = "refill" /\ SameChange(rest)
      /\ rest.refills \subseteq rep.refills
  BY <1>0 DEF Handlers, SameChange
<1>3. /\ next.pc = "choose" /\ next.pair = p /\ next.spec = index.queries[p[2]]
      /\ next.refills \subseteq rep.refills /\ SameChange(next)
  BY <1>0 DEF Handlers, SameChange
<1> HIDE DEF rest, next
<1>4. rep' = Idle \/ rep' = next \/ rep' = rest
  BY <1>0, <1>1, <1>2, OnwardCases
<1>5. ASSUME rep'.pc # "idle", NEW c \in DOMAIN told, AllUnlimited(c)
      PROVE  TellsWell(c)'
  <2>1. TellsWell(c) /\ Indexed /\ told' = told
    BY <1>0, <1>1, <1>5 DEF ToldWell, Indexed
  <2>2. /\ Exact(c)
        /\ \A q : <<c, q>> \in rep.refills =>
             q \in QueriesOf(index, c) /\ ~InRange(index.queries[q], rep.new)
    BY <2>1 DEF TellsWell
  <2>3. CASE rep' = rest
    <3>1. Indexed'
      BY <1>2, <2>3 DEF Indexed, SameChange
    <3> QED
      BY <1>1, <1>2, <2>1, <2>2, <2>3, <3>1, IndexedTells
  <2>4. CASE rep' = next
    <3>1. Indexed'
      BY <1>3, <2>4 DEF Indexed, SameChange
    <3>2. p[1] = c => ~InRange(index.queries[p[2]], rep.new)
      BY <1>0, <2>2
    <3> QED
      BY <1>1, <1>3, <2>1, <2>2, <2>4, <3>1, <3>2, IndexedTells
  <2> QED
    BY <1>4, <1>5, <2>3, <2>4 DEF Idle
<1> QED
  BY <1>1, <1>5 DEF ToldWell, AllUnlimited, QueriesOf

LEMMA ChooseFillTells ==
  ASSUME IInv, TableInv, ToldWell, rep.kind # "delete", ChooseFill
  PROVE  ToldWell'
<1> DEFINE rest == [rep EXCEPT !.pc = "refill"]
<1>0. rep \in Handlers /\ rep.pc = "choose" /\ rep.doc \in Docs
  BY InvParts DEF ChooseFill, Handlers
<1>1. PICK S : /\ S \subseteq {e \in docIndex : InRange(rep.spec, e[1])}
               /\ rep' = Onward(rest) \/ rep' = [rep EXCEPT !.pc = "fill", !.fill = S]
               /\ rep'.pc # "idle" => told' = told
               /\ UNCHANGED index
  <2>1. PICK rows \in Visits(rep.spec) :
          LET current == DocumentsForQuery(store, rep.pair[1], rep.pair[2])
              fill    == IterRange(rows, current,
                                   rep.spec.limit - Cardinality(current))
          IN  rep' = IF fill = {} THEN Onward([rep EXCEPT !.pc = "refill"])
                     ELSE [rep EXCEPT !.pc = "fill", !.fill = fill]
    BY DEF ChooseFill, Become
  <2>2. rows \subseteq {e \in docIndex : InRange(rep.spec, e[1])}
    BY DEF Visits
  <2>3. \A Q, n : IterRange(rows, Q, n) \subseteq rows
    BY DEF IterRange
  <2>4. (rep'.pc # "idle" => told' = told) /\ UNCHANGED index
    BY DEF ChooseFill, Become
  <2> QED
    BY <2>1, <2>2, <2>3, <2>4
<1> DEFINE next == [rep EXCEPT !.pc = "fill", !.fill = S]
<1>2. /\ rest \in Handlers /\ rest.pc = "refill" /\ SameChange(rest)
      /\ rest.refills = rep.refills
  BY <1>0 DEF Handlers, SameChange
<1>3. /\ next.pc = "fill" /\ next.fill = S /\ next.pair = rep.pair
      /\ next.refills = rep.refills /\ SameChange(next)
  BY <1>0 DEF Handlers, SameChange
<1>4. rep' = Onward(rest) \/ rep' = next
  BY <1>1
<1> HIDE DEF rest, next
<1>5. rep' = Idle \/ rep' = next \/ rep' = rest
  BY <1>2, <1>4, OnwardCases
<1>6. Indexed
  BY <1>0 DEF Indexed
<1>7. RowsOf(docIndex, rep.doc) = Row(rep.doc, rep.new)
  BY <1>0, <1>6 DEF TableInv, IndexTracks
<1>8. ASSUME ~InRange(rep.spec, rep.new), NEW e \in S
      PROVE  e[2] # rep.doc
  <2>1. e \in docIndex /\ InRange(rep.spec, e[1])
    BY <1>1
  <2>2. ASSUME e[2] = rep.doc
        PROVE  FALSE
    <3>1. e \in Row(rep.doc, rep.new)
      BY <1>7, <2>1, <2>2 DEF RowsOf
    <3>2. e[1] = rep.new
      BY <3>1 DEF Row
    <3> QED
      BY <1>8, <2>1, <3>2
  <2> QED
    BY <2>2
<1>9. ASSUME rep'.pc # "idle", NEW c \in DOMAIN told, AllUnlimited(c)
      PROVE  TellsWell(c)'
  <2>1. TellsWell(c) /\ told' = told
    BY <1>0, <1>1, <1>9 DEF ToldWell
  <2>2. /\ Exact(c)
        /\ \A q : <<c, q>> \in rep.refills =>
             q \in QueriesOf(index, c) /\ ~InRange(index.queries[q], rep.new)
        /\ rep.pair[1] = c => ~InRange(rep.spec, rep.new)
    BY <1>0, <1>6, <2>1 DEF TellsWell
  <2>3. CASE rep' = rest
    <3>1. Indexed'
      BY <1>2, <2>3 DEF Indexed, SameChange
    <3> QED
      BY <1>1, <1>2, <2>1, <2>2, <2>3, <3>1, IndexedTells
  <2>4. CASE rep' = next
    <3>1. Indexed'
      BY <1>3, <2>4 DEF Indexed, SameChange
    <3>2. rep.pair[1] = c => \A e \in S : e[2] # rep.doc
      BY <1>8, <2>2
    <3> QED
      BY <1>1, <1>3, <2>1, <2>2, <2>4, <3>1, <3>2, IndexedTells
  <2> QED
    BY <1>5, <1>9, <2>3, <2>4 DEF Idle
<1> QED
  BY <1>1, <1>9 DEF ToldWell, AllUnlimited, QueriesOf

LEMMA FillTells ==
  ASSUME IInv, ToldWell, rep.kind # "delete", Fill
  PROVE  ToldWell'
<1>0. rep \in Handlers /\ rep.pc = "fill" /\ Indexed
  BY InvParts DEF Fill, Indexed
<1>1. PICK e \in rep.fill :
        LET rest == [rep EXCEPT !.fill = @ \ {e}]
        IN  /\ Notify(IF rest.fill = {} THEN Onward([rest EXCEPT !.pc = "refill"])
                      ELSE rest, rep.pair[1], e[2], "added")
            /\ UNCHANGED index
  BY DEF Fill
<1> DEFINE rest == [rep EXCEPT !.fill = @ \ {e}]
           done == [rest EXCEPT !.pc = "refill"]
<1>2. /\ done \in Handlers /\ done.pc = "refill" /\ SameChange(done)
      /\ done.refills = rep.refills
  BY <1>0 DEF Handlers, SameChange
<1>3. /\ rest.pc = "fill" /\ SameChange(rest) /\ rest.refills = rep.refills
      /\ rest.fill \subseteq rep.fill /\ rest.pair = rep.pair
  BY <1>0 DEF Handlers, SameChange
<1>4. /\ rep' = rest \/ rep' = Onward(done)
      /\ rep'.pc # "idle" => told' = IF rep.pair[1] \in registry \cap DOMAIN told
                                       /\ e[2] = rep.doc
                                     THEN [told EXCEPT ![rep.pair[1]].events =
                                             Append(@, "added")]
                                     ELSE told
      /\ UNCHANGED index
  BY <1>1 DEF Notify
<1> HIDE DEF rest, done
<1>5. rep' = rest \/ rep' = Idle \/ rep' = done
  BY <1>2, <1>4, OnwardCases
<1>6. rep'.pc # "idle" => DOMAIN told' = DOMAIN told
  BY <1>4
<1>7. ASSUME rep'.pc # "idle", NEW c \in DOMAIN told, AllUnlimited(c)
      PROVE  TellsWell(c)'
  <2>1. TellsWell(c)
    BY <1>0, <1>7 DEF ToldWell
  <2>2. /\ Exact(c)
        /\ \A q : <<c, q>> \in rep.refills =>
             q \in QueriesOf(index, c) /\ ~InRange(index.queries[q], rep.new)
        /\ rep.pair[1] = c => \A f \in rep.fill : f[2] # rep.doc
    BY <1>0, <2>1 DEF TellsWell
  <2>3. told'[c] = told[c]
    BY <1>4, <1>7, <2>2
  <2>4. CASE rep' = rest
    <3>1. Indexed'
      BY <1>0, <1>3, <2>4 DEF Indexed, SameChange
    <3> QED
      BY <1>3, <1>4, <2>2, <2>3, <2>4, <3>1, IndexedTells
  <2>5. CASE rep' = done
    <3>1. Indexed'
      BY <1>2, <2>5 DEF Indexed, SameChange
    <3> QED
      BY <1>2, <1>4, <2>2, <2>3, <2>5, <3>1, IndexedTells
  <2> QED
    BY <1>5, <1>7, <2>4, <2>5 DEF Idle
<1> QED
  BY <1>4, <1>6, <1>7 DEF ToldWell, AllUnlimited, QueriesOf

LEMMA ToldWellStep ==
  ASSUME IInv, TableInv, Counted, ToldWell, [Next]_vars
  PROVE  ToldWell'
<1>1. CASE TakeChange \/ TakeDelete
  BY <1>1, TakeTells
<1>2. CASE \E c \in Conns : Connection(c)
  BY <1>2, ConnectionTells
<1>3. CASE UNCHANGED <<index, rep, told>>
  <2>1. /\ \A c : AllUnlimited(c)' <=> AllUnlimited(c)
        /\ \A c : TellsWell(c)' <=> TellsWell(c)
    BY <1>3 DEF AllUnlimited, TellsWell, QueriesOf, Exact, Matching, Indexed
  <2> QED
    BY <1>3, <2>1 DEF ToldWell
<1>4. CASE Replication /\ ~TakeChange /\ ~TakeDelete /\ rep.kind = "delete"
  <2>1. ~IndexDoc /\ (UnindexDoc => rep'.pc = "idle")
    BY <1>4 DEF IndexDoc, UnindexDoc, Become, Idle, IInv, TypeOK
  <2>2. rep'.pc = "idle" \/ rep'.kind = "delete"
    BY <1>4, <2>1, HandlerFrame DEF SameChange, IInv
  <2> QED
    BY <2>2 DEF ToldWell
<1>5. CASE Replication /\ ~TakeChange /\ ~TakeDelete /\ rep.kind # "delete"
  <2>1. /\ \A c \in Conns : ~Drop(c)
        /\ \A q \in QueryIds : ~DropQuery(q)
        /\ ~UnindexDoc
    BY <1>5 DEF Drop, DropQuery, UnindexDoc, IInv, TypeOK
  <2> QED
    BY <1>5, <2>1, ReadConnsTells, TellTells, IndexDocTells, RefillTells,
       ChooseFillTells, FillTells DEF Replication
<1> QED
  BY <1>1, <1>2, <1>3, <1>4, <1>5 DEF Next, vars, Insert, Update, Delete, Change

\* The inductive invariant of the notifications.
NotifyInv == IInv /\ TableInv /\ Counted /\ ToldWell

LEMMA NotifyInvariance == Spec => []NotifyInv
<1>1. Init => NotifyInv
  BY InvInit, TableInit DEF Init, NotifyInv, Counted, ToldWell, Idle
<1>2. NotifyInv /\ [Next]_vars => NotifyInv'
  BY InvNext, LogStep, IndexTracksStep, CountedStep, ToldWellStep
     DEF NotifyInv, TableInv, IInv
<1> QED
  BY <1>1, <1>2, PTL DEF Spec

\* Once an insert or an update has been handled, a connection whose
\* subscriptions, all without a limit, have not changed meanwhile was sent the
\* one event that follows from the queries that tracked the document before and
\* those that match it now, refills included, and no other
\* (replication.rs:245-270, :436-501).  Of a document that came with a snapshot
\* the index knows nothing before it changes: see DeleteIsTold.
THEOREM UpdatesAreTold == Spec => UpdateIsTold
<1> DEFINE Told == (rep.kind \in {"insert", "update"} /\ rep'.pc = "idle") =>
                     \A c \in DOMAIN told : AllUnlimited(c) =>
                       Sent(c) = Events(told[c].tracked, Matching(c, rep.new) # {})
<1>1. NotifyInv /\ [Next]_vars => Told
  <2> SUFFICES ASSUME NotifyInv, [Next]_vars, rep.kind \in {"insert", "update"},
                      rep'.pc = "idle", NEW c \in DOMAIN told, AllUnlimited(c)
               PROVE  Sent(c) = Events(told[c].tracked, Matching(c, rep.new) # {})
    OBVIOUS
  <2>1. rep.pc # "idle"
    BY DEF NotifyInv, Counted
  <2>2. TellsWell(c)
    BY <2>1 DEF NotifyInv, ToldWell
  <2>3. Replication
    <3>1. \A p \in Conns : Connection(p) => rep' = rep
      BY DEF Connection, Connect, Subscribe, Snapshot, SnapshotFails, ApplyRow,
             Unsubscribe, Unregister, LeaveQueries, ClearStorage
    <3> QED
      BY <2>1, <3>1 DEF Next, vars, Insert, Update, Delete, Change
  <2>4. ~TakeChange /\ ~TakeDelete /\ ~UnindexDoc
    BY <2>1 DEF TakeChange, TakeDelete, Take, UnindexDoc, NotifyInv, IInv, TypeOK
  <2>5. IndexDoc \/ Indexed
    BY <2>3, <2>4, HandlerFrame DEF NotifyInv, IInv
  <2>6. Exact(c)
    BY <2>2, <2>5 DEF TellsWell, IndexDoc
  <2>7. Sent(c) = told[c].events
    <3>1. rep.pc = "fill" /\ rep.pair[1] = c => \A e \in rep.fill : e[2] # rep.doc
      BY <2>2 DEF TellsWell
    <3>2. Sent(c) = told[c].events \o <<>>
      BY <3>1 DEF Sent
    <3>3. told[c].events \in Seq({"added", "updated", "removed"})
      BY <2>6 DEF Exact, Events
    <3> QED
      BY <3>2, <3>3
  <2> QED
    BY <2>6, <2>7 DEF Exact
<1>2. Spec => [][Told]_vars
  <2>1. NotifyInv /\ [Next]_vars => [Told]_vars
    BY <1>1
  <2> QED
    BY <2>1, NotifyInvariance, PTL DEF Spec
<1> QED
  BY <1>2 DEF UpdateIsTold

=============================================================================
