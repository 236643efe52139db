------------------------ MODULE SqlTransactionProofs ------------------------
(***************************************************************************)
(* Proofs about SqlTransaction under the Premises below.  SqlInv is        *)
(* inductive; it implies that the client and the server agree on the       *)
(* brackets, and with it every step of a method is one of                  *)
(* NestedTransaction, or CommitUnanswered.                                 *)
(***************************************************************************)
EXTENDS SqlTransaction, SequenceTheorems, TLAPS

(* It is not MySQL that loses its connection, where mysqlQuery repeats a   *)
(* statement on a new session; and exec does not throw behind a statement  *)
(* that opened or closed a bracket, so that only the server knows of it.   *)
Premises ==
  /\ "MySQL" \notin Lossy
  /\ ThrowsAfter \subseteq {"INSERT", "COMMIT", "ROLLBACK", "SAVEPOINT"}

IsLatest(s, n, i) == i \in Named(s, n) /\ \A j \in Named(s, n) : j <= i

(* The savepoints LEVEL1, ..., LEVEL<d-1> are there, the newest of each    *)
(* name in this order.                                                     *)
Chained(s, d) ==
  /\ \A n \in 1..d - 1 : IsLatest(s, n, Latest(s, n))
  /\ \A m, n \in 1..d - 1 : m < n => Latest(s, m) < Latest(s, n)

(* A later savepoint has the rows of an earlier one, and the transaction   *)
(* has those of all.                                                       *)
Growing(s) ==
  /\ \A i, j \in DOMAIN s.saves : i <= j => s.saves[i].work \subseteq s.saves[j].work
  /\ \A i \in DOMAIN s.saves : s.saves[i].work \subseteq s.work

Distinct(s) == \A i, j \in DOMAIN s.saves : s.saves[i].level = s.saves[j].level => i = j

Sessions ==
  [inTx : BOOLEAN, aborted : BOOLEAN, work : SUBSET Rows, saves : Seq(Savepoints)]

(* A session of which the client counts d brackets.                        *)
SessionOK(s, d) ==
  /\ s \in Sessions
  /\ ~s.inTx => s = Fresh
  /\ s.inTx => d > 0 /\ Chained(s, d)
  /\ Growing(s)
  /\ dialect = "MySQL" => Distinct(s)

(* The client's side of the connection.                                    *)
ClientOK ==
  /\ ~connected => ~up
  /\ ~up => session = Fresh
  /\ connected /\ ~up => dialect = "PostgreSQL"
  /\ failed => transactiondepth > 0
  /\ transactiondepth > 0 /\ ~failed => connected
  /\ up /\ ~failed => (transactiondepth > 0 <=> session.inTx) /\ ~session.aborted

SqlInv ==
  /\ dialect \in Dialects /\ connected \in BOOLEAN /\ failed \in BOOLEAN /\ up \in BOOLEAN
  /\ transactiondepth \in 0..MaxDepth
  /\ stored \subseteq Rows
  /\ SessionOK(session, transactiondepth)
  /\ ClientOK

-----------------------------------------------------------------------------
(* Savepoints.                                                             *)

LEMMA LatestIs ==
  ASSUME NEW s, NEW n, NEW i, s.saves \in Seq(Savepoints), IsLatest(s, n, i)
  PROVE  Latest(s, n) = i /\ i \in DOMAIN s.saves /\ s.saves[i].level = n
<1>1. \A j \in Named(s, n) : j \in Nat
  BY DEF Named
<1>2. QED
  BY <1>1 DEF IsLatest, Latest, Named

(* A session whose savepoints are those of s up to k.                      *)
LEMMA CutSaves ==
  ASSUME NEW s \in Sessions, NEW d \in Nat, d > 1, Chained(s, d), Growing(s),
         NEW k \in {Latest(s, d - 1), Latest(s, d - 1) - 1},
         NEW s2, s2.saves = SubSeq(s.saves, 1, k)
  PROVE  /\ Latest(s, d - 1) \in DOMAIN s.saves
         /\ s2.saves \in Seq(Savepoints)
         /\ DOMAIN s2.saves = 1..k /\ DOMAIN s2.saves \subseteq DOMAIN s.saves
         /\ \A i \in DOMAIN s2.saves : s2.saves[i] = s.saves[i]
         /\ Distinct(s) => Distinct(s2)
         /\ Chained(s2, d - 1)
         /\ \A n \in 1..d - 2 : /\ Latest(s2, n) = Latest(s, n)
                                /\ Latest(s2, n) \in DOMAIN s2.saves
                                /\ s2.saves[Latest(s2, n)] = s.saves[Latest(s, n)]
<1>1. s.saves \in Seq(Savepoints) /\ Len(s.saves) \in Nat /\ DOMAIN s.saves = 1..Len(s.saves)
  BY DEF Sessions
<1>2. \A n \in 1..d - 1 : IsLatest(s, n, Latest(s, n)) /\ Latest(s, n) \in 1..Len(s.saves)
  BY <1>1 DEF Chained, IsLatest, Named
<1>3. k \in 0..Len(s.saves)
  <2>1. d - 1 \in 1..d - 1
    OBVIOUS
  <2>2. QED
    BY <1>1, <1>2, <2>1
<1>4. /\ s2.saves \in Seq(Savepoints) /\ DOMAIN s2.saves = 1..k
      /\ \A i \in 1..k : s2.saves[i] = s.saves[i]
  <2>1. \A i \in 1..k : s.saves[i] \in Savepoints
    BY <1>1, <1>3
  <2>2. k \in Int /\ 1 \in Int
    BY <1>3
  <2>3. /\ s2.saves \in Seq(Savepoints)
        /\ Len(s2.saves) = IF 1 <= k THEN k - 1 + 1 ELSE 0
        /\ \A i \in 1..k - 1 + 1 : s2.saves[i] = s.saves[1 + i - 1]
    BY <2>1, <2>2, SubSeqProperties
  <2>4. QED
    BY <1>3, <2>3
<1>11. \A i \in DOMAIN s2.saves : i \in DOMAIN s.saves /\ s2.saves[i] = s.saves[i]
  BY <1>1, <1>3, <1>4
<1>5. ASSUME NEW n \in 1..d - 2
      PROVE  IsLatest(s2, n, Latest(s, n)) /\ Latest(s, n) \in 1..k
  <2>1. n \in 1..d - 1 /\ d - 1 \in 1..d - 1 /\ n < d - 1
    OBVIOUS
  <2>2. Latest(s, n) < Latest(s, d - 1)
    BY <2>1 DEF Chained
  <2>3. Latest(s, n) \in 1..k
    BY <1>2, <2>1, <2>2
  <2>4. IsLatest(s, n, Latest(s, n)) /\ Latest(s, n) \in DOMAIN s2.saves
    BY <1>2, <1>4, <2>1, <2>3
  <2>5. Named(s2, n) \subseteq Named(s, n) /\ Latest(s, n) \in Named(s2, n)
    BY <1>11, <2>4 DEF IsLatest, Named
  <2>6. QED
    BY <2>3, <2>4, <2>5 DEF IsLatest
<1>6. \A n \in 1..d - 2 : Latest(s2, n) = Latest(s, n)
  BY <1>4, <1>5, LatestIs
<1>7. Chained(s2, d - 1)
  <2>1. (d - 1) - 1 = d - 2 /\ \A n \in 1..d - 2 : n \in 1..d - 1
    OBVIOUS
  <2>2. QED
    BY <2>1, <1>5, <1>6 DEF Chained
<1>8. Distinct(s) => Distinct(s2)
  BY <1>11 DEF Distinct
<1>9. Latest(s, d - 1) \in DOMAIN s.saves
  BY <1>1, <1>2
<1>10. QED
  BY <1>1, <1>3, <1>4, <1>5, <1>6, <1>7, <1>8, <1>9

(* A session whose savepoints are those of s with the one of level d taken *)
(* out, if it has one, and it is the only one.                             *)
LEMMA TakenOut ==
  ASSUME NEW q \in Seq(Savepoints), NEW x \in DOMAIN q
  PROVE  LET r == SubSeq(q, 1, x - 1) \o SubSeq(q, x + 1, Len(q)) IN
         /\ r \in Seq(Savepoints) /\ DOMAIN r = 1..Len(q) - 1 /\ Len(r) = Len(q) - 1
         /\ \A i \in 1..Len(q) - 1 : r[i] = IF i < x THEN q[i] ELSE q[i + 1]
<1> DEFINE a == SubSeq(q, 1, x - 1)
           b == SubSeq(q, x + 1, Len(q))
           r == a \o b
<1>1. Len(q) \in Nat /\ x \in 1..Len(q) /\ \A i \in 1..Len(q) : q[i] \in Savepoints
  OBVIOUS
<1>2. a \in Seq(Savepoints) /\ Len(a) = x - 1 /\ \A i \in 1..x - 1 : a[i] = q[i]
  BY <1>1, SubSeqProperties
<1>3. /\ b \in Seq(Savepoints) /\ Len(b) = Len(q) - x
      /\ \A i \in 1..Len(q) - x : b[i] = q[i + x]
  BY <1>1, SubSeqProperties
<1> HIDE DEF a, b
<1>4. /\ r \in Seq(Savepoints) /\ Len(r) = Len(q) - 1
      /\ \A i \in 1..Len(q) - 1 : r[i] = IF i <= x - 1 THEN a[i] ELSE b[i - (x - 1)]
  <2>1. /\ r \in Seq(Savepoints) /\ Len(r) = Len(a) + Len(b)
        /\ \A i \in 1..Len(a) + Len(b) : r[i] = IF i <= Len(a) THEN a[i] ELSE b[i - Len(a)]
    BY <1>2, <1>3, ConcatProperties
  <2>2. Len(a) + Len(b) = Len(q) - 1
    BY <1>1, <1>2, <1>3
  <2>3. QED
    BY <1>2, <2>1, <2>2
<1>5. ASSUME NEW i \in 1..Len(q) - 1
      PROVE  r[i] = IF i < x THEN q[i] ELSE q[i + 1]
  <2>1. CASE i < x
    BY <1>1, <1>2, <1>4, <2>1
  <2>2. CASE ~(i < x)
    <3>1. i - (x - 1) \in 1..Len(q) - x /\ (i - (x - 1)) + x = i + 1 /\ ~(i <= x - 1)
      BY <1>1, <2>2
    <3>2. QED
      BY <1>3, <1>4, <2>2, <3>1
  <2>3. QED
    BY <2>1, <2>2
<1>6. r \in Seq(Savepoints) /\ DOMAIN r = 1..Len(q) - 1
  BY <1>1, <1>4
<1>7. QED
  BY <1>4, <1>5, <1>6 DEF a, b

(* A session in which LEVEL<d> has been set at the end of the savepoints.  *)
LEMMA SetSavepoint ==
  ASSUME NEW s \in Sessions, NEW d \in 1..MaxDepth, MaxDepth \in Nat, Chained(s, d), Growing(s),
         dialect = "MySQL" => Distinct(s),
         NEW s2, s2.saves = NewSavepoint(s, d), s2.work = s.work
  PROVE  /\ s2.saves \in Seq(Savepoints)
         /\ Growing(s2)
         /\ dialect = "MySQL" => Distinct(s2)
         /\ Chained(s2, d + 1)
         /\ \A n \in 1..d - 1 : s2.saves[Latest(s2, n)].work = s.saves[Latest(s, n)].work
         /\ s2.saves[Latest(s2, d)].work = s.work
<1> DEFINE x == Latest(s, d)
           new == [level |-> d, work |-> s.work]
           takes == dialect = "MySQL" /\ Named(s, d) # {}
           kept == IF takes THEN SubSeq(s.saves, 1, x - 1) \o SubSeq(s.saves, x + 1, Len(s.saves))
                            ELSE s.saves
           N == Len(s.saves)
           K == Len(kept)
           Old(i) == IF takes /\ i >= x THEN i + 1 ELSE i
           New(j) == IF takes /\ j > x THEN j - 1 ELSE j
<1>1. /\ s.saves \in Seq(Savepoints) /\ N \in Nat /\ DOMAIN s.saves = 1..N
      /\ s.work \subseteq Rows /\ new \in Savepoints
  BY DEF Sessions, Savepoints
<1>2. takes => x \in 1..N /\ \A i \in 1..N : s.saves[i].level = d <=> i = x
  <2>1. SUFFICES ASSUME takes
                 PROVE  x \in 1..N /\ \A i \in 1..N : s.saves[i].level = d <=> i = x
    OBVIOUS
  <2>2. PICK y \in Named(s, d) : TRUE
    BY <2>1
  <2>3. \A i \in Named(s, d) : i = y
    BY <2>1, <2>2 DEF Distinct, Named
  <2>4. y \in 1..N
    BY <1>1, <2>2 DEF Named
  <2>5. IsLatest(s, d, y)
    BY <2>2, <2>3, <2>4 DEF IsLatest
  <2>6. x = y
    BY <1>1, <2>5, LatestIs
  <2>7. QED
    BY <1>1, <2>3, <2>4, <2>6 DEF Named
(* The old place of each savepoint that is kept, and the new one.          *)
<1>3. /\ kept \in Seq(Savepoints) /\ K \in Nat /\ DOMAIN kept = 1..K
      /\ K = IF takes THEN N - 1 ELSE N
      /\ \A i \in 1..K : kept[i] = s.saves[Old(i)]
  <2>1. CASE takes
    <3>1. /\ kept \in Seq(Savepoints) /\ DOMAIN kept = 1..N - 1 /\ K = N - 1
          /\ \A i \in 1..N - 1 : kept[i] = IF i < x THEN s.saves[i] ELSE s.saves[i + 1]
      BY <1>1, <1>2, <2>1, TakenOut
    <3> HIDE DEF kept, K, x, N, takes
    <3>2. ASSUME NEW i \in 1..N - 1
          PROVE  kept[i] = s.saves[Old(i)]
      BY <1>1, <1>2, <2>1, <3>1
    <3>3. N - 1 \in Nat
      BY <1>1, <1>2, <2>1
    <3>4. QED
      BY <2>1, <3>1, <3>2, <3>3
  <2>2. CASE ~takes
    BY <1>1, <2>2
  <2>3. QED
    BY <2>1, <2>2
<1> HIDE DEF new, x, N, takes
<1>20. /\ K \in Nat /\ N \in Nat /\ (takes => x \in 1..N /\ K = N - 1) /\ (~takes => K = N)
       /\ takes => \A i \in 1..N : s.saves[i].level = d <=> i = x
  BY <1>1, <1>2, <1>3
<1> HIDE DEF K
<1>4. ASSUME NEW i \in 1..K
      PROVE  /\ Old(i) \in 1..N /\ New(Old(i)) = i
             /\ takes => s.saves[Old(i)].level # d
  <2>1. CASE takes
    <3>1. Old(i) \in 1..N /\ Old(i) # x /\ New(Old(i)) = i
      BY <1>20, <2>1
    <3>2. QED
      BY <1>20, <2>1, <3>1
  <2>2. CASE ~takes
    BY <1>20, <2>2
  <2>3. QED
    BY <2>1, <2>2
<1>5. ASSUME NEW j \in 1..N, ~takes \/ j # x
      PROVE  New(j) \in 1..K /\ Old(New(j)) = j
  <2>1. CASE takes
    BY <1>20, <1>5, <2>1
  <2>2. CASE ~takes
    BY <1>20, <2>2
  <2>3. QED
    BY <2>1, <2>2
<1>6. ASSUME NEW i \in 1..K, NEW j \in 1..K
      PROVE  i <= j <=> Old(i) <= Old(j)
  BY <1>20
<1>7. s2.saves = Append(kept, new)
  BY DEF NewSavepoint, new, x, takes
<1> HIDE DEF kept, K, Old, New
<1>8. /\ s2.saves \in Seq(Savepoints) /\ DOMAIN s2.saves = 1..K + 1 /\ K \in Nat
      /\ s2.saves[K + 1] = new
      /\ \A i \in 1..K : s2.saves[i] = s.saves[Old(i)]
  BY <1>1, <1>3, <1>7, AppendProperties DEF K
<1>9. Growing(s2)
  <2>1. new.work = s.work /\ \A i \in 1..K : s2.saves[i].work \subseteq s.work
    BY <1>1, <1>4, <1>8 DEF Growing, new
  <2>2. ASSUME NEW i \in 1..K + 1, NEW j \in 1..K + 1, i <= j
        PROVE  s2.saves[i].work \subseteq s2.saves[j].work
    <3>1. CASE j = K + 1
      <4>1. i \in 1..K \/ i = K + 1
        BY <1>8
      <4>2. QED
        BY <1>8, <2>1, <3>1, <4>1
    <3>2. CASE j # K + 1
      <4>1. i \in 1..K /\ j \in 1..K
        BY <1>8, <2>2, <3>2
      <4>2. Old(i) \in 1..N /\ Old(j) \in 1..N /\ Old(i) <= Old(j)
        BY <1>4, <1>6, <2>2, <4>1
      <4>3. QED
        BY <1>1, <1>8, <4>1, <4>2 DEF Growing
    <3>3. QED
      BY <3>1, <3>2
  <2>3. \A i \in 1..K + 1 : s2.saves[i].work \subseteq s2.work
    <3>1. \A i \in 1..K + 1 : i \in 1..K \/ i = K + 1
      BY <1>8
    <3>2. QED
      BY <1>8, <2>1, <3>1
  <2>4. QED
    BY <1>8, <2>2, <2>3 DEF Growing
<1>10. dialect = "MySQL" => Distinct(s2)
  <2> SUFFICES ASSUME dialect = "MySQL",
                      NEW i \in 1..K + 1, NEW j \in 1..K + 1, s2.saves[i].level = s2.saves[j].level
               PROVE  i = j
    BY <1>8 DEF Distinct
  <2>1. \A k \in 1..K : s2.saves[k].level # d
    BY <1>1, <1>4, <1>8 DEF takes, Named
  <2>2. s2.saves[K + 1].level = d
    BY <1>8 DEF new
  <2>3. \A k \in 1..K + 1 : k \in 1..K \/ k = K + 1
    BY <1>8
  <2>4. CASE i \in 1..K /\ j \in 1..K
    <3>1. Old(i) = Old(j)
      BY <1>1, <1>4, <1>8, <2>4 DEF Distinct
    <3>2. QED
      BY <1>4, <2>4, <3>1
  <2>5. QED
    BY <2>1, <2>2, <2>3, <2>4
<1>11. IsLatest(s2, d, K + 1)
  BY <1>8 DEF IsLatest, Named, new
<1>12. Latest(s2, d) = K + 1
  BY <1>8, <1>11, LatestIs
<1>13. ASSUME NEW n \in 1..d - 1
       PROVE  /\ IsLatest(s2, n, New(Latest(s, n))) /\ Latest(s, n) \in 1..N
              /\ New(Latest(s, n)) \in 1..K /\ Old(New(Latest(s, n))) = Latest(s, n)
  <2>1. IsLatest(s, n, Latest(s, n))
    BY DEF Chained
  <2>2. Latest(s, n) \in 1..N /\ s.saves[Latest(s, n)].level = n /\ n # d
    BY <1>1, <2>1 DEF IsLatest, Named
  <2>3. New(Latest(s, n)) \in 1..K /\ Old(New(Latest(s, n))) = Latest(s, n)
    BY <1>2, <1>5, <2>2
  <2>4. New(Latest(s, n)) \in Named(s2, n)
    BY <1>8, <2>2, <2>3 DEF Named
  <2>5. ASSUME NEW j \in Named(s2, n)
        PROVE  j <= New(Latest(s, n))
    <3>1. j \in 1..K /\ s.saves[Old(j)].level = n
      BY <1>8, <2>2 DEF Named, new
    <3>2. Old(j) \in Named(s, n)
      BY <1>1, <1>4, <3>1 DEF Named
    <3>3. Old(j) <= Latest(s, n)
      BY <2>1, <3>2 DEF IsLatest
    <3>4. QED
      BY <1>6, <2>3, <3>1, <3>3
  <2>6. QED
    BY <2>2, <2>3, <2>4, <2>5 DEF IsLatest
<1>14. \A n \in 1..d - 1 : Latest(s2, n) = New(Latest(s, n))
  BY <1>8, <1>13, LatestIs
<1>15. Chained(s2, d + 1)
  <2>1. ASSUME NEW n \in 1..(d + 1) - 1
        PROVE  IsLatest(s2, n, Latest(s2, n)) /\ (n # d => n \in 1..d - 1)
    BY <1>11, <1>12, <1>13, <1>14
  <2>2. ASSUME NEW m \in 1..(d + 1) - 1, NEW n \in 1..(d + 1) - 1, m < n
        PROVE  Latest(s2, m) < Latest(s2, n)
    <3>1. m \in 1..d - 1 /\ Latest(s2, m) \in 1..K
      BY <2>2, <1>13, <1>14
    <3>2. CASE n = d
      BY <3>1, <3>2, <1>8, <1>12
    <3>3. CASE n # d
      <4>1. n \in 1..d - 1 /\ Latest(s2, n) \in 1..K
        BY <2>1, <3>3, <1>13, <1>14
      <4>2. Latest(s, m) < Latest(s, n)
        BY <2>2, <3>1, <4>1 DEF Chained
      <4>3. ~(Latest(s2, n) <= Latest(s2, m))
        BY <3>1, <4>1, <4>2, <1>1, <1>6, <1>13, <1>14
      <4>4. QED
        BY <3>1, <4>1, <4>3
    <3>4. QED
      BY <3>2, <3>3
  <2>3. QED
    BY <2>1, <2>2 DEF Chained
<1>16. \A n \in 1..d - 1 : s2.saves[Latest(s2, n)].work = s.saves[Latest(s, n)].work
  BY <1>8, <1>13, <1>14
<1>17. s2.saves[Latest(s2, d)].work = s.work
  BY <1>8, <1>12 DEF new
<1>18. QED
  BY <1>8, <1>9, <1>10, <1>15, <1>16, <1>17

-----------------------------------------------------------------------------
(* What was written in each of d brackets of session s.                    *)

BaseOf(s, n) ==
  IF n = 1 \/ Named(s, n - 1) = {} THEN {} ELSE s.saves[Latest(s, n - 1)].work

LevelsOf(s, d) == [i \in 1..d |-> (IF i = d THEN s.work ELSE BaseOf(s, i + 1)) \ BaseOf(s, i)]

LEMMA LevelsAre == Levels = LevelsOf(session, transactiondepth)
BY DEF Levels, LevelsOf, Base, BaseOf

LEMMA LevelsSeq ==
  ASSUME NEW d \in Nat, NEW s, SessionOK(s, d)
  PROVE  /\ LevelsOf(s, d) \in Seq(SUBSET Rows) /\ Len(LevelsOf(s, d)) = d
         /\ DOMAIN LevelsOf(s, d) = 1..d
<1>1. s \in Sessions /\ s.work \subseteq Rows /\ s.saves \in Seq(Savepoints)
  BY DEF SessionOK, Sessions
<1>2. ASSUME NEW i \in 1..d, i # d
      PROVE  BaseOf(s, i + 1) \subseteq Rows
  <2>1. CASE Named(s, i) = {}
    BY <2>1 DEF BaseOf
  <2>2. CASE Named(s, i) # {}
    <3>1. s # Fresh
      BY <2>2 DEF Named, Fresh
    <3>2. IsLatest(s, i, Latest(s, i))
      BY <1>2, <3>1 DEF SessionOK, Chained
    <3>3. s.saves[Latest(s, i)] \in Savepoints
      BY <1>1, <3>2 DEF IsLatest, Named
    <3>4. QED
      BY <2>2, <3>3 DEF BaseOf, Savepoints
  <2>3. QED
    BY <2>1, <2>2
<1>3. \A i \in 1..d : (IF i = d THEN s.work ELSE BaseOf(s, i + 1)) \ BaseOf(s, i) \in SUBSET Rows
  BY <1>1, <1>2
<1>4. QED
  BY <1>3 DEF LevelsOf

(* The rows before each bracket, in a session that is in a transaction.    *)
LEMMA BaseIs ==
  ASSUME NEW s, NEW d \in Nat, s.saves \in Seq(Savepoints), Chained(s, d), Growing(s),
         NEW n \in 1..d
  PROVE  /\ n = 1 => BaseOf(s, n) = {}
         /\ n > 1 => BaseOf(s, n) = s.saves[Latest(s, n - 1)].work
         /\ BaseOf(s, n) \subseteq s.work
         /\ \A m \in 1..n : BaseOf(s, m) \subseteq BaseOf(s, n)
<1>1. ASSUME NEW m \in 1..d, m > 1
      PROVE  /\ m - 1 \in 1..d - 1 /\ Latest(s, m - 1) \in DOMAIN s.saves
             /\ BaseOf(s, m) = s.saves[Latest(s, m - 1)].work
  <2>1. m - 1 \in 1..d - 1
    BY <1>1
  <2>2. IsLatest(s, m - 1, Latest(s, m - 1))
    BY <2>1 DEF Chained
  <2>3. QED
    BY <1>1, <2>1, <2>2 DEF IsLatest, Named, BaseOf
<1>2. BaseOf(s, 1) = {}
  BY DEF BaseOf
<1>3. BaseOf(s, n) \subseteq s.work
  <2>1. CASE n = 1
    BY <2>1, <1>2
  <2>2. CASE n > 1
    <3>1. Latest(s, n - 1) \in DOMAIN s.saves /\ BaseOf(s, n) = s.saves[Latest(s, n - 1)].work
      BY <2>2, <1>1
    <3>2. QED
      BY <3>1 DEF Growing
  <2>3. QED
    BY <2>1, <2>2
<1>4. ASSUME NEW m \in 1..n
      PROVE  BaseOf(s, m) \subseteq BaseOf(s, n)
  <2>1. CASE m = 1 \/ m = n
    BY <2>1, <1>2
  <2>2. CASE m > 1 /\ m < n
    <3>1. m - 1 \in 1..d - 1 /\ n - 1 \in 1..d - 1 /\ m - 1 < n - 1 /\ m \in 1..d /\ n > 1
      BY <2>2
    <3>2. Latest(s, m - 1) < Latest(s, n - 1)
      BY <3>1 DEF Chained
    <3>3. /\ Latest(s, m - 1) \in DOMAIN s.saves /\ Latest(s, n - 1) \in DOMAIN s.saves
          /\ BaseOf(s, m) = s.saves[Latest(s, m - 1)].work
          /\ BaseOf(s, n) = s.saves[Latest(s, n - 1)].work
      BY <1>1, <2>2, <3>1
    <3>4. Latest(s, m - 1) <= Latest(s, n - 1)
      BY <3>2, <3>3
    <3>5. QED
      BY <3>3, <3>4 DEF Growing
  <2>3. QED
    BY <2>1, <2>2
<1>5. QED
  BY <1>1, <1>2, <1>3, <1>4

LEMMA FreshOK ==
  ASSUME NEW d \in Nat
  PROVE  SessionOK(Fresh, d) /\ LevelsOf(Fresh, d) = [i \in 1..d |-> {}]
<1>1. Fresh \in Sessions
  BY DEF Fresh, Sessions
<1>2. Growing(Fresh) /\ Distinct(Fresh)
  BY DEF Fresh, Growing, Distinct
<1>3. Fresh.work = {} /\ \A n : Named(Fresh, n) = {}
  BY DEF Fresh, Named
<1>4. \A i : BaseOf(Fresh, i) = {}
  BY <1>3 DEF BaseOf
<1>5. QED
  BY <1>1, <1>2, <1>3, <1>4 DEF SessionOK, LevelsOf, Fresh

LEMMA BeginOK ==
  LET s == [Fresh EXCEPT !.inTx = TRUE] IN
  SessionOK(s, 1) /\ LevelsOf(s, 1) = Append(<< >>, {})
<1> DEFINE s == [Fresh EXCEPT !.inTx = TRUE]
<1>1. Fresh \in Sessions
  BY DEF Fresh, Sessions
<1>2. s \in Sessions /\ s.inTx /\ s.work = Fresh.work /\ s.saves = Fresh.saves
  BY <1>1 DEF Sessions
<1>3. s.work = {} /\ s.saves = << >>
  BY <1>2 DEF Fresh
<1> HIDE DEF s
<1>4. Growing(s) /\ Distinct(s) /\ Chained(s, 1)
  BY <1>3 DEF Growing, Distinct, Chained
<1>5. SessionOK(s, 1)
  BY <1>2, <1>4 DEF SessionOK
<1>6. LevelsOf(s, 1) = << {} >>
  <2>1. BaseOf(s, 1) = {}
    BY DEF BaseOf
  <2>2. LevelsOf(s, 1) = [i \in 1..1 |-> {}]
    BY <1>3, <2>1 DEF LevelsOf
  <2>3. QED
    BY <2>2
<1>7. Append(<< >>, {}) = << {} >>
  OBVIOUS
<1>8. SessionOK(s, 1) /\ LevelsOf(s, 1) = Append(<< >>, {})
  BY <1>5, <1>6, <1>7
<1>9. QED
  BY <1>8 DEF s

LEMMA SavepointOK ==
  ASSUME NEW d \in 1..MaxDepth, MaxDepth \in Nat, NEW s, SessionOK(s, d), s.inTx
  PROVE  LET s2 == [s EXCEPT !.saves = NewSavepoint(s, d)] IN
         /\ SessionOK(s2, d + 1) /\ LevelsOf(s2, d + 1) = Append(LevelsOf(s, d), {})
         /\ SessionOK(s2, d) /\ LevelsOf(s2, d) = LevelsOf(s, d)
<1> DEFINE s2 == [s EXCEPT !.saves = NewSavepoint(s, d)]
           L == LevelsOf(s, d)
           L2 == LevelsOf(s2, d + 1)
<1>1. s \in Sessions /\ Chained(s, d) /\ Growing(s) /\ (dialect = "MySQL" => Distinct(s))
  BY DEF SessionOK
<1>2. /\ s2.saves = NewSavepoint(s, d) /\ s2.work = s.work
      /\ s2.inTx = s.inTx /\ s2.aborted = s.aborted
  BY <1>1 DEF Sessions
<1> HIDE DEF s2
<1>3. /\ s2.saves \in Seq(Savepoints) /\ Growing(s2) /\ (dialect = "MySQL" => Distinct(s2))
      /\ Chained(s2, d + 1)
      /\ \A n \in 1..d - 1 : s2.saves[Latest(s2, n)].work = s.saves[Latest(s, n)].work
      /\ s2.saves[Latest(s2, d)].work = s.work
  BY <1>1, <1>2, SetSavepoint
<1>4. s2 \in Sessions
  BY <1>1, <1>3 DEF Sessions, s2
<1>5. SessionOK(s2, d + 1)
  BY <1>2, <1>3, <1>4 DEF SessionOK
<1>6. ASSUME NEW n \in 1..d
      PROVE  BaseOf(s2, n) = BaseOf(s, n)
  <2>1. /\ n = 1 => BaseOf(s, n) = {}
        /\ n > 1 => BaseOf(s, n) = s.saves[Latest(s, n - 1)].work
    BY <1>1, BaseIs DEF Sessions
  <2>2. n \in 1..d + 1 /\ d + 1 \in Nat
    OBVIOUS
  <2>3. /\ n = 1 => BaseOf(s2, n) = {}
        /\ n > 1 => BaseOf(s2, n) = s2.saves[Latest(s2, n - 1)].work
    BY <1>3, <2>2, BaseIs
  <2>4. n > 1 => n - 1 \in 1..d - 1
    OBVIOUS
  <2>5. CASE n = 1
    BY <2>1, <2>3, <2>5
  <2>6. CASE n > 1
    BY <1>3, <2>1, <2>3, <2>4, <2>6
  <2>7. QED
    BY <2>5, <2>6
<1>7. BaseOf(s2, d + 1) = s.work
  <2>1. d + 1 \in Nat /\ d + 1 \in 1..d + 1 /\ d + 1 > 1 /\ (d + 1) - 1 = d
    OBVIOUS
  <2>2. BaseOf(s2, d + 1) = s2.saves[Latest(s2, (d + 1) - 1)].work
    BY <1>3, <2>1, BaseIs
  <2>3. QED
    BY <1>3, <2>1, <2>2
<1>11. SessionOK(s2, d)
  <2>1. Chained(s2, d)
    <3>1. \A n \in 1..d - 1 : n \in 1..(d + 1) - 1
      OBVIOUS
    <3>2. QED
      BY <1>3, <3>1 DEF Chained
  <2>2. QED
    BY <1>5, <2>1 DEF SessionOK
<1>12. LevelsOf(s2, d) = L
  <2>1. \A i \in 1..d : i # d => i + 1 \in 1..d
    OBVIOUS
  <2>2. QED
    BY <1>2, <1>6, <2>1 DEF LevelsOf
<1>8. Len(L) = d /\ L \in Seq(SUBSET Rows)
  BY LevelsSeq
<1>9. L2 = Append(L, {})
  <2>1. \A i \in 1..d : L2[i] = L[i]
    BY <1>2, <1>6, <1>7 DEF LevelsOf
  <2>2. L2[d + 1] = {}
    BY <1>2, <1>7 DEF LevelsOf
  <2>3. L2 \in Seq(SUBSET Rows) /\ Len(L2) = d + 1
    BY <1>5, LevelsSeq
  <2>4. /\ Append(L, {}) \in Seq(SUBSET Rows) /\ Len(Append(L, {})) = d + 1
        /\ \A i \in 1..d : Append(L, {})[i] = L[i]
        /\ Append(L, {})[d + 1] = {}
    BY <1>8, AppendProperties
  <2> HIDE DEF L, L2
  <2>5. QED
    BY <2>1, <2>2, <2>3, <2>4, SeqEqual
<1>10. QED
  BY <1>5, <1>9, <1>11, <1>12 DEF s2

LEMMA CutLevels ==
  ASSUME NEW S, NEW L \in Seq(S), NEW d \in Nat, d > 0, Len(L) = d
  PROVE  /\ SubSeq(L, 1, d - 1) \in Seq(S) /\ Len(SubSeq(L, 1, d - 1)) = d - 1
         /\ \A i \in 1..d - 1 : SubSeq(L, 1, d - 1)[i] = L[i]
<1>1. \A i \in 1..d - 1 : L[i] \in S
  OBVIOUS
<1>2. QED
  BY <1>1, SubSeqProperties

(* What a session has of the brackets when its savepoints are cut off at   *)
(* that of the last bracket: those before it are as they were.             *)
LEMMA CutOK ==
  ASSUME NEW d \in Nat, d > 1, NEW s, SessionOK(s, d), s.inTx,
         NEW k \in {Latest(s, d - 1), Latest(s, d - 1) - 1},
         NEW s2 \in Sessions, s2.inTx, s2.saves = SubSeq(s.saves, 1, k),
         s2.work = s.work \/ (s2.work = s.saves[Latest(s, d - 1)].work /\ k = Latest(s, d - 1))
  PROVE  /\ SessionOK(s2, d - 1)
         /\ \A n \in 1..d - 1 : BaseOf(s2, n) = BaseOf(s, n)
         /\ BaseOf(s, d) = s.saves[Latest(s, d - 1)].work
<1>1. /\ s \in Sessions /\ s.saves \in Seq(Savepoints) /\ Chained(s, d) /\ Growing(s)
      /\ dialect = "MySQL" => Distinct(s)
  BY DEF SessionOK, Sessions
<1>2. /\ Latest(s, d - 1) \in DOMAIN s.saves
      /\ s2.saves \in Seq(Savepoints)
      /\ DOMAIN s2.saves = 1..k /\ DOMAIN s2.saves \subseteq DOMAIN s.saves
      /\ \A i \in DOMAIN s2.saves : s2.saves[i] = s.saves[i]
      /\ Distinct(s) => Distinct(s2)
      /\ Chained(s2, d - 1)
      /\ \A n \in 1..d - 2 : /\ Latest(s2, n) = Latest(s, n)
                             /\ Latest(s2, n) \in DOMAIN s2.saves
                             /\ s2.saves[Latest(s2, n)] = s.saves[Latest(s, n)]
  <2>1. PICK c \in {Latest(s, d - 1), Latest(s, d - 1) - 1} : c = k
    OBVIOUS
  <2>2. s2.saves = SubSeq(s.saves, 1, c)
    BY <2>1
  <2>3. QED
    BY <1>1, <2>1, <2>2, CutSaves, SMTT(60)
<1>3. Growing(s2)
  <2>1. \A i, j \in DOMAIN s2.saves : i <= j => s2.saves[i].work \subseteq s2.saves[j].work
    BY <1>1, <1>2 DEF Growing
  <2>2. CASE s2.work = s.work
    BY <1>1, <1>2, <2>1, <2>2 DEF Growing
  <2>3. CASE s2.work = s.saves[Latest(s, d - 1)].work /\ k = Latest(s, d - 1)
    <3>1. \A i \in DOMAIN s2.saves : i <= Latest(s, d - 1)
      BY <1>1, <1>2, <2>3
    <3>2. \A i \in DOMAIN s2.saves : s2.saves[i].work \subseteq s2.work
      BY <1>1, <1>2, <2>3, <3>1 DEF Growing
    <3>3. QED
      BY <2>1, <3>2 DEF Growing
  <2>4. QED
    BY <2>2, <2>3
<1>4. SessionOK(s2, d - 1)
  BY <1>1, <1>2, <1>3 DEF SessionOK
<1>5. ASSUME NEW n \in 1..d - 1
      PROVE  BaseOf(s2, n) = BaseOf(s, n)
  <2>1. n \in 1..d /\ d - 1 \in Nat
    OBVIOUS
  <2>2. /\ n = 1 => BaseOf(s, n) = {}
        /\ n > 1 => BaseOf(s, n) = s.saves[Latest(s, n - 1)].work
    BY <1>1, <2>1, BaseIs
  <2>3. /\ n = 1 => BaseOf(s2, n) = {}
        /\ n > 1 => BaseOf(s2, n) = s2.saves[Latest(s2, n - 1)].work
    BY <1>2, <1>3, <2>1, BaseIs
  <2>4. CASE n = 1
    BY <2>2, <2>3, <2>4
  <2>5. CASE n > 1
    <3>1. n - 1 \in 1..d - 2
      BY <2>5
    <3>2. s2.saves[Latest(s2, n - 1)] = s.saves[Latest(s, n - 1)]
      BY <1>2, <3>1
    <3>3. QED
      BY <2>2, <2>3, <2>5, <3>2
  <2>6. QED
    BY <2>4, <2>5
<1>6. BaseOf(s, d) = s.saves[Latest(s, d - 1)].work
  <2>1. d \in 1..d
    OBVIOUS
  <2>2. QED
    BY <1>1, <2>1, BaseIs
<1>7. QED
  BY <1>4, <1>5, <1>6

LEMMA ReleaseOK ==
  ASSUME NEW d \in Nat, d > 1, NEW s, SessionOK(s, d), s.inTx
  PROVE  LET s2 == [s EXCEPT !.saves = SubSeq(@, 1, Latest(s, d - 1) - 1)]
             L == LevelsOf(s, d)
         IN /\ SessionOK(s2, d - 1)
            /\ LevelsOf(s2, d - 1) = [SubSeq(L, 1, d - 1) EXCEPT ![d - 1] = @ \cup L[d]]
<1> DEFINE s2 == [s EXCEPT !.saves = SubSeq(@, 1, Latest(s, d - 1) - 1)]
           L == LevelsOf(s, d)
           L2 == LevelsOf(s2, d - 1)
           k == Latest(s, d - 1) - 1
<1>1. s \in Sessions /\ s.saves \in Seq(Savepoints) /\ Chained(s, d) /\ Growing(s)
  BY DEF SessionOK, Sessions
<1>2. /\ s2.saves = SubSeq(s.saves, 1, k) /\ s2.work = s.work /\ s2.inTx
      /\ s2.aborted = s.aborted
  BY <1>1 DEF Sessions
<1>3. s2 \in Sessions
  <2>1. s2.saves \in Seq(Savepoints)
    BY <1>1, <1>2, CutSaves
  <2>2. QED
    BY <1>1, <2>1 DEF Sessions
<1> HIDE DEF s2
<1>4. /\ SessionOK(s2, d - 1)
      /\ \A n \in 1..d - 1 : BaseOf(s2, n) = BaseOf(s, n)
  <2>1. k \in {Latest(s, d - 1), Latest(s, d - 1) - 1}
    OBVIOUS
  <2>2. /\ s2.saves = SubSeq(s.saves, 1, k)
        /\ s2.work = s.work \/ (s2.work = s.saves[Latest(s, d - 1)].work /\ k = Latest(s, d - 1))
    BY <1>2
  <2> HIDE DEF k, L, L2
  <2>3. QED
    BY <1>2, <1>3, <2>1, <2>2, CutOK
<1>5. /\ BaseOf(s, d) \subseteq s.work /\ BaseOf(s, d - 1) \subseteq BaseOf(s, d)
  <2>1. d \in 1..d /\ d - 1 \in 1..d
    OBVIOUS
  <2>2. QED
    BY <1>1, <2>1, BaseIs
<1>6. L \in Seq(SUBSET Rows) /\ Len(L) = d
  BY LevelsSeq
<1>7. L2 \in Seq(SUBSET Rows) /\ Len(L2) = d - 1
  BY <1>4, LevelsSeq
<1>8. /\ SubSeq(L, 1, d - 1) \in Seq(SUBSET Rows) /\ Len(SubSeq(L, 1, d - 1)) = d - 1
      /\ \A i \in 1..d - 1 : SubSeq(L, 1, d - 1)[i] = L[i]
  BY <1>6, CutLevels
<1>9. \A i \in 1..d - 1 : L2[i] = IF i = d - 1 THEN L[d - 1] \cup L[d] ELSE L[i]
  <2>1. ASSUME NEW i \in 1..d - 1, i # d - 1
        PROVE  L2[i] = L[i]
    BY <1>4, <2>1 DEF LevelsOf
  <2>2. L2[d - 1] = s.work \ BaseOf(s, d - 1)
    BY <1>2, <1>4 DEF LevelsOf
  <2>3. L[d - 1] = BaseOf(s, d) \ BaseOf(s, d - 1) /\ L[d] = s.work \ BaseOf(s, d)
    BY DEF LevelsOf
  <2>4. L2[d - 1] = L[d - 1] \cup L[d]
    BY <1>5, <2>2, <2>3
  <2>5. QED
    BY <2>1, <2>4
<1> HIDE DEF L, L2
<1>10. L2 = [SubSeq(L, 1, d - 1) EXCEPT ![d - 1] = @ \cup L[d]]
  <2> DEFINE q == SubSeq(L, 1, d - 1)
  <2>1. q \in Seq(SUBSET Rows) /\ Len(q) = d - 1 /\ DOMAIN q = 1..d - 1
    BY <1>8
  <2>2. \A i \in 1..d - 1 : L2[i] = IF i = d - 1 THEN q[i] \cup L[d] ELSE q[i]
    BY <1>8, <1>9
  <2>3. L2 = [i \in 1..d - 1 |-> L2[i]]
    BY <1>7
  <2> HIDE DEF q
  <2>4. q = [i \in 1..d - 1 |-> q[i]]
    BY <2>1
  <2>5. L2 = [q EXCEPT ![d - 1] = @ \cup L[d]]
    BY <2>1, <2>2, <2>3, <2>4
  <2>6. QED
    BY <2>5 DEF q
<1>11. QED
  BY <1>4, <1>10 DEF s2, L, L2

LEMMA RollbackToOK ==
  ASSUME NEW d \in Nat, d > 1, NEW s, SessionOK(s, d), s.inTx
  PROVE  LET s2 == [s EXCEPT !.saves = SubSeq(@, 1, Latest(s, d - 1)),
                             !.work = s.saves[Latest(s, d - 1)].work,
                             !.aborted = FALSE]
         IN /\ SessionOK(s2, d - 1)
            /\ LevelsOf(s2, d - 1) = SubSeq(LevelsOf(s, d), 1, d - 1)
<1> DEFINE s2 == [s EXCEPT !.saves = SubSeq(@, 1, Latest(s, d - 1)),
                           !.work = s.saves[Latest(s, d - 1)].work,
                           !.aborted = FALSE]
           L == LevelsOf(s, d)
           L2 == LevelsOf(s2, d - 1)
           k == Latest(s, d - 1)
<1>1. s \in Sessions /\ s.saves \in Seq(Savepoints) /\ Chained(s, d) /\ Growing(s)
  BY DEF SessionOK, Sessions
<1>2. /\ s2.saves = SubSeq(s.saves, 1, k) /\ s2.work = s.saves[k].work /\ s2.inTx
      /\ s2.aborted = FALSE
  BY <1>1 DEF Sessions
<1>3. s2 \in Sessions
  <2> HIDE DEF s2
  <2>1. s2.saves \in Seq(Savepoints) /\ k \in DOMAIN s.saves
    BY <1>1, <1>2, CutSaves
  <2>2. s.saves[k] \in Savepoints
    BY <1>1, <2>1
  <2>3. s.saves[k].work \subseteq Rows
    BY <2>2 DEF Savepoints
  <2>4. QED
    BY <1>1, <2>1, <2>3 DEF Sessions, s2
<1> HIDE DEF s2
<1>4. /\ SessionOK(s2, d - 1)
      /\ \A n \in 1..d - 1 : BaseOf(s2, n) = BaseOf(s, n)
      /\ BaseOf(s, d) = s.saves[k].work
  BY <1>2, <1>3, CutOK
<1>6. L \in Seq(SUBSET Rows) /\ Len(L) = d
  BY LevelsSeq
<1>7. L2 \in Seq(SUBSET Rows) /\ Len(L2) = d - 1
  BY <1>4, LevelsSeq
<1>8. /\ SubSeq(L, 1, d - 1) \in Seq(SUBSET Rows) /\ Len(SubSeq(L, 1, d - 1)) = d - 1
      /\ \A i \in 1..d - 1 : SubSeq(L, 1, d - 1)[i] = L[i]
  BY <1>6, CutLevels
<1>9. \A i \in 1..d - 1 : L2[i] = L[i]
  BY <1>2, <1>4 DEF LevelsOf
<1> HIDE DEF L, L2
<1>10. L2 = SubSeq(L, 1, d - 1)
  BY <1>7, <1>8, <1>9, SeqEqual
<1>11. QED
  BY <1>4, <1>10 DEF s2, L, L2

LEMMA InsertOK ==
  ASSUME NEW d \in Nat, d > 0, NEW s, SessionOK(s, d), s.inTx, NEW r \in Rows, r \notin s.work
  PROVE  LET s2 == [s EXCEPT !.work = @ \cup {r}] IN
         /\ SessionOK(s2, d)
         /\ LevelsOf(s2, d) = [LevelsOf(s, d) EXCEPT ![d] = @ \cup {r}]
<1> DEFINE s2 == [s EXCEPT !.work = @ \cup {r}]
           L == LevelsOf(s, d)
           L2 == LevelsOf(s2, d)
<1>1. s \in Sessions /\ s.saves \in Seq(Savepoints) /\ Chained(s, d) /\ Growing(s)
  BY DEF SessionOK, Sessions
<1>2. /\ s2.saves = s.saves /\ s2.work = s.work \cup {r} /\ s2.inTx /\ s2 \in Sessions
  BY <1>1 DEF Sessions
<1> HIDE DEF s2
<1>3. \A n : Named(s2, n) = Named(s, n)
  BY <1>2 DEF Named
<1>4. \A n : Latest(s2, n) = Latest(s, n)
  BY <1>3 DEF Latest
<1>5. Chained(s2, d) /\ Growing(s2) /\ (dialect = "MySQL" => Distinct(s2))
  BY <1>1, <1>2, <1>3, <1>4 DEF SessionOK, Chained, IsLatest, Growing, Distinct
<1>6. SessionOK(s2, d)
  BY <1>2, <1>5 DEF SessionOK
<1>7. \A n : BaseOf(s2, n) = BaseOf(s, n)
  BY <1>2, <1>3, <1>4 DEF BaseOf
<1>8. r \notin BaseOf(s, d)
  <2>1. d \in 1..d
    OBVIOUS
  <2>2. QED
    BY <1>1, <2>1, BaseIs
<1>9. DOMAIN L = 1..d /\ DOMAIN L2 = 1..d /\ L = [i \in 1..d |-> L[i]] /\ L2 = [i \in 1..d |-> L2[i]]
  BY DEF LevelsOf
<1>10. \A i \in 1..d : L2[i] = IF i = d THEN L[i] \cup {r} ELSE L[i]
  BY <1>2, <1>7, <1>8 DEF LevelsOf
<1> HIDE DEF L, L2
<1>11. L2 = [L EXCEPT ![d] = @ \cup {r}]
  BY <1>9, <1>10
<1>12. QED
  BY <1>6, <1>11 DEF s2, L, L2

-----------------------------------------------------------------------------
(* Statements.                                                             *)

Began == [Fresh EXCEPT !.inTx = TRUE]
Wrote(s, r) == [s EXCEPT !.work = @ \cup {r}]
Marked(s, n) == [s EXCEPT !.saves = NewSavepoint(s, n)]
Released(s, n) == [s EXCEPT !.saves = SubSeq(@, 1, Latest(s, n) - 1)]
RolledBackTo(s, n) ==
  [s EXCEPT !.saves = SubSeq(@, 1, Latest(s, n)),
            !.work = s.saves[Latest(s, n)].work,
            !.aborted = FALSE]

(* What the server has done when a statement of a method succeeded.        *)
LEMMA BeginIs ==
  ASSUME NEW s, NEW db, NEW n, NEW a \in Successes(<<"BEGIN", n>>, s, db)
  PROVE  a.session = Began /\ a.stored = db
<1>1. a = Answer(TRUE, Began, db)
  BY DEF Successes, Began
<1>2. QED
  BY <1>1 DEF Answer

LEMMA InsertIs ==
  ASSUME NEW s \in Sessions, NEW db, NEW n, NEW a \in Successes(<<"INSERT", n>>, s, db)
  PROVE  /\ s.inTx => ~s.aborted /\ a.session = Wrote(s, n) /\ a.stored = db
         /\ ~s.inTx => a.session = s /\ a.stored = db \cup {n}
<1>1. CASE s.inTx
  <2>1. ~s.aborted /\ a = Answer(TRUE, Wrote(s, n), db)
    BY <1>1 DEF Successes, Wrote
  <2>2. QED
    BY <1>1, <2>1 DEF Answer
<1>2. CASE ~s.inTx
  <2>1. a = Answer(TRUE, s, db \cup {n})
    BY <1>2 DEF Successes
  <2>2. QED
    BY <1>2, <2>1 DEF Answer
<1>3. QED
  BY <1>1, <1>2

LEMMA CommitIs ==
  ASSUME NEW s, ~s.aborted, NEW db, NEW n, NEW a \in Successes(<<"COMMIT", n>>, s, db)
  PROVE  a.session = Fresh /\ a.stored = db \cup s.work
<1>1. a = Answer(TRUE, Fresh, db \cup s.work)
  BY DEF Successes
<1>2. QED
  BY <1>1 DEF Answer

LEMMA RollbackIs ==
  ASSUME NEW s, NEW db, NEW n, NEW a \in Successes(<<"ROLLBACK", n>>, s, db)
  PROVE  a.session = Fresh /\ a.stored = db
<1>1. a = Answer(TRUE, Fresh, db)
  BY DEF Successes
<1>2. QED
  BY <1>1 DEF Answer

LEMMA SavepointIs ==
  ASSUME NEW s \in Sessions, NEW db, NEW n, NEW a \in Successes(<<"SAVEPOINT", n>>, s, db)
  PROVE  a.stored = db /\ (s.inTx => a.session = Marked(s, n))
<1>1. CASE s.inTx
  <2>1. a = Answer(TRUE, Marked(s, n), db)
    BY <1>1 DEF Successes, Marked
  <2>2. QED
    BY <2>1 DEF Answer
<1>2. CASE ~s.inTx
  <2>1. a = Answer(TRUE, s, db)
    BY <1>2 DEF Successes
  <2>2. QED
    BY <1>2, <2>1 DEF Answer
<1>3. QED
  BY <1>1, <1>2

LEMMA ReleaseIs ==
  ASSUME NEW s, NEW db, NEW n, NEW a \in Successes(<<"RELEASE", n>>, s, db)
  PROVE  Named(s, n) # {} /\ a.session = Released(s, n) /\ a.stored = db
<1>1. Named(s, n) # {} /\ a = Answer(TRUE, Released(s, n), db)
  BY DEF Successes, Released
<1>2. QED
  BY <1>1 DEF Answer

RollbackTo(n) == <<"ROLLBACK TO", n>>

LEMMA RollbackToIs ==
  ASSUME NEW s, NEW db, NEW n, NEW a \in Successes(RollbackTo(n), s, db)
  PROVE  Named(s, n) # {} /\ a.session = RolledBackTo(s, n) /\ a.stored = db
<1>1. Named(s, n) # {} /\ a = Answer(TRUE, RolledBackTo(s, n), db)
  BY DEF Successes, RollbackTo, RolledBackTo
<1>2. QED
  BY <1>1 DEF Answer

Aborted(s) == [s EXCEPT !.aborted = TRUE]

LEMMA AnswerKinds ==
  ASSUME NEW q, q[1] \in Statements, NEW s \in Sessions, NEW db, NEW a \in Answers(q, s, db)
  PROVE  \/ a \in Successes(q, s, db)
         \/ /\ a.stored = db
            /\ a.session \in {s, Fresh} \/ (s.inTx /\ a.session = Aborted(s))
<1>1. ASSUME a \in Failures(q, s, db)
      PROVE  /\ a.stored = db
             /\ a.session \in {s, Fresh} \/ (s.inTx /\ a.session = Aborted(s))
  <2>1. PICK t : /\ a = Answer(FALSE, t, db)
                 /\ t \in {s, Fresh} \/ (s.inTx /\ t = Aborted(s))
    BY <1>1 DEF Failures, Aborted
  <2>2. a.stored = db /\ a.session = t
    BY <2>1 DEF Answer
  <2>3. QED
    BY <2>1, <2>2
<1>2. QED
  BY <1>1 DEF Answers

LEMMA AnswerIsSuccess ==
  ASSUME NEW q, q[1] \in Statements, NEW s \in Sessions, NEW db, NEW a \in Answers(q, s, db)
  PROVE  /\ a.ok = TRUE => a \in Successes(q, s, db)
         /\ a.ok = FALSE => a \notin Successes(q, s, db)
<1>1. ASSUME a \in Successes(q, s, db)
      PROVE  a.ok = TRUE
  <2>1. CASE q[1] = "BEGIN"
    BY <1>1, <2>1 DEF Successes, Answer, Sessions
  <2>2. CASE q[1] = "INSERT"
    BY <1>1, <2>2 DEF Successes, Answer, Sessions
  <2>3. CASE q[1] = "COMMIT"
    BY <1>1, <2>3 DEF Successes, Answer, Sessions
  <2>4. CASE q[1] = "ROLLBACK"
    BY <1>1, <2>4 DEF Successes, Answer, Sessions
  <2>5. CASE q[1] = "SAVEPOINT"
    BY <1>1, <2>5 DEF Successes, Answer, Sessions
  <2>6. CASE q[1] = "RELEASE"
    BY <1>1, <2>6 DEF Successes, Answer, Sessions
  <2>7. CASE q[1] = "ROLLBACK TO"
    <3>1. a \in IF Named(s, q[2]) # {}
                THEN {Answer(TRUE, [s EXCEPT !.saves = SubSeq(@, 1, Latest(s, q[2])),
                                             !.work = s.saves[Latest(s, q[2])].work,
                                             !.aborted = FALSE], db)}
                ELSE {}
      BY <1>1, <2>7 DEF Successes
    <3>2. PICK t : a = Answer(TRUE, t, db)
      BY <3>1
    <3>3. QED
      BY <3>2 DEF Answer
  <2>8. QED
    BY <2>1, <2>2, <2>3, <2>4, <2>5, <2>6, <2>7 DEF Statements
<1>2. ASSUME a \in Failures(q, s, db)
      PROVE  a.ok = FALSE
  <2>1. PICK t : a = Answer(FALSE, t, db)
    BY <1>2 DEF Failures
  <2>2. QED
    BY <2>1 DEF Answer
<1>3. QED
  BY <1>1, <1>2 DEF Answers

(* exec() returns only what the server has done on the session that was    *)
(* there.                                                                  *)
LEMMA ExecReturns ==
  ASSUME Premises, SqlInv, NEW q, q[1] \in Statements, Exec(q, TRUE)
  PROVE  /\ connected /\ up /\ connected' = TRUE /\ up' = TRUE /\ dialect' = dialect
         /\ \E a \in Successes(q, session, stored) : session' = a.session /\ stored' = a.stored
<1>1. session \in Sessions /\ connected \in BOOLEAN /\ up \in BOOLEAN
  BY DEF SqlInv, SessionOK
<1>2. ~(connected /\ ~up /\ ExecBroken(q, stored, TRUE))
  BY DEF SqlInv, ClientOK, ExecBroken
<1>3. \A db : dialect \in Lossy => ~ExecBroken(q, db, TRUE)
  BY DEF ExecBroken, Premises
<1>4. connected /\ up /\ Served(q, session, stored, TRUE) /\ UNCHANGED <<connected, up>>
  BY <1>2, <1>3 DEF Exec
<1>5. PICK a \in Answers(q, session, stored) :
        a.ok = TRUE /\ session' = a.session /\ stored' = a.stored
  BY <1>4 DEF Served
<1>6. a \in Successes(q, session, stored)
  BY <1>1, <1>5, AnswerIsSuccess
<1>7. QED
  BY <1>1, <1>4, <1>5, <1>6 DEF Exec

(* The statement has succeeded, and exec throws behind it.                 *)
CarriedOut(q) ==
  /\ up /\ connected' = TRUE /\ up' = TRUE /\ q[1] \in ThrowsAfter
  /\ \E a \in Successes(q, session, stored) : session' = a.session /\ stored' = a.stored

(* An exception leaves the session, or a new one, or an aborted one; or    *)
(* the statement is done, and the connection broke or exec threw behind it.*)
LEMMA ExecThrows ==
  ASSUME Premises, SqlInv, NEW q, q[1] \in Statements, Exec(q, FALSE)
  PROVE  /\ dialect' = dialect /\ connected' \in BOOLEAN /\ up' \in BOOLEAN
         /\ ~connected' => ~up'
         /\ ~up' => session' = Fresh
         /\ connected' /\ ~up' => dialect = "PostgreSQL"
         /\ \/ session' \in {session, Fresh} /\ stored' = stored
            \/ session.inTx /\ session' = Aborted(session) /\ stored' = stored
            \/ /\ up /\ session' = Fresh
               /\ \E a \in Successes(q, session, stored) : stored' = a.stored
            \/ CarriedOut(q)
<1>1. /\ session \in Sessions /\ connected \in BOOLEAN /\ up \in BOOLEAN
      /\ ~connected => ~up
      /\ ~up => session = Fresh
      /\ connected /\ ~up => dialect = "PostgreSQL"
      /\ dialect \in Dialects
  BY DEF SqlInv, SessionOK, ClientOK
<1>9. session \in Sessions
  BY DEF SqlInv, SessionOK
<1>2. dialect \in Lossy => dialect = "PostgreSQL"
  BY SqlAssumption DEF Premises
<1>3. dialect' = dialect
  BY DEF Exec
<1>4. CASE ~connected /\ UNCHANGED <<connected, server>>
  BY <1>1, <1>3, <1>4 DEF server
<1>5. CASE connected /\ up /\ Served(q, session, stored, FALSE) /\ UNCHANGED <<connected, up>>
  <2>1. PICK a \in Answers(q, session, stored) :
          a.ok = FALSE /\ session' = a.session /\ stored' = a.stored
    BY <1>5 DEF Served
  <2>2. /\ a.stored = stored
        /\ \/ a.session \in {session, Fresh}
           \/ session.inTx /\ a.session = Aborted(session)
    <3>1. a \notin Successes(q, session, stored)
      BY <1>9, <2>1, AnswerIsSuccess
    <3>2. \/ a \in Successes(q, session, stored)
          \/ /\ a.stored = stored
             /\ a.session \in {session, Fresh} \/ (session.inTx /\ a.session = Aborted(session))
      BY <1>9, AnswerKinds
    <3>3. QED
      BY <3>1, <3>2
  <2>3. QED
    BY <1>1, <1>3, <1>5, <2>1, <2>2
<1>6. CASE connected /\ ~up /\ ExecBroken(q, stored, FALSE)
  BY <1>1, <1>3, <1>6 DEF ExecBroken
<1>7. CASE /\ connected /\ up /\ dialect \in Lossy
           /\ \E a \in Answers(q, session, stored) : ExecBroken(q, a.stored, FALSE)
  <2>1. PICK a \in Answers(q, session, stored) : ExecBroken(q, a.stored, FALSE)
    BY <1>7
  <2>2. connected' = TRUE /\ up' = FALSE /\ session' = Fresh /\ stored' = a.stored
    BY <1>2, <1>7, <2>1 DEF ExecBroken
  <2>3. a.stored = stored \/ a \in Successes(q, session, stored)
    BY <1>9, <2>1, AnswerKinds
  <2>4. QED
    BY <1>2, <1>3, <1>7, <2>2, <2>3
<1>10. CASE /\ connected /\ up /\ q[1] \in ThrowsAfter
            /\ Served(q, session, stored, TRUE)
            /\ UNCHANGED <<connected, up>>
  <2>1. PICK a \in Answers(q, session, stored) :
          a.ok = TRUE /\ session' = a.session /\ stored' = a.stored
    BY <1>10 DEF Served
  <2>2. a \in Successes(q, session, stored)
    BY <1>9, <2>1, AnswerIsSuccess
  <2>3. connected' = TRUE /\ up' = TRUE
    BY <1>1, <1>10
  <2>4. QED
    BY <1>3, <1>10, <2>1, <2>2, <2>3 DEF CarriedOut
<1>8. QED
  BY <1>4, <1>5, <1>6, <1>7, <1>10 DEF Exec

-----------------------------------------------------------------------------
(* Steps.                                                                  *)

(* A new session, whatever the client counts: what was open is dropped.    *)
LEMMA Dropped ==
  ASSUME SqlInv, session' = Fresh, transactiondepth' = transactiondepth, transactiondepth > 0
  PROVE  /\ Levels' = [i \in 1..transactiondepth |-> {}] /\ Lost' = TRUE
         /\ stored' = stored => NT!Drop
<1>1. transactiondepth \in Nat /\ SessionOK(session, transactiondepth)
  BY SqlAssumption DEF SqlInv
<1>2. Levels \in Seq(SUBSET Rows) /\ Len(Levels) = transactiondepth
      /\ DOMAIN Levels = 1..transactiondepth
  BY <1>1, LevelsAre, LevelsSeq
<1>3. Levels' = [i \in 1..transactiondepth |-> {}]
  <2>1. Levels' = LevelsOf(session', transactiondepth')
    BY DEF Levels, LevelsOf, Base, BaseOf
  <2>2. QED
    BY <1>1, <2>1, FreshOK
<1>4. Lost' = TRUE
  BY DEF Lost, Fresh
<1>5. QED
  BY <1>1, <1>2, <1>3, <1>4 DEF NT!Drop, NT!Depth

(* What the invariant says of a session without brackets.                  *)
LEMMA DepthZero ==
  ASSUME SqlInv, transactiondepth = 0
  PROVE  session = Fresh /\ ~session.inTx /\ Levels = << >> /\ ~Lost
<1>1. session = Fresh
  BY DEF SqlInv, SessionOK
<1>2. QED
  BY <1>1 DEF Fresh, Levels, Lost

LEMMA SameLevels ==
  ASSUME session'.work = session.work, session'.saves = session.saves,
         session'.inTx = session.inTx,
         transactiondepth' = transactiondepth, stored' = stored
  PROVE  UNCHANGED NT!nvars
<1>1. \A n : Named(session', n) = Named(session, n)
  BY DEF Named
<1>2. \A n : Latest(session', n) = Latest(session, n)
  BY <1>1 DEF Latest
<1>3. \A n : BaseOf(session', n) = BaseOf(session, n)
  BY <1>1, <1>2 DEF BaseOf
<1>4. LevelsOf(session', transactiondepth') = LevelsOf(session, transactiondepth)
  BY <1>3 DEF LevelsOf
<1>5. Levels' = LevelsOf(session', transactiondepth')
  BY DEF Levels, LevelsOf, Base, BaseOf
<1>6. QED
  BY <1>4, <1>5, LevelsAre DEF Lost, NT!nvars

(* What a COMMIT of the outermost bracket leaves, when the application     *)
(* gets an exception instead of its answer.                                *)
CommitStored ==
  transactiondepth = 1 /\ stored' = stored \cup session.work /\ session' = Fresh

(* A method that throws, unless that is behind a statement which leaves a  *)
(* session to go on with.  Only a COMMIT may have stored something.        *)
LEMMA MethodThrows ==
  ASSUME Premises, SqlInv, NEW q, q[1] \in Statements, Exec(q, FALSE),
         failed' = (transactiondepth > 0), transactiondepth' = transactiondepth,
         up => \A a \in Successes(q, session, stored) :
                 \/ a.stored = stored
                 \/ transactiondepth = 1 /\ a.stored = stored \cup session.work,
         CarriedOut(q) => session' = Fresh
  PROVE  /\ SqlInv'
         /\ \/ NoEffect
            \/ /\ CommitStored
               /\ up /\ \E a \in Successes(q, session, stored) :
                          stored' = a.stored /\ a.stored # stored
<1>1. /\ dialect' = dialect /\ connected' \in BOOLEAN /\ up' \in BOOLEAN
      /\ ~connected' => ~up'
      /\ ~up' => session' = Fresh
      /\ connected' /\ ~up' => dialect = "PostgreSQL"
      /\ \/ session' \in {session, Fresh} /\ stored' = stored
         \/ session.inTx /\ session' = Aborted(session) /\ stored' = stored
         \/ /\ up /\ session' = Fresh
            /\ \E a \in Successes(q, session, stored) : stored' = a.stored
  BY ExecThrows DEF CarriedOut
<1>2. /\ transactiondepth \in 0..MaxDepth /\ transactiondepth \in Nat
      /\ SessionOK(session, transactiondepth) /\ stored \subseteq Rows /\ dialect \in Dialects
      /\ session \in Sessions /\ session.work \subseteq Rows
  BY SqlAssumption DEF SqlInv, SessionOK, Sessions
<1>3. \/ stored' = stored
      \/ /\ CommitStored
         /\ up /\ \E a \in Successes(q, session, stored) :
                    stored' = a.stored /\ a.stored # stored
  BY <1>1 DEF CommitStored
<1>4. session.inTx => transactiondepth > 0
  BY <1>2 DEF SessionOK
<1>5. CASE session' = Fresh
  <2>1. SessionOK(session', transactiondepth')
    BY <1>2, <1>5, FreshOK DEF SessionOK
  <2>2. SessionOK(session, transactiondepth)'
    BY <1>1, <2>1, <1>2, <1>5 DEF SessionOK
  <2>3. ClientOK'
    BY <1>1, <1>2, <1>5 DEF ClientOK, Fresh
  <2>4. SqlInv'
    BY <1>1, <1>2, <1>3, <2>2, <2>3 DEF SqlInv, CommitStored
  <2>5. CASE transactiondepth > 0
    BY <1>3, <1>5, <2>4, <2>5, Dropped DEF NoEffect
  <2>6. CASE transactiondepth = 0
    <3>1. session' = session /\ stored' = stored
      BY <1>3, <1>5, <2>6, DepthZero DEF CommitStored
    <3>2. QED
      BY <2>4, <3>1, SameLevels DEF NoEffect
  <2>7. QED
    BY <1>2, <2>5, <2>6
<1>6. CASE session' = session /\ session' # Fresh
  <2>1. SqlInv'
    <3>1. SessionOK(session, transactiondepth)'
      BY <1>1, <1>2, <1>6 DEF SessionOK
    <3>2. ClientOK'
      BY <1>1, <1>2, <1>4, <1>6 DEF ClientOK, SessionOK
    <3>3. QED
      BY <1>1, <1>2, <1>3, <1>6, <3>1, <3>2 DEF SqlInv
  <2>2. QED
    BY <1>3, <1>6, <2>1, SameLevels DEF NoEffect
<1>7. CASE session.inTx /\ session' = Aborted(session) /\ session' # Fresh
  <2>1. /\ session'.work = session.work /\ session'.saves = session.saves
        /\ session'.inTx = session.inTx /\ session' \in Sessions
    BY <1>2, <1>7 DEF Aborted, Sessions
  <2>2. SessionOK(session, transactiondepth)'
    <3>4. \A n : Named(session', n) = Named(session, n)
      BY <2>1 DEF Named
    <3>5. \A n : Latest(session', n) = Latest(session, n)
      BY <3>4 DEF Latest
    <3>1. Chained(session', transactiondepth)
      BY <1>2, <1>7, <3>4, <3>5 DEF SessionOK, Chained, IsLatest
    <3>2. Growing(session') /\ (dialect = "MySQL" => Distinct(session'))
      BY <1>2, <2>1 DEF SessionOK, Growing, Distinct
    <3>3. QED
      BY <1>1, <1>4, <1>7, <2>1, <3>1, <3>2 DEF SessionOK, Chained, IsLatest, Named, Latest,
                                               Growing, Distinct
  <2>3. ClientOK'
    BY <1>1, <1>4, <1>7 DEF ClientOK
  <2>4. SqlInv'
    BY <1>1, <1>2, <1>3, <1>7, <2>2, <2>3 DEF SqlInv
  <2>5. QED
    BY <1>3, <1>7, <2>1, <2>4, SameLevels DEF NoEffect
<1>8. QED
  BY <1>1, <1>5, <1>6, <1>7

(* A method that returns: connection and error state.                      *)
LEMMA MethodReturns ==
  ASSUME Premises, SqlInv, NEW q, q[1] \in Statements, Exec(q, TRUE),
         failed' = FALSE, stored' \subseteq Rows, transactiondepth' \in 0..MaxDepth,
         SessionOK(session', transactiondepth'), ~session'.aborted,
         transactiondepth' > 0 <=> session'.inTx
  PROVE  SqlInv'
<1>1. connected' = TRUE /\ up' = TRUE /\ dialect' = dialect
  BY ExecReturns
<1>2. SessionOK(session, transactiondepth)'
  BY <1>1 DEF SessionOK
<1>3. ClientOK'
  BY <1>1 DEF ClientOK
<1>4. QED
  BY <1>1, <1>2, <1>3 DEF SqlInv

(* A method that throws behind a statement in the bracket.                 *)
LEMMA MethodCarriedOut ==
  ASSUME SqlInv, dialect' = dialect, connected' = TRUE, up' = TRUE, failed' = TRUE,
         transactiondepth' = transactiondepth, transactiondepth > 0, stored' = stored,
         SessionOK(session', transactiondepth)
  PROVE  SqlInv'
<1>1. SessionOK(session, transactiondepth)'
  BY DEF SessionOK
<1>2. ClientOK'
  BY DEF ClientOK
<1>3. QED
  BY <1>1, <1>2 DEF SqlInv

(* What startTransaction does.                                             *)
LEMMA StartKeeps ==
  ASSUME Premises, SqlInv, startTransaction
  PROVE  SqlInv' /\ (NT!Begin \/ NoEffect)
<1> DEFINE d == transactiondepth
<1>1. /\ d \in Nat /\ d \in 0..MaxDepth /\ SessionOK(session, d) /\ stored \subseteq Rows
      /\ session \in Sessions /\ MaxDepth \in Nat /\ ~failed /\ d < MaxDepth
  BY SqlAssumption DEF SqlInv, SessionOK, startTransaction
<1>2. PICK q : /\ q = IF d = 0 THEN <<"BEGIN", 0>> ELSE <<"SAVEPOINT", d>>
               /\ Method(q, d + 1)
  BY DEF startTransaction
<1>3. q[1] \in Statements
  BY <1>2 DEF Statements
<1>4. ASSUME NEW a \in Successes(q, session, stored)
      PROVE  /\ a.stored = stored
             /\ d = 0 => a.session = Began
             /\ d > 0 /\ session.inTx => a.session = Marked(session, d)
  <2>1. CASE d = 0
    <3>1. a \in Successes(<<"BEGIN", 0>>, session, stored)
      BY <1>2, <2>1
    <3>2. QED
      BY <2>1, <3>1, BeginIs
  <2>2. CASE d > 0
    <3>1. a \in Successes(<<"SAVEPOINT", d>>, session, stored)
      BY <1>2, <2>2
    <3>2. QED
      BY <1>1, <2>2, <3>1, SavepointIs
  <2>3. QED
    BY <1>1, <2>1, <2>2
<1>8. d = 0 => q[1] \notin ThrowsAfter
  BY <1>2 DEF Premises
<1>9. up /\ d > 0 => session.inTx
  BY <1>1 DEF SqlInv, ClientOK
<1>5. CASE Exec(q, FALSE) /\ failed' = (d > 0) /\ UNCHANGED transactiondepth
  <2>1. CASE d > 0 /\ CarriedOut(q)
    <3>1. session.inTx /\ session' = Marked(session, d) /\ stored' = stored
      BY <1>4, <1>9, <2>1 DEF CarriedOut
    <3>2. d \in 1..MaxDepth
      BY <1>1, <2>1
    <3>3. SessionOK(session', d) /\ LevelsOf(session', d) = LevelsOf(session, d)
      BY <1>1, <3>1, <3>2, SavepointOK DEF Marked
    <3>4. Levels' = LevelsOf(session', d)
      BY <1>5 DEF Levels, LevelsOf, Base, BaseOf
    <3>5. session'.inTx
      BY <1>1, <3>1 DEF Sessions, Marked
    <3>6. UNCHANGED NT!nvars
      BY <3>1, <3>3, <3>4, <3>5, LevelsAre DEF NT!nvars, Lost
    <3>7. dialect' = dialect /\ failed' = TRUE
      BY <1>5, <2>1 DEF Exec
    <3>8. SqlInv'
      BY <1>5, <2>1, <3>1, <3>3, <3>7, MethodCarriedOut DEF CarriedOut
    <3>9. QED
      BY <3>6, <3>8 DEF NoEffect
  <2>2. CASE ~(d > 0 /\ CarriedOut(q))
    <3>1. ~CarriedOut(q)
      BY <1>1, <1>8, <2>2 DEF CarriedOut
    <3>2. QED
      BY <1>3, <1>4, <1>5, <1>9, <3>1, MethodThrows
  <2>3. QED
    BY <2>1, <2>2
<1>6. CASE Exec(q, TRUE) /\ transactiondepth' = d + 1 /\ failed' = FALSE
  <2>1. /\ connected /\ up
        /\ \E a \in Successes(q, session, stored) : session' = a.session /\ stored' = a.stored
    BY <1>3, <1>6, ExecReturns
  <2>2. Levels' = LevelsOf(session', d + 1)
    BY <1>6 DEF Levels, LevelsOf, Base, BaseOf
  <2>3. d > 0 => session.inTx /\ ~session.aborted
    BY <1>1, <2>1 DEF SqlInv, ClientOK
  <2>4. d + 1 \in 0..MaxDepth /\ d + 1 > 0
    BY <1>1
  <2>5. stored' = stored
    BY <1>4, <2>1
  <2>6. CASE d = 0
    <3>1. session' = Began
      BY <1>4, <2>1, <2>6
    <3>2. session'.inTx /\ ~session'.aborted
      BY <3>1 DEF Fresh, Began
    <3>7. d + 1 = 1
      BY <2>6
    <3>3. SessionOK(session', d + 1) /\ Levels' = Append(<< >>, {})
      BY <2>2, <3>1, <3>7, BeginOK DEF Began
    <3>4. Levels = << >> /\ Lost = FALSE /\ Lost' = FALSE
      BY <2>6, <3>2, DepthZero DEF Lost
    <3>5. NT!Begin
      BY <2>5, <3>3, <3>4 DEF NT!Begin
    <3>6. QED
      BY <1>1, <1>3, <1>6, <2>4, <2>5, <3>2, <3>3, <3>5, MethodReturns
  <2>7. CASE d > 0
    <3>1. d \in 1..MaxDepth /\ session.inTx
      BY <1>1, <2>3, <2>7
    <3>2. session' = Marked(session, d)
      BY <1>4, <2>1, <2>3, <2>7
    <3>3. SessionOK(session', d + 1) /\ LevelsOf(session', d + 1) = Append(LevelsOf(session, d), {})
      BY <1>1, <3>1, <3>2, SavepointOK DEF Marked
    <3>4. session'.inTx /\ ~session'.aborted
      BY <1>1, <2>3, <2>7, <3>2 DEF Sessions, Marked
    <3>7. Lost = FALSE /\ Lost' = FALSE
      BY <3>1, <3>4 DEF Lost
    <3>5. NT!Begin
      BY <2>2, <2>5, <3>3, <3>7, LevelsAre DEF NT!Begin
    <3>6. QED
      BY <1>1, <1>3, <1>6, <2>4, <2>5, <3>3, <3>4, <3>5, MethodReturns
  <2>8. QED
    BY <1>1, <2>6, <2>7
<1>7. QED
  BY <1>2, <1>5, <1>6 DEF Method

(* What endTransaction does.                                               *)
LEMMA EndKeeps ==
  ASSUME Premises, SqlInv, endTransaction
  PROVE  SqlInv' /\ (NT!End \/ NoEffect \/ CommitUnanswered)
<1> DEFINE d == transactiondepth
<1>1. /\ d \in Nat /\ d \in 0..MaxDepth /\ SessionOK(session, d) /\ stored \subseteq Rows
      /\ session \in Sessions /\ session.work \subseteq Rows /\ ~failed
      /\ session.inTx \in BOOLEAN
  BY SqlAssumption DEF SqlInv, SessionOK, endTransaction, Sessions
<1>2. PICK q : /\ q = IF d = 1 THEN <<"COMMIT", 0>> ELSE <<"RELEASE", d - 1>>
               /\ Method(q, d - 1)
  BY DEF endTransaction
<1>3. q[1] \in Statements
  BY <1>2 DEF Statements
<1>4. up => (d > 0 <=> session.inTx) /\ ~session.aborted
  BY <1>1 DEF SqlInv, ClientOK
<1>5. up \/ session = Fresh
  BY DEF SqlInv, ClientOK
<1>6. ~session.aborted
  BY <1>4, <1>5 DEF Fresh
<1>7. ASSUME NEW a \in Successes(q, session, stored)
      PROVE  /\ d = 1 => a.session = Fresh /\ a.stored = stored \cup session.work
             /\ d # 1 => /\ Named(session, d - 1) # {} /\ a.stored = stored
                         /\ a.session = Released(session, d - 1)
  <2>1. CASE d = 1
    <3>1. a \in Successes(<<"COMMIT", 0>>, session, stored)
      BY <1>2, <2>1
    <3>2. QED
      BY <1>6, <2>1, <3>1, CommitIs
  <2>2. CASE d # 1
    <3>1. a \in Successes(<<"RELEASE", d - 1>>, session, stored)
      BY <1>2, <2>2
    <3>2. QED
      BY <2>2, <3>1, ReleaseIs
  <2>3. QED
    BY <2>1, <2>2
<1>8. CASE Exec(q, FALSE) /\ failed' = (d > 0) /\ UNCHANGED transactiondepth
  <2>1. CarriedOut(q) => session' = Fresh
    <3>1. d # 1 => q[1] \notin ThrowsAfter
      BY <1>2 DEF Premises
    <3>2. QED
      BY <1>7, <3>1 DEF CarriedOut
  <2>2. SqlInv' /\ (NoEffect \/ CommitStored)
    BY <1>3, <1>7, <1>8, <2>1, MethodThrows
  <2>3. CASE CommitStored
    <3>9. d = 1 /\ session' = Fresh /\ stored' = stored \cup session.work
      BY <2>3 DEF CommitStored
    <3>10. failed'
      <4>1. d > 0
        BY <3>9
      <4>2. QED
        BY <1>8, <4>1, Zenon
    <3>1. d = 1 /\ session' = Fresh /\ stored' = stored \cup session.work /\ failed'
      BY <3>9, <3>10
    <3>7. transactiondepth' = transactiondepth /\ transactiondepth > 0
      BY <1>8, <3>1
    <3>8. Levels' = [i \in 1..transactiondepth |-> {}] /\ Lost' = TRUE
      BY <3>1, <3>7, Dropped
    <3>2. Levels' = [i \in 1..1 |-> {}] /\ Lost' = TRUE
      BY <3>1, <3>8
    <3>3. Levels' = << {} >>
      BY <3>2
    <3>4. Levels[1] = session.work
      BY <3>1 DEF Levels, Base
    <3>5. CommitUnanswered
      BY <3>1, <3>2, <3>3, <3>4 DEF CommitUnanswered
    <3>6. QED
      BY <2>2, <3>5
  <2>4. QED
    BY <2>2, <2>3
<1>9. CASE Exec(q, TRUE) /\ transactiondepth' = d - 1 /\ failed' = FALSE
  <2>1. /\ connected /\ up
        /\ \E a \in Successes(q, session, stored) : session' = a.session /\ stored' = a.stored
    BY <1>3, <1>9, ExecReturns
  <2>2. Levels' = LevelsOf(session', d - 1)
    BY <1>9 DEF Levels, LevelsOf, Base, BaseOf
  <2>3. d # 0
    <3>1. SUFFICES ASSUME d = 0
                   PROVE  FALSE
      OBVIOUS
    <3>2. session = Fresh
      BY <3>1, DepthZero
    <3>3. Named(session, d - 1) # {}
      BY <1>7, <2>1, <3>1
    <3>4. QED
      BY <3>2, <3>3 DEF Named, Fresh
  <2>9. d - 1 \in 0..MaxDepth /\ d - 1 \in Nat /\ d > 0
    <3>1. MaxDepth \in Nat
      BY SqlAssumption
    <3>2. QED
      BY <1>1, <2>3, <3>1
  <2>4. d - 1 \in 0..MaxDepth /\ d - 1 \in Nat /\ d > 0 /\ session.inTx /\ ~session.aborted
    BY <1>4, <2>1, <2>9
  <2>10. Lost = FALSE
    BY <2>4 DEF Lost
  <2>5. Levels \in Seq(SUBSET Rows) /\ Len(Levels) = d
    BY <1>1, <2>4, LevelsAre, LevelsSeq
  <2>6. CASE d = 1
    <3>1. session' = Fresh /\ stored' = stored \cup session.work
      BY <1>7, <2>1, <2>6
    <3>2. SessionOK(session', d - 1) /\ ~session'.inTx /\ ~session'.aborted
      BY <2>4, <3>1, FreshOK DEF SessionOK, Fresh
    <3>3. Levels' = << >> /\ Lost' = FALSE
      BY <1>9, <2>6 DEF Levels, Lost
    <3>4. Levels[1] = session.work
      BY <2>6 DEF Levels, Base
    <3>5. NT!End
      <4>1. Lost = FALSE /\ Lost' = FALSE /\ Levels' = << >> /\ Len(Levels) = 1
        BY <2>5, <2>6, <2>10, <3>3
      <4>2. stored' = stored \cup Levels[1]
        BY <3>1, <3>4
      <4>3. NT!Depth = 1
        BY <4>1 DEF NT!Depth
      <4>4. NT!Depth > 0
        BY <4>3
      <4>5. ~Lost /\ UNCHANGED Lost
        BY <4>1
      <4>6. QED
        BY <4>1, <4>2, <4>3, <4>4, <4>5 DEF NT!End
    <3>6. stored' \subseteq Rows
      BY <1>1, <3>1
    <3>8. SessionOK(session', transactiondepth') /\ ~(transactiondepth' > 0)
      BY <1>9, <2>6, <3>2
    <3>7. QED
      BY <1>3, <1>9, <2>4, <3>2, <3>5, <3>6, <3>8, MethodReturns
  <2>7. CASE d > 1
    <3>1. session' = Released(session, d - 1) /\ stored' = stored
      <4>1. d # 1
        BY <2>7
      <4>2. QED
        BY <1>7, <2>1, <4>1
    <3>2. /\ SessionOK(session', d - 1)
          /\ LevelsOf(session', d - 1) =
               [SubSeq(LevelsOf(session, d), 1, d - 1) EXCEPT ![d - 1] = @ \cup LevelsOf(session, d)[d]]
      BY <1>1, <2>4, <2>7, <3>1, ReleaseOK DEF Released
    <3>3. session'.inTx /\ ~session'.aborted
      BY <1>1, <2>4, <3>1 DEF Sessions, Released
    <3>4. Lost' = FALSE /\ d - 1 > 0 /\ d # 1
      BY <1>1, <2>7, <3>3 DEF Lost
    <3>7. Levels' = [SubSeq(Levels, 1, d - 1) EXCEPT ![d - 1] = @ \cup Levels[d]]
      BY <2>2, <3>2, LevelsAre
    <3>5. NT!End
      BY <2>4, <2>5, <2>10, <3>1, <3>4, <3>7 DEF NT!End, NT!Depth, NT!Outer
    <3>6. QED
      BY <1>1, <1>3, <1>9, <2>4, <3>1, <3>2, <3>3, <3>4, <3>5, MethodReturns
  <2>8. QED
    BY <1>1, <2>9, <2>6, <2>7
<1>10. QED
  BY <1>2, <1>8, <1>9 DEF Method

(* A new session, with what else the step changes.                         *)
LEMMA FreshKeeps ==
  ASSUME SqlInv, dialect' = dialect, session' = Fresh, stored' \subseteq Rows,
         connected' \in BOOLEAN, up' \in BOOLEAN, failed' \in BOOLEAN,
         transactiondepth' \in 0..MaxDepth, ClientOK'
  PROVE  SqlInv'
<1>1. transactiondepth' \in Nat
  BY SqlAssumption
<1>2. SessionOK(session', transactiondepth')
  BY <1>1, FreshOK
<1>3. SessionOK(session, transactiondepth)'
  BY <1>2 DEF SessionOK
<1>4. QED
  BY <1>3 DEF SqlInv

(* A rollback of everything.                                               *)
LEMMA AllRolledBack ==
  ASSUME SqlInv, session' = Fresh, transactiondepth' = 0, stored' = stored
  PROVE  IF transactiondepth = 0 THEN UNCHANGED NT!nvars ELSE NT!CancelComplete
<1>1. transactiondepth \in Nat /\ SessionOK(session, transactiondepth)
  BY SqlAssumption DEF SqlInv
<1>2. Levels' = << >> /\ Lost' = FALSE
  BY DEF Levels, Lost
<1>3. CASE transactiondepth = 0
  <2>1. session = Fresh
    BY <1>3, DepthZero
  <2>2. QED
    BY <1>3, <2>1, SameLevels
<1>4. CASE transactiondepth > 0
  <2>1. Len(Levels) = transactiondepth
    BY <1>1, LevelsAre, LevelsSeq
  <2>2. NT!Depth > 0
    BY <1>4, <2>1 DEF NT!Depth
  <2>3. NT!CancelComplete
    BY <1>2, <2>2 DEF NT!CancelComplete
  <2>4. QED
    BY <1>4, <2>3
<1>5. QED
  BY <1>1, <1>3, <1>4

(* What cancelTransaction does.                                            *)
LEMMA CancelKeeps ==
  ASSUME Premises, SqlInv, cancelTransaction
  PROVE  SqlInv' /\ (NT!Cancel \/ NoEffect)
<1> DEFINE d == transactiondepth
<1>1. /\ d \in Nat /\ d \in 0..MaxDepth /\ SessionOK(session, d) /\ stored \subseteq Rows
      /\ session \in Sessions /\ session.inTx \in BOOLEAN /\ MaxDepth \in Nat
  BY SqlAssumption DEF SqlInv, SessionOK, Sessions
<1>2. PICK q : /\ q = IF d = 1 THEN <<"ROLLBACK", 0>> ELSE <<"ROLLBACK TO", d - 1>>
               /\ Method(q, d - 1)
  <2>1. CASE d = 1
    <3>1. Method(<<"ROLLBACK", 0>>, 0) /\ d - 1 = 0
      BY <2>1 DEF cancelTransaction
    <3>2. QED
      BY <2>1, <3>1
  <2>2. CASE d # 1
    BY <2>2 DEF cancelTransaction
  <2>3. QED
    BY <2>1, <2>2
<1>3. q[1] \in Statements
  BY <1>2 DEF Statements
<1>4. ASSUME NEW a \in Successes(q, session, stored)
      PROVE  /\ a.stored = stored
             /\ d = 1 => a.session = Fresh
             /\ d # 1 => /\ Named(session, d - 1) # {}
                         /\ a.session = RolledBackTo(session, d - 1)
  <2>1. CASE d = 1
    <3>1. a \in Successes(<<"ROLLBACK", 0>>, session, stored)
      BY <1>2, <2>1
    <3>2. QED
      BY <2>1, <3>1, RollbackIs
  <2>2. CASE d # 1
    <3>1. a \in Successes(RollbackTo(d - 1), session, stored)
      BY <1>2, <2>2 DEF RollbackTo
    <3>2. /\ Named(session, d - 1) # {} /\ a.session = RolledBackTo(session, d - 1)
          /\ a.stored = stored
      BY <3>1, RollbackToIs
    <3>3. QED
      BY <2>2, <3>2
  <2>3. QED
    BY <2>1, <2>2
<1>5. CASE Exec(q, FALSE) /\ failed' = (d > 0) /\ UNCHANGED transactiondepth
  <2>1. CarriedOut(q) => session' = Fresh
    <3>1. d # 1 => q[1] \notin ThrowsAfter
      BY <1>2 DEF Premises
    <3>2. QED
      BY <1>4, <3>1 DEF CarriedOut
  <2>2. QED
    BY <1>3, <1>4, <1>5, <2>1, MethodThrows
<1>6. CASE Exec(q, TRUE) /\ transactiondepth' = d - 1 /\ failed' = FALSE
  <2>1. /\ connected /\ up
        /\ \E a \in Successes(q, session, stored) : session' = a.session /\ stored' = a.stored
    BY <1>3, <1>6, ExecReturns
  <2>2. stored' = stored
    BY <1>4, <2>1
  <2>3. d # 1 => session # Fresh
    <3>1. d # 1 => Named(session, d - 1) # {}
      BY <1>4, <2>1
    <3>2. QED
      BY <3>1 DEF Named, Fresh
  <2>4. d > 0 /\ d - 1 \in 0..MaxDepth /\ d - 1 \in Nat
    <3>1. d # 0
      BY <2>3, DepthZero
    <3>2. QED
      BY <1>1, <3>1
  <2>5. Len(Levels) = d /\ NT!Depth = d
    BY <1>1, LevelsAre, LevelsSeq DEF NT!Depth
  <2>6. CASE d = 1
    <3>1. session' = Fresh
      BY <1>4, <2>1, <2>6
    <3>2. SessionOK(session', d - 1) /\ ~session'.inTx /\ ~session'.aborted
      BY <2>4, <3>1, FreshOK DEF Fresh
    <3>3. Levels' = << >> /\ Lost' = FALSE
      BY <1>6, <2>6 DEF Levels, Lost
    <3>4. NT!Outer = << >>
      BY <2>5, <2>6 DEF NT!Outer
    <3>5. NT!Cancel
      <4>1. NT!Depth > 0 /\ Levels' = NT!Outer /\ Lost' = FALSE /\ ~(NT!Depth > 1)
        BY <2>5, <2>6, <3>3, <3>4
      <4>2. QED
        BY <2>2, <4>1 DEF NT!Cancel
    <3>6. SessionOK(session', transactiondepth') /\ ~(transactiondepth' > 0)
      BY <1>6, <2>6, <3>2
    <3>7. QED
      BY <1>1, <1>3, <1>6, <2>2, <2>4, <3>2, <3>5, <3>6, MethodReturns
  <2>7. CASE d > 1
    <3>1. session' = RolledBackTo(session, d - 1)
      <4>1. d # 1
        BY <2>7
      <4>2. QED
        BY <1>4, <2>1, <4>1
    <3>2. session.inTx
      BY <1>1, <2>3, <2>7 DEF SessionOK
    <3>3. /\ SessionOK(session', d - 1)
          /\ LevelsOf(session', d - 1) = SubSeq(LevelsOf(session, d), 1, d - 1)
      BY <1>1, <2>7, <3>1, <3>2, RollbackToOK DEF RolledBackTo
    <3>4. session'.inTx /\ ~session'.aborted
      BY <1>1, <3>1, <3>2 DEF Sessions, RolledBackTo
    <3>5. Lost = FALSE /\ Lost' = FALSE /\ d - 1 > 0
      BY <1>1, <2>7, <3>2, <3>4 DEF Lost
    <3>6. Levels' = NT!Outer
      <4>1. Levels' = LevelsOf(session', d - 1)
        BY <1>6 DEF Levels, LevelsOf, Base, BaseOf
      <4>2. NT!Outer = SubSeq(Levels, 1, d - 1)
        BY <2>5 DEF NT!Outer
      <4>3. QED
        BY <3>3, <4>1, <4>2, LevelsAre
    <3>7. NT!Cancel
      <4>1. NT!Depth > 0
        BY <2>4, <2>5
      <4>2. Lost' = (Lost /\ NT!Depth > 1)
        BY <3>5
      <4>3. QED
        BY <2>2, <3>6, <4>1, <4>2 DEF NT!Cancel
    <3>8. QED
      BY <1>1, <1>3, <1>6, <2>2, <2>4, <3>3, <3>4, <3>5, <3>7, MethodReturns
  <2>8. QED
    BY <1>1, <2>4, <2>6, <2>7
<1>7. QED
  BY <1>2, <1>5, <1>6 DEF Method

(* What cancelTransactionComplete does.                                    *)
LEMMA CancelCompleteKeeps ==
  ASSUME Premises, SqlInv, cancelTransactionComplete
  PROVE  SqlInv' /\ (NT!CancelComplete \/ NoEffect)
<1> DEFINE d == transactiondepth
<1>1. d \in Nat /\ stored \subseteq Rows /\ MaxDepth \in Nat
  BY SqlAssumption DEF SqlInv
<1>2. PICK q : q = <<"ROLLBACK", 0>> /\ Method(q, 0)
  BY DEF cancelTransactionComplete
<1>3. q[1] \in Statements
  BY <1>2 DEF Statements
<1>4. ASSUME NEW a \in Successes(q, session, stored)
      PROVE  a.session = Fresh /\ a.stored = stored
  BY <1>2, RollbackIs
<1>5. CASE Exec(q, FALSE) /\ failed' = (d > 0) /\ UNCHANGED transactiondepth
  <2>1. CarriedOut(q) => session' = Fresh
    BY <1>4 DEF CarriedOut
  <2>2. QED
    BY <1>3, <1>4, <1>5, <2>1, MethodThrows
<1>6. CASE Exec(q, TRUE) /\ transactiondepth' = 0 /\ failed' = FALSE
  <2>1. session' = Fresh /\ stored' = stored
    BY <1>3, <1>4, <1>6, ExecReturns
  <2>2. SessionOK(session', transactiondepth') /\ ~session'.inTx /\ ~session'.aborted
    BY <1>6, <2>1, FreshOK DEF Fresh
  <2>3. transactiondepth' \in 0..MaxDepth /\ ~(transactiondepth' > 0)
    BY <1>1, <1>6
  <2>4. SqlInv'
    BY <1>1, <1>3, <1>6, <2>1, <2>2, <2>3, MethodReturns
  <2>5. QED
    BY <1>6, <2>1, <2>4, AllRolledBack DEF NoEffect
<1>7. QED
  BY <1>2, <1>5, <1>6 DEF Method

(* What insert does: outside of all brackets it stores the row, also when  *)
(* the answer is lost.                                                     *)
LEMMA InsertKeeps ==
  ASSUME Premises, SqlInv, NEW r \in Rows, insert(r)
  PROVE  SqlInv' /\ (NT!Write(r) \/ NoEffect)
<1> DEFINE d == transactiondepth
<1>1. /\ d \in Nat /\ d \in 0..MaxDepth /\ SessionOK(session, d) /\ stored \subseteq Rows
      /\ session \in Sessions /\ ~failed /\ r \notin session.work
  BY SqlAssumption DEF SqlInv, SessionOK, insert
<1>2. PICK q : q = <<"INSERT", r>> /\ Method(q, d)
  BY DEF insert
<1>3. q[1] \in Statements
  BY <1>2 DEF Statements
<1>4. ASSUME NEW a \in Successes(q, session, stored)
      PROVE  /\ session.inTx => a.session = Wrote(session, r) /\ a.stored = stored
             /\ ~session.inTx => a.session = session /\ a.stored = stored \cup {r}
  BY <1>1, <1>2, InsertIs
<1>5. up => (d > 0 <=> session.inTx) /\ ~session.aborted
  BY <1>1 DEF SqlInv, ClientOK
<1>6. CASE d = 0
  <2>1. session = Fresh /\ ~session.inTx
    BY <1>6, DepthZero
  <2>2. /\ dialect' = dialect /\ connected' \in BOOLEAN /\ up' \in BOOLEAN
        /\ ~connected' => ~up'
        /\ connected' /\ ~up' => dialect' = "PostgreSQL"
        /\ session' = Fresh /\ stored' \in {stored, stored \cup {r}}
        /\ transactiondepth' = 0 /\ failed' = FALSE
    <3>1. CASE Exec(q, TRUE) /\ transactiondepth' = d /\ failed' = FALSE
      <4>1. /\ connected' = TRUE /\ up' = TRUE /\ dialect' = dialect
            /\ \E a \in Successes(q, session, stored) : session' = a.session /\ stored' = a.stored
        BY <1>3, <3>1, ExecReturns
      <4>2. session' = Fresh /\ stored' = stored \cup {r}
        BY <1>4, <2>1, <4>1
      <4>3. QED
        BY <1>6, <3>1, <4>1, <4>2
    <3>2. CASE Exec(q, FALSE) /\ failed' = (d > 0) /\ UNCHANGED transactiondepth
      <4>1. /\ dialect' = dialect /\ connected' \in BOOLEAN /\ up' \in BOOLEAN
            /\ ~connected' => ~up'
            /\ connected' /\ ~up' => dialect = "PostgreSQL"
            /\ \/ session' \in {session, Fresh} /\ stored' = stored
               \/ session.inTx /\ session' = Aborted(session) /\ stored' = stored
               \/ /\ session' = Fresh
                  /\ \E a \in Successes(q, session, stored) : stored' = a.stored
               \/ \E a \in Successes(q, session, stored) :
                    session' = a.session /\ stored' = a.stored
        BY <1>3, <3>2, ExecThrows DEF CarriedOut
      <4>2. session' = Fresh /\ stored' \in {stored, stored \cup {r}}
        BY <1>4, <2>1, <4>1
      <4>3. transactiondepth' = 0 /\ failed' = FALSE
        <5>1. ~(d > 0)
          BY <1>6
        <5>2. (d > 0) = FALSE
          BY <5>1
        <5>3. QED
          BY <1>6, <3>2, <5>2
      <4>4. connected' /\ ~up' => dialect' = "PostgreSQL"
        BY <4>1
      <4>5. QED
        BY <4>1, <4>2, <4>3, <4>4
    <3>3. QED
      BY <1>2, <3>1, <3>2 DEF Method
  <2>3. ClientOK'
    BY <2>2 DEF ClientOK, Fresh
  <2>4. SqlInv'
    BY <1>1, <1>6, <2>2, <2>3, FreshKeeps
  <2>5. CASE stored' = stored
    BY <1>6, <2>1, <2>2, <2>4, <2>5, SameLevels DEF NoEffect
  <2>6. CASE stored' = stored \cup {r}
    <3>1. Levels = << >> /\ Levels' = << >> /\ Lost = FALSE /\ Lost' = FALSE
      BY <1>6, <2>2 DEF Levels, Lost
    <3>2. NT!Depth = 0
      BY <3>1 DEF NT!Depth
    <3>3. NT!Write(r)
      BY <2>6, <3>1, <3>2 DEF NT!Write
    <3>4. QED
      BY <2>4, <3>3
  <2>7. QED
    BY <2>2, <2>5, <2>6
<1>7. CASE d > 0
  <2>1. ASSUME session.inTx, ~session.aborted, transactiondepth' = d,
               session' = Wrote(session, r), stored' = stored
        PROVE  SessionOK(session', d) /\ session'.inTx /\ ~session'.aborted /\ NT!Write(r)
    <3>4. /\ SessionOK(session', d)
          /\ LevelsOf(session', d) = [LevelsOf(session, d) EXCEPT ![d] = @ \cup {r}]
      BY <1>1, <1>7, <2>1, InsertOK DEF Wrote
    <3>5. session'.inTx /\ ~session'.aborted
      BY <1>1, <2>1 DEF Sessions, Wrote
    <3>6. Lost = FALSE /\ Lost' = FALSE
      BY <2>1, <3>5 DEF Lost
    <3>7. Levels' = LevelsOf(session', d)
      BY <2>1 DEF Levels, LevelsOf, Base, BaseOf
    <3>8. Levels' = [Levels EXCEPT ![d] = @ \cup {r}]
      BY <3>4, <3>7, LevelsAre
    <3>9. NT!Depth = d
      BY <1>1, LevelsAre, LevelsSeq DEF NT!Depth
    <3>10. NT!Write(r)
      <4>1. Levels' = [Levels EXCEPT ![NT!Depth] = @ \cup {r}]
        BY <3>8, <3>9
      <4>2. NT!Depth # 0
        BY <1>7, <3>9
      <4>4. ~Lost /\ UNCHANGED Lost
        BY <3>6
      <4>3. QED
        BY <2>1, <4>1, <4>2, <4>4 DEF NT!Write
    <3>11. QED
      BY <3>4, <3>5, <3>10
  <2>2. CASE Exec(q, TRUE) /\ transactiondepth' = d /\ failed' = FALSE
    <3>1. /\ connected /\ up
          /\ \E a \in Successes(q, session, stored) : session' = a.session /\ stored' = a.stored
      BY <1>3, <2>2, ExecReturns
    <3>2. session.inTx /\ ~session.aborted
      BY <1>5, <1>7, <3>1
    <3>3. session' = Wrote(session, r) /\ stored' = stored
      BY <1>4, <3>1, <3>2
    <3>4. SessionOK(session', d) /\ session'.inTx /\ ~session'.aborted /\ NT!Write(r)
      BY <2>1, <2>2, <3>2, <3>3
    <3>5. SqlInv'
      BY <1>1, <1>3, <1>7, <2>2, <3>3, <3>4, MethodReturns
    <3>6. QED
      BY <3>4, <3>5
  <2>3. CASE Exec(q, FALSE) /\ failed' = (d > 0) /\ UNCHANGED transactiondepth
    <3>1. CASE CarriedOut(q)
      <4>1. session.inTx /\ ~session.aborted
        BY <1>5, <1>7, <3>1 DEF CarriedOut
      <4>2. session' = Wrote(session, r) /\ stored' = stored
        BY <1>4, <3>1, <4>1 DEF CarriedOut
      <4>3. SessionOK(session', d) /\ NT!Write(r)
        BY <2>1, <2>3, <4>1, <4>2
      <4>4. dialect' = dialect /\ failed' = TRUE
        BY <1>7, <2>3 DEF Exec
      <4>5. SqlInv'
        BY <1>7, <2>3, <3>1, <4>2, <4>3, <4>4, MethodCarriedOut DEF CarriedOut
      <4>6. QED
        BY <4>3, <4>5
    <3>2. CASE ~CarriedOut(q)
      BY <1>3, <1>4, <1>5, <1>7, <2>3, <3>2, MethodThrows
    <3>3. QED
      BY <3>1, <3>2
  <2>4. QED
    BY <1>2, <2>2, <2>3 DEF Method
<1>8. QED
  BY <1>1, <1>6, <1>7

(* A new session takes no part in what the client counts.                  *)
LEMMA SessionLost ==
  ASSUME SqlInv, session' = Fresh, transactiondepth' = transactiondepth, stored' = stored
  PROVE  NoEffect
<1>1. transactiondepth \in Nat
  BY SqlAssumption DEF SqlInv
<1>2. CASE transactiondepth = 0
  <2>1. session = Fresh
    BY <1>2, DepthZero
  <2>2. QED
    BY <2>1, SameLevels DEF NoEffect
<1>3. CASE transactiondepth > 0
  BY <1>3, Dropped DEF NoEffect
<1>4. QED
  BY <1>1, <1>2, <1>3

LEMMA ReconnectKeeps ==
  ASSUME SqlInv, reconnect
  PROVE  SqlInv' /\ NoEffect
<1>1. /\ dialect' = dialect /\ transactiondepth' = transactiondepth /\ failed' = failed
      /\ stored' = stored /\ session' = Fresh /\ up' = connected' /\ connected' \in BOOLEAN
      /\ failed \/ transactiondepth = 0
  BY DEF reconnect
<1>2. /\ transactiondepth \in 0..MaxDepth /\ transactiondepth \in Nat /\ stored \subseteq Rows
      /\ failed \in BOOLEAN
  BY SqlAssumption DEF SqlInv
<1>3. ClientOK'
  BY <1>1, <1>2 DEF SqlInv, ClientOK, Fresh
<1>4. SqlInv'
  BY <1>1, <1>2, <1>3, FreshKeeps
<1>5. QED
  BY <1>1, <1>4, SessionLost

LEMMA SelectDBKeeps ==
  ASSUME SqlInv, selectDB
  PROVE  SqlInv' /\ (NT!CancelComplete \/ NoEffect)
<1>1. /\ dialect' = dialect /\ transactiondepth' = 0 /\ failed' = FALSE /\ connected' = TRUE
      /\ stored' = stored /\ session' = Fresh /\ up' = TRUE
  BY DEF selectDB, SqlInv
<1>2. stored \subseteq Rows /\ 0 \in 0..MaxDepth
  BY SqlAssumption DEF SqlInv
<1>3. ClientOK'
  BY <1>1 DEF ClientOK, Fresh
<1>4. SqlInv'
  BY <1>1, <1>2, <1>3, FreshKeeps
<1>5. QED
  BY <1>1, <1>4, AllRolledBack DEF NoEffect

LEMMA LoseKeeps ==
  ASSUME Premises, SqlInv, Lose
  PROVE  SqlInv' /\ NoEffect
<1>1. /\ dialect' = dialect /\ transactiondepth' = transactiondepth /\ failed' = failed
      /\ connected' = connected /\ stored' = stored /\ session' = Fresh /\ up' = FALSE
      /\ dialect \in Lossy
  BY DEF Lose, client
<1>2. /\ transactiondepth \in 0..MaxDepth /\ stored \subseteq Rows
      /\ failed \in BOOLEAN /\ connected \in BOOLEAN
  BY DEF SqlInv
<1>3. dialect = "PostgreSQL"
  BY <1>1, SqlAssumption DEF Premises
<1>4. ClientOK'
  BY <1>1, <1>2, <1>3 DEF SqlInv, ClientOK
<1>5. SqlInv'
  BY <1>1, <1>2, <1>4, FreshKeeps
<1>6. QED
  BY <1>1, <1>5, SessionLost

-----------------------------------------------------------------------------
(* The specification.                                                      *)

LEMMA InitInv ==
  ASSUME Init
  PROVE  SqlInv /\ NT!Init
<1>1. SessionOK(session, 0) /\ 0 \in 0..MaxDepth
  BY SqlAssumption, FreshOK DEF Init
<1>2. ClientOK
  BY DEF Init, ClientOK, Fresh
<1>3. SqlInv
  BY <1>1, <1>2 DEF Init, SqlInv
<1>4. Levels = << >> /\ Lost = FALSE
  BY DEF Init, Levels, Lost
<1>5. QED
  BY <1>3, <1>4 DEF Init, NT!Init

LEMMA Stutters ==
  ASSUME SqlInv, UNCHANGED vars
  PROVE  SqlInv' /\ UNCHANGED NT!nvars
<1>1. /\ dialect' = dialect /\ connected' = connected /\ failed' = failed /\ up' = up
      /\ transactiondepth' = transactiondepth /\ session' = session /\ stored' = stored
  BY DEF vars, client, server
<1>2. SessionOK(session, transactiondepth)'
  BY <1>1 DEF SqlInv, SessionOK
<1>3. ClientOK'
  BY <1>1 DEF SqlInv, ClientOK
<1>4. QED
  BY <1>1, <1>2, <1>3, SameLevels DEF SqlInv

(* Every step keeps the invariant and is one of the brackets, of the       *)
(* database that drops them, or a CommitUnanswered.                        *)
LEMMA StepKeeps ==
  ASSUME Premises, SqlInv, [Next]_vars
  PROVE  /\ SqlInv'
         /\ [NT!Next \/ CommitUnanswered]_NT!nvars
         /\ startTransaction => NT!Begin \/ NoEffect
         /\ endTransaction => NT!End \/ NoEffect \/ CommitUnanswered
         /\ cancelTransaction => NT!Cancel \/ NoEffect
         /\ cancelTransactionComplete => NT!CancelComplete \/ NoEffect
         /\ \A r \in Rows : insert(r) => NT!Write(r) \/ NoEffect
<1>1. NoEffect => [NT!Next \/ CommitUnanswered]_NT!nvars
  BY DEF NoEffect, NT!Next
<1>2. ASSUME startTransaction
      PROVE  SqlInv' /\ (NT!Begin \/ NoEffect)
  BY <1>2, StartKeeps
<1>3. ASSUME endTransaction
      PROVE  SqlInv' /\ (NT!End \/ NoEffect \/ CommitUnanswered)
  BY <1>3, EndKeeps
<1>4. ASSUME cancelTransaction
      PROVE  SqlInv' /\ (NT!Cancel \/ NoEffect)
  BY <1>4, CancelKeeps
<1>5. ASSUME cancelTransactionComplete
      PROVE  SqlInv' /\ (NT!CancelComplete \/ NoEffect)
  BY <1>5, CancelCompleteKeeps
<1>6. ASSUME NEW r \in Rows, insert(r)
      PROVE  SqlInv' /\ (NT!Write(r) \/ NoEffect)
  BY <1>6, InsertKeeps
<1>7. ASSUME reconnect
      PROVE  SqlInv' /\ NoEffect
  BY <1>7, ReconnectKeeps
<1>8. ASSUME selectDB
      PROVE  SqlInv' /\ (NT!CancelComplete \/ NoEffect)
  BY <1>8, SelectDBKeeps
<1>9. ASSUME Lose
      PROVE  SqlInv' /\ NoEffect
  BY <1>9, LoseKeeps
<1>10. ASSUME UNCHANGED vars
       PROVE  SqlInv' /\ [NT!Next \/ CommitUnanswered]_NT!nvars
  BY <1>10, Stutters
<1>11. SqlInv' /\ [NT!Next \/ CommitUnanswered]_NT!nvars
  <2>1. CASE startTransaction
    BY <1>1, <1>2, <2>1 DEF NT!Next
  <2>2. CASE endTransaction
    BY <1>1, <1>3, <2>2 DEF NT!Next
  <2>3. CASE cancelTransaction
    BY <1>1, <1>4, <2>3 DEF NT!Next
  <2>4. CASE cancelTransactionComplete
    BY <1>1, <1>5, <2>4 DEF NT!Next
  <2>5. CASE \E r \in Rows : insert(r)
    BY <1>1, <1>6, <2>5 DEF NT!Next
  <2>6. CASE reconnect
    BY <1>1, <1>7, <2>6
  <2>7. CASE selectDB
    BY <1>1, <1>8, <2>7 DEF NT!Next
  <2>8. CASE Lose
    BY <1>1, <1>9, <2>8
  <2>9. CASE UNCHANGED vars
    BY <1>10, <2>9
  <2>10. QED
    BY <2>1, <2>2, <2>3, <2>4, <2>5, <2>6, <2>7, <2>8, <2>9 DEF Next
<1>12. QED
  BY <1>2, <1>3, <1>4, <1>5, <1>6, <1>11

(* The client and the session agree, in every state.                       *)
THEOREM SqlInvariant == Premises /\ Spec => []SqlInv
<1> SUFFICES ASSUME Premises
             PROVE  Spec => []SqlInv
  OBVIOUS
<1>1. Init => SqlInv
  BY InitInv
<1>2. SqlInv /\ [Next]_vars => SqlInv'
  BY StepKeeps
<1>3. QED
  BY <1>1, <1>2, PTL DEF Spec

(* The brackets the client counts are those open on the server, with their *)
(* savepoints in order (startTransaction to cancelTransactionComplete of   *)
(* the three classes).                                                     *)
THEOREM LevelsAreOnServerHolds == Premises /\ Spec => []LevelsAreOnServer
<1> SUFFICES ASSUME Premises
             PROVE  Spec => []LevelsAreOnServer
  OBVIOUS
<1>1. SqlInv => LevelsAreOnServer
  <2> SUFFICES ASSUME SqlInv, connected, up, ~failed
               PROVE  /\ transactiondepth > 0 <=> session.inTx
                      /\ ~session.aborted
                      /\ \A n \in 1..transactiondepth - 1 : Named(session, n) # {}
                      /\ \A n \in 1..transactiondepth - 2 :
                           Latest(session, n) < Latest(session, n + 1)
    BY DEF LevelsAreOnServer
  <2>1. /\ transactiondepth \in Nat /\ (transactiondepth > 0 <=> session.inTx)
        /\ ~session.aborted
    BY SqlAssumption DEF SqlInv, ClientOK
  <2>2. transactiondepth > 0 => Chained(session, transactiondepth)
    BY <2>1 DEF SqlInv, SessionOK
  <2>3. ASSUME NEW n \in 1..transactiondepth - 1
        PROVE  Named(session, n) # {}
    <3>1. transactiondepth > 0
      BY <2>1
    <3>2. QED
      BY <2>2, <3>1 DEF Chained, IsLatest
  <2>4. ASSUME NEW n \in 1..transactiondepth - 2
        PROVE  Latest(session, n) < Latest(session, n + 1)
    <3>1. /\ transactiondepth > 0 /\ n \in 1..transactiondepth - 1
          /\ n + 1 \in 1..transactiondepth - 1 /\ n < n + 1
      BY <2>1
    <3>2. QED
      BY <2>2, <3>1 DEF Chained
  <2>5. QED
    BY <2>1, <2>3, <2>4
<1>2. QED
  BY <1>1, SqlInvariant, PTL

(* The methods are the brackets of NestedTransaction (the notes of         *)
(* Database.cpp): an end and a cancel concern what was written since the   *)
(* matching start, and the outermost end stores all of it or nothing.      *)
THEOREM ImplementsNestingHolds == Premises /\ Spec => ImplementsNesting
<1> SUFFICES ASSUME Premises
             PROVE  Spec => NT!Init /\ [][NT!Next \/ CommitUnanswered]_NT!nvars
  BY DEF ImplementsNesting
<1>1. Init => NT!Init
  BY InitInv
<1>2. SqlInv /\ [Next]_vars => [NT!Next \/ CommitUnanswered]_NT!nvars
  BY StepKeeps
<1>3. Spec => []SqlInv
  BY SqlInvariant
<1>4. QED
  BY <1>1, <1>2, <1>3, PTL DEF Spec

(* Each method does its own part: a cancel never keeps what an end would,  *)
(* nor does an end drop it (endTransaction, cancelTransaction,             *)
(* cancelTransactionComplete and exec of the three classes).               *)
THEOREM MethodsKeepPromisesHolds == Premises /\ Spec => MethodsKeepPromises
<1> SUFFICES ASSUME Premises
             PROVE  Spec => MethodsKeepPromises
  OBVIOUS
<1> DEFINE Promises ==
      /\ startTransaction => NT!Begin \/ NoEffect
      /\ endTransaction => NT!End \/ NoEffect \/ CommitUnanswered
      /\ cancelTransaction => NT!Cancel \/ NoEffect
      /\ cancelTransactionComplete => NT!CancelComplete \/ NoEffect
      /\ \A r \in Rows : insert(r) => NT!Write(r) \/ NoEffect
<1>1. SqlInv /\ [Next]_vars => [Promises]_vars
  BY StepKeeps
<1>2. Spec => []SqlInv
  BY SqlInvariant
<1> HIDE DEF Promises
<1>3. Spec => [][Promises]_vars
  BY <1>1, <1>2, PTL DEF Spec
<1>4. QED
  BY <1>3 DEF MethodsKeepPromises, Promises

=============================================================================
