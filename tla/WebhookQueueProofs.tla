------------------------- MODULE WebhookQueueProofs -------------------------
(***************************************************************************)
(* Proofs about WebhookQueue, for any number of events, stores, loops,     *)
(* replays and stops: its types, the refinement of Delivery, and the bound *)
(* on how often a receiver gets an event.                                  *)
(***************************************************************************)
EXTENDS WebhookQueue, FiniteSetTheorems, SequenceTheorems, TLAPS

------------------------------------------------------------------------------
(* Sequences without repetition                                            *)

Once(s) == \A i, j \in DOMAIN s : s[i] = s[j] => i = j

\* A place taken out of such a sequence takes its element with it.
LEMMA RemovalTakesOut ==
    ASSUME NEW S, NEW s \in Seq(S), Once(s), NEW i \in DOMAIN s
    PROVE  /\ RemoveAt(s, i) \in Seq(S)
           /\ Once(RemoveAt(s, i))
           /\ \A x : Contains(RemoveAt(s, i), x) <=> Contains(s, x) /\ x /= s[i]
<1> DEFINE n == Len(s)
           a == SubSeq(s, 1, i - 1)
           b == SubSeq(s, i + 1, n)
           r == RemoveAt(s, i)
<1>1. n \in Nat /\ DOMAIN s = 1..n /\ i \in 1..n
  BY LenProperties
<1>2. \A k \in 1..n : s[k] \in S
  BY <1>1, ElementOfSeq
<1>3. a \in Seq(S) /\ Len(a) = i - 1 /\ \A k \in 1..(i - 1) : a[k] = s[k]
  <2>1. /\ SubSeq(s, 1, i - 1) \in Seq(S)
        /\ Len(SubSeq(s, 1, i - 1)) = IF 1 <= i - 1 THEN i - 1 - 1 + 1 ELSE 0
        /\ \A k \in 1..(i - 1 - 1 + 1) : SubSeq(s, 1, i - 1)[k] = s[1 + k - 1]
    <3>1. \A k \in 1..(i - 1) : s[k] \in S
      BY <1>1, <1>2
    <3> QED BY <1>1, <3>1, SubSeqProperties
  <2> QED BY <1>1, <2>1
<1>4. b \in Seq(S) /\ Len(b) = n - i /\ \A k \in 1..(n - i) : b[k] = s[k + i]
  <2>1. /\ SubSeq(s, i + 1, n) \in Seq(S)
        /\ Len(SubSeq(s, i + 1, n)) = IF i + 1 <= n THEN n - (i + 1) + 1 ELSE 0
        /\ \A k \in 1..(n - (i + 1) + 1) : SubSeq(s, i + 1, n)[k] = s[(i + 1) + k - 1]
    <3>1. \A k \in (i + 1)..n : s[k] \in S
      BY <1>1, <1>2
    <3> QED BY <1>1, <3>1, SubSeqProperties
  <2> QED BY <1>1, <2>1
<1>5. r = a \o b
  BY DEF RemoveAt
<1>6. r \in Seq(S) /\ Len(r) = n - 1
  <2> HIDE DEF a, b, r
  <2>1. a \o b \in Seq(S) /\ Len(a \o b) = Len(a) + Len(b)
    BY <1>3, <1>4, ConcatProperties
  <2> QED BY <1>1, <1>3, <1>4, <1>5, <2>1
<1>7. \A k \in 1..(n - 1) : r[k] = s[IF k < i THEN k ELSE k + 1]
  <2> TAKE k \in 1..(n - 1)
  <2> HIDE DEF a, b, r
  <2>1. r[k] = IF k <= Len(a) THEN a[k] ELSE b[k - Len(a)]
    BY <1>1, <1>3, <1>4, <1>5, ConcatProperties
  <2>2. CASE k < i
    BY <1>1, <1>3, <2>1, <2>2
  <2>3. CASE k >= i
    <3>1. k - (i - 1) \in 1..(n - i) /\ ~(k < i) /\ ~(k <= i - 1)
      BY <1>1, <2>3
    <3>2. r[k] = b[k - (i - 1)]
      BY <1>3, <2>1, <3>1
    <3>3. b[k - (i - 1)] = s[k - (i - 1) + i] /\ k - (i - 1) + i = k + 1
      BY <1>1, <1>4, <3>1
    <3> QED BY <3>1, <3>2, <3>3
  <2> QED BY <1>1, <2>2, <2>3
<1>8. DOMAIN r = 1..(n - 1)
  <2> HIDE DEF r, n
  <2> QED BY <1>6, LenProperties
<1>9. Once(r)
  <2> HIDE DEF r, n
  <2> SUFFICES ASSUME NEW j \in 1..(n - 1), NEW k \in 1..(n - 1), r[j] = r[k]
               PROVE  j = k
    BY <1>8 DEF Once
  <2>1. (IF j < i THEN j ELSE j + 1) \in DOMAIN s /\ (IF k < i THEN k ELSE k + 1) \in DOMAIN s
    BY <1>1
  <2>2. (IF j < i THEN j ELSE j + 1) = (IF k < i THEN k ELSE k + 1)
    BY <1>7, <2>1 DEF Once
  <2> QED BY <1>1, <2>2
<1>10. \A x : Contains(r, x) <=> Contains(s, x) /\ x /= s[i]
  <2> HIDE DEF r
  <2> TAKE x
  <2>1. ASSUME Contains(r, x) PROVE Contains(s, x) /\ x /= s[i]
    <3>1. PICK k \in 1..(n - 1) : r[k] = x
      BY <1>6, <2>1 DEF Contains
    <3>2. CASE k < i
      <4>1. x = s[k] /\ k \in 1..n /\ k /= i
        BY <1>1, <1>7, <3>1, <3>2
      <4> QED BY <1>1, <4>1 DEF Contains, Once
    <3>3. CASE k >= i
      <4>1. x = s[k + 1] /\ k + 1 \in 1..n /\ k + 1 /= i
        BY <1>1, <1>7, <3>1, <3>3
      <4> QED BY <1>1, <4>1 DEF Contains, Once
    <3> QED BY <1>1, <3>2, <3>3
  <2>2. ASSUME Contains(s, x), x /= s[i] PROVE Contains(r, x)
    <3>1. PICK k \in 1..n : s[k] = x
      BY <2>2 DEF Contains
    <3>2. CASE k < i
      <4>1. k \in 1..(n - 1) /\ r[k] = x
        BY <1>1, <1>7, <3>1, <3>2
      <4> QED BY <1>6, <4>1 DEF Contains
    <3>3. CASE k > i
      <4>1. k - 1 \in 1..(n - 1) /\ r[k - 1] = x
        BY <1>1, <1>7, <3>1, <3>3
      <4> QED BY <1>6, <4>1 DEF Contains
    <3> QED BY <1>1, <2>2, <3>1, <3>2, <3>3
  <2> QED BY <2>1, <2>2
<1> QED BY <1>6, <1>9, <1>10

\* Two such sequences without a common element, one behind the other.
LEMMA LinesJoin ==
    ASSUME NEW S, NEW s \in Seq(S), NEW t \in Seq(S), Once(s), Once(t),
           \A x : ~(Contains(s, x) /\ Contains(t, x))
    PROVE  /\ s \o t \in Seq(S)
           /\ Once(s \o t)
           /\ \A x : Contains(s \o t, x) <=> Contains(s, x) \/ Contains(t, x)
<1> DEFINE n == Len(s)  m == Len(t)  r == s \o t
<1>1. n \in Nat /\ m \in Nat /\ DOMAIN s = 1..n /\ DOMAIN t = 1..m
  BY LenProperties
<1>2. /\ r \in Seq(S) /\ Len(r) = n + m
      /\ \A i \in 1..(n + m) : r[i] = IF i <= n THEN s[i] ELSE t[i - n]
  BY ConcatProperties
<1>3. DOMAIN r = 1..(n + m)
  BY <1>2, LenProperties
<1> HIDE DEF n, m, r
<1>4. \A x : Contains(s, x) <=> \E i \in 1..n : s[i] = x
  BY DEF Contains, n
<1>5. \A x : Contains(t, x) <=> \E i \in 1..m : t[i] = x
  BY DEF Contains, m
<1>6. \A i \in 1..n : i \in 1..(n + m) /\ r[i] = s[i]
  BY <1>1, <1>2
<1>7. \A i \in 1..m : i + n \in 1..(n + m) /\ r[i + n] = t[i]
  <2> TAKE i \in 1..m
  <2>1. i + n \in 1..(n + m) /\ ~(i + n <= n) /\ i + n - n = i
    BY <1>1
  <2>2. PICK k \in 1..(n + m) : k = i + n
    BY <2>1
  <2>3. ~(k <= n) /\ k - n = i
    BY <1>1, <2>1, <2>2
  <2>4. r[k] = t[k - n]
    BY <1>2, <2>3
  <2> QED BY <2>1, <2>2, <2>3, <2>4
<1>8. \A i \in 1..(n + m) : i \in 1..n \/ (i - n \in 1..m /\ r[i] = t[i - n])
  BY <1>1, <1>2
<1>9. \A x : Contains(r, x) <=> Contains(s, x) \/ Contains(t, x)
  <2> TAKE x
  <2>1. Contains(r, x) <=> \E i \in 1..(n + m) : r[i] = x
    BY <1>2 DEF Contains
  <2> QED BY <1>4, <1>5, <1>6, <1>7, <1>8, <2>1
<1>10. Once(r)
  <2> SUFFICES ASSUME NEW i \in 1..(n + m), NEW j \in 1..(n + m), r[i] = r[j] PROVE i = j
    BY <1>3 DEF Once
  <2>1. CASE i \in 1..n /\ j \in 1..n
    BY <1>1, <1>6, <2>1 DEF Once
  <2>2. CASE i \in 1..n /\ j \notin 1..n
    BY <1>4, <1>5, <1>6, <1>8, <2>2
  <2>3. CASE i \notin 1..n /\ j \in 1..n
    BY <1>4, <1>5, <1>6, <1>8, <2>3
  <2>4. CASE i \notin 1..n /\ j \notin 1..n
    <3>1. i - n \in 1..m /\ j - n \in 1..m /\ t[i - n] = t[j - n]
      BY <1>8, <2>4
    <3>2. i - n = j - n
      BY <1>1, <3>1 DEF Once
    <3> QED BY <1>1, <3>2
  <2> QED BY <2>1, <2>2, <2>3, <2>4
<1> QED BY <1>2, <1>9, <1>10 DEF r

------------------------------------------------------------------------------
(* Rows                                                                    *)

\* A column of the table, and a row more.
LEMMA ColumnIsSeq ==
    ASSUME NEW T, NEW n \in Nat, NEW f \in [1..n -> T]
    PROVE  f \in Seq(T) /\ Len(f) = n
OBVIOUS

RowTypes ==
    /\ event \in Seq(Events) /\ Len(event) <= MaxRows
    /\ status \in [Rows -> {"pending", "delivered"}]
    /\ attempts \in [Rows -> Nat]
    /\ wait \in [Rows -> Nat]
    /\ accepted \in [Rows -> Nat]
    /\ unrecorded \in [Rows -> Nat]

LineTypes ==
    /\ due \in Seq(Rows)
    /\ Once(due)
    /\ \A d \in Rows : (status[d] = "pending" /\ wait[d] = 0) <=> Contains(due, d)

LoopTypes ==
    loop \in [Loops -> {Resting} \cup
                [at : {"posting", "accepted", "refused"}, batch : Seq(Jobs)]]

BoundTypes == config \in Configurations /\ {stops, restarts} \subseteq Nat

LEMMA TypeParts == TypeOK <=> RowTypes /\ LineTypes /\ LoopTypes /\ BoundTypes
BY DEF TypeOK, RowTypes, LineTypes, LoopTypes, BoundTypes, Once

LEMMA RowsNumbered ==
    ASSUME RowTypes
    PROVE  /\ Len(event) \in Nat /\ Rows = 1..Len(event)
           /\ MaxRows \in Nat /\ Rows \subseteq 1..MaxRows
<1>1. Len(event) \in Nat /\ Rows = 1..Len(event)
  BY LenProperties DEF RowTypes, Rows
<1>2. MaxRows \in Nat
  BY QueueAssumption, FS_CardinalityType DEF MaxRows
<1> QED BY <1>1, <1>2 DEF RowTypes

LEMMA EnqueueTypes ==
    ASSUME RowTypes, LineTypes, NEW e \in Events, Enqueue(e), Len(event) < MaxRows
    PROVE  /\ RowTypes' /\ LineTypes'
           /\ Len(event') = Len(event) + 1 /\ Rows' = 1..(Len(event) + 1)
           /\ \A d \in Rows :
                 /\ event'[d] = event[d] /\ status'[d] = status[d]
                 /\ accepted'[d] = accepted[d] /\ unrecorded'[d] = unrecorded[d]
           /\ LET d == Len(event) + 1
              IN /\ event'[d] = e /\ status'[d] = "pending"
                 /\ accepted'[d] = 0 /\ unrecorded'[d] = 0
<1> DEFINE n == Len(event)
<1>1. n \in Nat /\ Rows = 1..n /\ MaxRows \in Nat
  BY RowsNumbered
<1>2. /\ event' = Append(event, e)
      /\ status' = Append(status, "pending")
      /\ attempts' = Append(attempts, 0)
      /\ wait' = Append(wait, 0)
      /\ due' = Append(due, n + 1)
      /\ accepted' = Append(accepted, 0)
      /\ unrecorded' = Append(unrecorded, 0)
  BY DEF Enqueue
<1>3. /\ event' \in Seq(Events) /\ Len(event') = n + 1
      /\ \A d \in 1..n : event'[d] = event[d]
      /\ event'[n + 1] = e
  BY <1>1, <1>2, AppendProperties DEF RowTypes
<1>4. Rows' = 1..(n + 1)
  BY <1>3, LenProperties DEF Rows
<1> HIDE DEF n
<1>5. /\ status' \in [1..(n + 1) -> {"pending", "delivered"}]
      /\ \A d \in 1..n : status'[d] = status[d]
      /\ status'[n + 1] = "pending"
  <2>1. status \in [1..n -> {"pending", "delivered"}]
    BY <1>1 DEF RowTypes
  <2>2. status \in Seq({"pending", "delivered"}) /\ Len(status) = n
    BY <1>1, <2>1, ColumnIsSeq
  <2>3. /\ status' \in Seq({"pending", "delivered"}) /\ Len(status') = n + 1
        /\ \A d \in 1..n : status'[d] = status[d]
        /\ status'[n + 1] = "pending"
    <3>1. status' = Append(status, "pending") /\ "pending" \in {"pending", "delivered"}
      BY <1>2
    <3> QED BY <2>2, <3>1, AppendProperties
  <2> QED BY <2>3, LenProperties
<1>6. attempts' \in [1..(n + 1) -> Nat]
  <2>1. attempts \in [1..n -> Nat]
    BY <1>1 DEF RowTypes
  <2>2. attempts \in Seq(Nat) /\ Len(attempts) = n
    BY <1>1, <2>1, ColumnIsSeq
  <2>3. /\ attempts' \in Seq(Nat) /\ Len(attempts') = n + 1
        /\ \A d \in 1..n : attempts'[d] = attempts[d]
        /\ attempts'[n + 1] = 0
    <3>1. attempts' = Append(attempts, 0) /\ 0 \in Nat
      BY <1>2
    <3> QED BY <2>2, <3>1, AppendProperties
  <2> QED BY <2>3, LenProperties
<1>7. /\ wait' \in [1..(n + 1) -> Nat]
      /\ \A d \in 1..n : wait'[d] = wait[d]
      /\ wait'[n + 1] = 0
  <2>1. wait \in [1..n -> Nat]
    BY <1>1 DEF RowTypes
  <2>2. wait \in Seq(Nat) /\ Len(wait) = n
    BY <1>1, <2>1, ColumnIsSeq
  <2>3. /\ wait' \in Seq(Nat) /\ Len(wait') = n + 1
        /\ \A d \in 1..n : wait'[d] = wait[d]
        /\ wait'[n + 1] = 0
    <3>1. wait' = Append(wait, 0) /\ 0 \in Nat
      BY <1>2
    <3> QED BY <2>2, <3>1, AppendProperties
  <2> QED BY <2>3, LenProperties
<1>8. /\ accepted' \in [1..(n + 1) -> Nat]
      /\ \A d \in 1..n : accepted'[d] = accepted[d]
      /\ accepted'[n + 1] = 0
  <2>1. accepted \in [1..n -> Nat]
    BY <1>1 DEF RowTypes
  <2>2. accepted \in Seq(Nat) /\ Len(accepted) = n
    BY <1>1, <2>1, ColumnIsSeq
  <2>3. /\ accepted' \in Seq(Nat) /\ Len(accepted') = n + 1
        /\ \A d \in 1..n : accepted'[d] = accepted[d]
        /\ accepted'[n + 1] = 0
    <3>1. accepted' = Append(accepted, 0) /\ 0 \in Nat
      BY <1>2
    <3> QED BY <2>2, <3>1, AppendProperties
  <2> QED BY <2>3, LenProperties
<1>9. /\ unrecorded' \in [1..(n + 1) -> Nat]
      /\ \A d \in 1..n : unrecorded'[d] = unrecorded[d]
      /\ unrecorded'[n + 1] = 0
  <2>1. unrecorded \in [1..n -> Nat]
    BY <1>1 DEF RowTypes
  <2>2. unrecorded \in Seq(Nat) /\ Len(unrecorded) = n
    BY <1>1, <2>1, ColumnIsSeq
  <2>3. /\ unrecorded' \in Seq(Nat) /\ Len(unrecorded') = n + 1
        /\ \A d \in 1..n : unrecorded'[d] = unrecorded[d]
        /\ unrecorded'[n + 1] = 0
    <3>1. unrecorded' = Append(unrecorded, 0) /\ 0 \in Nat
      BY <1>2
    <3> QED BY <2>2, <3>1, AppendProperties
  <2> QED BY <2>3, LenProperties
<1>10. n + 1 <= MaxRows /\ MaxRows' = MaxRows
  BY <1>1 DEF n, MaxRows
<1>11. RowTypes'
  BY <1>3, <1>4, <1>5, <1>6, <1>7, <1>8, <1>9, <1>10 DEF RowTypes
<1>12. due \in Seq(1..n) /\ due \in Seq(1..(n + 1)) /\ n + 1 \in 1..(n + 1)
  <2>1. due \in Seq(1..n)
    BY <1>1 DEF LineTypes
  <2>2. 1..n \subseteq 1..(n + 1) /\ n + 1 \in 1..(n + 1)
    BY <1>1
  <2> QED BY <2>1, <2>2, SeqMonotonic
<1>13. /\ due' = due \o <<n + 1>>
       /\ <<n + 1>> \in Seq(1..(n + 1)) /\ Once(<<n + 1>>)
       /\ \A x : Contains(<<n + 1>>, x) <=> x = n + 1
  <2>1. Append(due, n + 1) = due \o <<n + 1>>
    BY <1>12, AppendIsConcat
  <2>2. /\ <<n + 1>> \in Seq(1..(n + 1)) /\ Len(<<n + 1>>) = 1
        /\ <<n + 1>>[1] = n + 1 /\ DOMAIN <<n + 1>> = 1..1
    BY <1>12
  <2>3. \A x : Contains(<<n + 1>>, x) <=> x = n + 1
    BY <2>2 DEF Contains
  <2>4. Once(<<n + 1>>)
    BY DEF Once
  <2> QED BY <1>2, <2>1, <2>2, <2>3, <2>4, Zenon
<1>14. ~Contains(due, n + 1)
  <2> SUFFICES ASSUME Contains(due, n + 1) PROVE FALSE
    OBVIOUS
  <2>1. PICK i \in 1..Len(due) : due[i] = n + 1
    BY DEF Contains
  <2>2. due[i] \in 1..n
    BY <1>12, <2>1, LenProperties
  <2> QED BY <1>1, <2>1, <2>2
<1>15. /\ due' \in Seq(1..(n + 1)) /\ Once(due')
       /\ \A x : Contains(due', x) <=> Contains(due, x) \/ x = n + 1
  <2>1. \A x : ~(Contains(due, x) /\ Contains(<<n + 1>>, x))
    BY <1>13, <1>14
  <2>2. Once(due)
    BY DEF LineTypes
  <2> DEFINE t == <<n + 1>>
  <2>3. /\ due \o t \in Seq(1..(n + 1)) /\ Once(due \o t)
        /\ \A x : Contains(due \o t, x) <=> Contains(due, x) \/ Contains(t, x)
    <3> HIDE DEF t
    <3>1. t \in Seq(1..(n + 1)) /\ Once(t) /\ \A x : ~(Contains(due, x) /\ Contains(t, x))
      BY <1>13, <2>1 DEF t
    <3> QED BY <1>12, <2>2, <3>1, LinesJoin
  <2> QED BY <1>13, <2>3
<1>16. \A d \in 1..(n + 1) : (status'[d] = "pending" /\ wait'[d] = 0) <=> Contains(due', d)
  <2> TAKE d \in 1..(n + 1)
  <2>1. CASE d \in 1..n
    <3>1. (status[d] = "pending" /\ wait[d] = 0) <=> Contains(due, d)
      BY <1>1, <2>1 DEF LineTypes
    <3>2. d /= n + 1
      BY <1>1, <2>1
    <3> QED BY <1>5, <1>7, <1>15, <2>1, <3>1, <3>2
  <2>2. CASE d = n + 1
    BY <1>5, <1>7, <1>15, <2>2
  <2> QED BY <1>1, <2>1, <2>2
<1>17. LineTypes'
  BY <1>4, <1>15, <1>16 DEF LineTypes, Once, Contains
<1> QED BY <1>1, <1>3, <1>4, <1>5, <1>8, <1>9, <1>11, <1>17 DEF n

LEMMA LeaveLineTakesOut ==
    ASSUME LineTypes, NEW d, LeaveLine(d)
    PROVE  /\ due' \in Seq(Rows)
           /\ Once(due')
           /\ \A x : Contains(due', x) <=> Contains(due, x) /\ x /= d
<1>1. due \in Seq(Rows) /\ Once(due)
  BY DEF LineTypes
<1>2. CASE ~Contains(due, d) /\ due' = due
  <2>1. \A x : Contains(due', x) <=> Contains(due, x)
    BY <1>2 DEF Contains
  <2> QED BY <1>1, <1>2, <2>1
<1>3. ASSUME NEW i \in DOMAIN due, due[i] = d, due' = RemoveAt(due, i)
      PROVE  /\ due' \in Seq(Rows)
             /\ Once(due')
             /\ \A x : Contains(due', x) <=> Contains(due, x) /\ x /= d
  <2> DEFINE r == RemoveAt(due, i)
  <2>1. /\ r \in Seq(Rows) /\ Once(r)
        /\ \A x : Contains(r, x) <=> Contains(due, x) /\ x /= due[i]
    BY <1>1, RemovalTakesOut
  <2> HIDE DEF r
  <2>2. due' = r
    BY <1>3 DEF r
  <2> QED BY <1>3, <2>1, <2>2, Zenon
<1> QED BY <1>2, <1>3 DEF LeaveLine

LEMMA DelaysArePositive ==
    ASSUME NEW n \in Nat
    PROVE  RetryDelay(n) \in Nat \ {0} /\ CountedAttempts(n) \in Nat
<1> DEFINE m == IF n = 0 THEN 0 ELSE n - 1
           k == IF m > MaxExponent THEN MaxExponent ELSE m
<1>1. MaxExponent \in Nat
  BY QueueAssumption
<1>2. k \in 0..MaxExponent
  BY <1>1
<1>3. 2 ^ k > 0 /\ 2 ^ k \in Int
  BY <1>2, QueueAssumption
<1>4. RetryDelay(n) = 2 ^ k
  BY DEF RetryDelay
<1>5. CountedAttempts(n) \in Nat
  BY <1>1 DEF CountedAttempts
<1> HIDE DEF k
<1> QED BY <1>3, <1>4, <1>5

LEMMA MarkTypes ==
    ASSUME RowTypes, LineTypes, NEW d \in Rows, UNCHANGED <<accepted, unrecorded>>,
           NEW n \in Nat, MarkDelivered(d) \/ MarkFailed(d, n)
    PROVE  /\ RowTypes' /\ LineTypes' /\ event' = event
           /\ status' = IF MarkDelivered(d) THEN [status EXCEPT ![d] = "delivered"] ELSE status
<1>1. /\ due' \in Seq(Rows) /\ Once(due')
      /\ \A x : Contains(due', x) <=> Contains(due, x) /\ x /= d
  BY LeaveLineTakesOut DEF MarkDelivered, MarkFailed
<1>2. event' = event /\ Rows' = Rows /\ MaxRows' = MaxRows
  BY DEF MarkDelivered, MarkFailed, Rows, MaxRows
<1>3. CASE MarkDelivered(d)
  <2>1. status' = [status EXCEPT ![d] = "delivered"] /\ attempts' = attempts /\ wait' = wait
    BY <1>3 DEF MarkDelivered
  <2>2. RowTypes'
    BY <1>2, <2>1 DEF RowTypes
  <2>3. \A x \in Rows : (status'[x] = "pending" /\ wait'[x] = 0) <=> Contains(due', x)
    BY <1>1, <2>1 DEF RowTypes, LineTypes
  <2> QED BY <1>1, <1>2, <1>3, <2>1, <2>2, <2>3 DEF LineTypes, Once, Contains
<1>4. CASE ~MarkDelivered(d)
  <2>1. /\ attempts' = [attempts EXCEPT ![d] = CountedAttempts(n)]
        /\ wait' = [wait EXCEPT ![d] = RetryDelay(n)]
        /\ status' = status
    BY <1>4 DEF MarkFailed
  <2>2. RetryDelay(n) \in Nat /\ RetryDelay(n) /= 0 /\ CountedAttempts(n) \in Nat
    BY DelaysArePositive
  <2>3. RowTypes'
    BY <1>2, <2>1, <2>2 DEF RowTypes
  <2>4. \A x \in Rows : (status'[x] = "pending" /\ wait'[x] = 0) <=> Contains(due', x)
    BY <1>1, <2>1, <2>2 DEF RowTypes, LineTypes
  <2> QED BY <1>1, <1>2, <1>4, <2>1, <2>3, <2>4 DEF LineTypes, Once, Contains
<1> QED BY <1>3, <1>4

LEMMA TickTypes ==
    ASSUME RowTypes, LineTypes, Tick
    PROVE  RowTypes' /\ LineTypes'
<1> DEFINE falling == {d \in Rows : wait[d] = 1 /\ status[d] = "pending"}
<1>1. Rows' = Rows /\ MaxRows' = MaxRows
  BY DEF Tick, Rows, MaxRows
<1>2. wait' = [d \in Rows |-> IF wait[d] > 0 THEN wait[d] - 1 ELSE 0]
  BY DEF Tick
<1>3. RowTypes'
  BY <1>1, <1>2 DEF Tick, RowTypes
<1>4. IsFiniteSet(falling) /\ Cardinality(falling) \in Nat
  <2>1. IsFiniteSet(Rows)
    BY RowsNumbered, FS_Interval
  <2> QED BY <2>1, FS_Subset, FS_CardinalityType
<1>5. PICK line \in Bijection(1..Cardinality(falling), falling) : due' = due \o line
  BY DEF Tick
<1> DEFINE c == Cardinality(falling)
<1>6. /\ line \in [1..c -> falling]
      /\ \A i, j \in 1..c : line[i] = line[j] => i = j
      /\ \A d \in falling : \E i \in 1..c : line[i] = d
  BY <1>5 DEF Bijection, Injection, Surjection, IsInjective
<1>7. c \in Nat /\ falling \subseteq Rows
  BY <1>4
<1>8. \A d \in Rows : (status'[d] = "pending" /\ wait'[d] = 0) <=>
          (status[d] = "pending" /\ wait[d] = 0) \/ d \in falling
  BY <1>2 DEF Tick, RowTypes
<1>9. \A d \in falling : wait[d] = 1
  OBVIOUS
<1> HIDE DEF c, falling
<1>10. line \in Seq(Rows) /\ Len(line) = c /\ DOMAIN line = 1..c
  BY <1>6, <1>7
<1>11. Once(line) /\ \A x : Contains(line, x) <=> x \in falling
  BY <1>6, <1>10 DEF Once, Contains
<1>12. \A x : ~(Contains(due, x) /\ Contains(line, x))
  BY <1>7, <1>9, <1>11 DEF LineTypes
<1>13. /\ due' \in Seq(Rows) /\ Once(due')
       /\ \A x : Contains(due', x) <=> Contains(due, x) \/ Contains(line, x)
  <2>1. due \in Seq(Rows) /\ Once(due)
    BY DEF LineTypes
  <2> DEFINE r == due \o line
  <2>2. r \in Seq(Rows) /\ Once(r) /\ \A x : Contains(r, x) <=> Contains(due, x) \/ Contains(line, x)
    BY <1>10, <1>11, <1>12, <2>1, LinesJoin
  <2> HIDE DEF r
  <2>3. due' = r
    BY <1>5 DEF r
  <2> QED BY <2>2, <2>3
<1>14. \A d \in Rows : (status'[d] = "pending" /\ wait'[d] = 0) <=> Contains(due', d)
  BY <1>8, <1>11, <1>13 DEF LineTypes
<1> QED BY <1>1, <1>3, <1>13, <1>14 DEF LineTypes, Once, Contains

------------------------------------------------------------------------------
(* Loops                                                                   *)

\* What a loop may still post, and a row whose acceptance it has yet to store.
Holds(l, d) ==
    /\ loop[l] /= Resting
    /\ \E i \in DOMAIN loop[l].batch :
          loop[l].batch[i].id = d /\ (i = 1 => loop[l].at = "posting")

Awaits(l, d) == loop[l].at = "accepted" /\ loop[l].batch[1].id = d

\* A batch is never empty and names no row twice.
BatchOK(l) ==
    loop[l] /= Resting =>
        /\ loop[l].batch /= <<>>
        /\ \A i, j \in DOMAIN loop[l].batch :
              loop[l].batch[i].id = loop[l].batch[j].id => i = j

BatchesOK == \A l \in Loops : BatchOK(l)

LEMMA BusyLoop ==
    ASSUME LoopTypes, NEW l \in Loops, BatchOK(l), loop[l] /= Resting
    PROVE  /\ loop[l].at \in {"posting", "accepted", "refused"}
           /\ loop[l].batch \in Seq(Jobs) /\ loop[l].batch /= <<>>
           /\ Job1(l) = loop[l].batch[1] /\ Job1(l) \in Jobs
           /\ 1 \in DOMAIN loop[l].batch
           /\ loop[l] = [at |-> loop[l].at, batch |-> loop[l].batch]
<1>1. /\ loop[l].at \in {"posting", "accepted", "refused"}
      /\ loop[l].batch \in Seq(Jobs)
      /\ loop[l] = [at |-> loop[l].at, batch |-> loop[l].batch]
  BY DEF LoopTypes
<1>2. loop[l].batch /= <<>>
  BY DEF BatchOK
<1> DEFINE b == loop[l].batch
<1> HIDE DEF b
<1>3. b \in Seq(Jobs) /\ b /= <<>>
  BY <1>1, <1>2 DEF b
<1>4. Head(b) = b[1] /\ Head(b) \in Jobs /\ 1 \in DOMAIN b
  BY <1>3
<1> QED BY <1>1, <1>2, <1>4 DEF b, Job1

LEMMA AtIsBusy ==
    ASSUME NEW l, loop[l].at \in {"posting", "accepted", "refused"}
    PROVE  loop[l] /= Resting
BY DEF Resting

\* A loop that rests holds nothing.
LEMMA RestingHoldsNothing ==
    ASSUME NEW l, loop[l] = Resting
    PROVE  BatchOK(l) /\ \A d : ~Holds(l, d) /\ ~Awaits(l, d)
BY DEF Resting, BatchOK, Holds, Awaits

\* The pass goes on to the rest of its batch.
LEMMA PassGoesOn ==
    ASSUME LoopTypes, NEW l \in Loops, BatchOK(l), loop[l] /= Resting,
           NextJob(l, Tail(loop[l].batch)), Rows' = Rows
    PROVE  /\ LoopTypes' /\ BatchOK(l)'
           /\ \A k \in Loops \ {l} : loop'[k] = loop[k]
           /\ \A d : Holds(l, d)' <=> Holds(l, d) /\ (loop[l].at = "posting" => d /= Job1(l).id)
           /\ \A d : ~Awaits(l, d)'
<1> DEFINE b == loop[l].batch
           t == Tail(b)
           next == IF t = <<>> THEN Resting ELSE [at |-> "posting", batch |-> t]
<1>1. /\ loop[l].at \in {"posting", "accepted", "refused"}
      /\ b \in Seq(Jobs) /\ b /= <<>> /\ Job1(l) = b[1] /\ 1 \in DOMAIN b
  BY BusyLoop
<1>2. loop' = [loop EXCEPT ![l] = next]
  BY DEF NextJob
<1>3. \A i, j \in DOMAIN b : b[i].id = b[j].id => i = j
  BY DEF BatchOK
<1>4. Jobs' = Jobs
  BY DEF Jobs
<1> HIDE DEF b
<1>5. /\ t \in Seq(Jobs) /\ Len(t) \in Nat /\ Len(b) = Len(t) + 1
      /\ DOMAIN t = 1..Len(t) /\ DOMAIN b = 1..(Len(t) + 1)
      /\ \A i \in 1..Len(t) : t[i] = b[i + 1]
  <2>1. t \in Seq(Jobs) /\ Len(t) = Len(b) - 1 /\ \A i \in 1..Len(t) : t[i] = b[i + 1]
    BY <1>1, HeadTailProperties
  <2>2. Len(b) \in Nat /\ DOMAIN b = 1..Len(b) /\ DOMAIN t = 1..Len(t) /\ Len(t) \in Nat
    BY <1>1, <2>1, LenProperties
  <2> QED BY <2>1, <2>2
<1> HIDE DEF t
<1>6. next \in {Resting} \cup [at : {"posting", "accepted", "refused"}, batch : Seq(Jobs)]
  BY <1>5
<1>7. LoopTypes'
  BY <1>2, <1>4, <1>6 DEF LoopTypes, Resting
<1>8. loop'[l] = next /\ \A k \in Loops \ {l} : loop'[k] = loop[k]
  BY <1>2 DEF LoopTypes
<1>9. \A i \in 1..Len(t) : i \in DOMAIN t /\ i + 1 \in DOMAIN b /\ i + 1 /= 1 /\ t[i] = b[i + 1]
  BY <1>5
<1>10. \A i \in DOMAIN b : i = 1 \/ (i - 1 \in DOMAIN t /\ t[i - 1] = b[i])
  <2> TAKE i \in DOMAIN b
  <2>1. i = 1 \/ (i - 1 \in 1..Len(t) /\ (i - 1) + 1 = i)
    BY <1>5
  <2>2. CASE i - 1 \in 1..Len(t) /\ (i - 1) + 1 = i
    <3>1. PICK k \in 1..Len(t) : k = i - 1 /\ k + 1 = i
      BY <2>2
    <3>2. t[k] = b[k + 1]
      BY <1>5
    <3> QED BY <1>5, <3>1, <3>2
  <2> QED BY <2>1, <2>2
<1>11. \A i, j \in DOMAIN t : t[i].id = t[j].id => i = j
  <2> SUFFICES ASSUME NEW i \in 1..Len(t), NEW j \in 1..Len(t), t[i].id = t[j].id
               PROVE  i = j
    BY <1>5
  <2>1. i + 1 = j + 1
    BY <1>3, <1>9
  <2> QED BY <1>5, <2>1
<1>12. CASE t = <<>>
  <2>1. loop'[l] = Resting
    BY <1>8, <1>12
  <2>2. Resting' = Resting
    BY DEF Resting
  <2>3. BatchOK(l)' /\ \A d : ~Holds(l, d)' /\ ~Awaits(l, d)'
    BY <2>1 DEF BatchOK, Holds, Awaits, Resting
  <2>4. \A d : ~(Holds(l, d) /\ (loop[l].at = "posting" => d /= Job1(l).id))
    <3>1. DOMAIN b = 1..1
      BY <1>5, <1>12
    <3>2. \A i \in DOMAIN b : i = 1
      BY <3>1
    <3> QED BY <1>1, <3>2 DEF Holds, b
  <2> QED BY <1>7, <1>8, <2>3, <2>4
<1>13. CASE t /= <<>>
  <2>1. loop'[l] = [at |-> "posting", batch |-> t] /\ loop'[l] /= Resting
    BY <1>8, <1>13 DEF Resting
  <2>2. loop'[l].at = "posting" /\ loop'[l].batch = t
    BY <2>1
  <2>3. BatchOK(l)' /\ \A d : ~Awaits(l, d)'
    BY <1>11, <1>13, <2>2 DEF BatchOK, Awaits
  <2>4. \A d : Holds(l, d)' <=> \E i \in DOMAIN t : t[i].id = d
    BY <2>1, <2>2 DEF Holds, Resting
  <2>5. \A d : Holds(l, d) <=> \E i \in DOMAIN b : b[i].id = d /\ (i = 1 => loop[l].at = "posting")
    BY DEF Holds, b
  <2>6. ASSUME NEW d, NEW i \in DOMAIN t, t[i].id = d
        PROVE  Holds(l, d) /\ (loop[l].at = "posting" => d /= Job1(l).id)
    <3>1. i + 1 \in DOMAIN b /\ i + 1 /= 1 /\ b[i + 1].id = d
      BY <1>5, <1>9, <2>6
    <3> QED BY <1>1, <1>3, <2>5, <3>1
  <2>7. ASSUME NEW d, Holds(l, d), loop[l].at = "posting" => d /= Job1(l).id
        PROVE  \E i \in DOMAIN t : t[i].id = d
    <3>1. PICK i \in DOMAIN b : b[i].id = d /\ (i = 1 => loop[l].at = "posting")
      BY <2>5, <2>7
    <3>2. i /= 1
      BY <1>1, <2>7, <3>1
    <3> QED BY <1>10, <3>1, <3>2
  <2> QED BY <1>7, <1>8, <2>3, <2>4, <2>6, <2>7
<1> QED BY <1>12, <1>13

\* The receiver's answer, or the lack of one.
LEMMA AnswerIsKept ==
    ASSUME LoopTypes, NEW l \in Loops, BatchOK(l), Posting(l), Rows' = Rows,
           NEW answer \in {"accepted", "refused"}, Answer(l, answer)
    PROVE  /\ LoopTypes' /\ BatchOK(l)'
           /\ \A k \in Loops \ {l} : loop'[k] = loop[k]
           /\ \A d : Holds(l, d)' <=> Holds(l, d) /\ d /= Job1(l).id
           /\ Holds(l, Job1(l).id)
           /\ \A d : Awaits(l, d)' <=> answer = "accepted" /\ d = Job1(l).id
           /\ loop'[l].batch = loop[l].batch /\ loop'[l].at = answer
           /\ \A d : ~Awaits(l, d)
<1> DEFINE b == loop[l].batch
<1>0. loop[l].at = "posting" /\ loop[l] /= Resting
  BY AtIsBusy DEF Posting
<1>1. /\ b \in Seq(Jobs) /\ b /= <<>> /\ Job1(l) = b[1] /\ 1 \in DOMAIN b
      /\ loop[l] = [at |-> "posting", batch |-> b]
  BY <1>0, BusyLoop
<1>2. loop' = [loop EXCEPT ![l] = [at |-> answer, batch |-> b]]
  <2>1. loop' = [loop EXCEPT ![l] = [loop[l] EXCEPT !.at = answer]]
    BY DEF Answer, LoopTypes
  <2>2. [loop[l] EXCEPT !.at = answer] = [at |-> answer, batch |-> b]
    <3> HIDE DEF b
    <3> QED BY <1>1
  <2> QED BY <2>1, <2>2
<1>3. \A i, j \in DOMAIN b : b[i].id = b[j].id => i = j
  BY <1>0 DEF BatchOK
<1>4. Jobs' = Jobs
  BY DEF Jobs
<1>5. \A d : Holds(l, d) <=> \E i \in DOMAIN b : b[i].id = d
  BY <1>0 DEF Holds
<1> HIDE DEF b
<1>6. [at |-> answer, batch |-> b] \in [at : {"posting", "accepted", "refused"}, batch : Seq(Jobs)]
  BY <1>1
<1>7. LoopTypes'
  BY <1>2, <1>4, <1>6 DEF LoopTypes, Resting
<1>8. loop'[l] = [at |-> answer, batch |-> b] /\ \A k \in Loops \ {l} : loop'[k] = loop[k]
  BY <1>2 DEF LoopTypes
<1>9. loop'[l].at = answer /\ loop'[l].batch = b /\ loop'[l] /= Resting
  BY <1>8 DEF Resting
<1>10. BatchOK(l)'
  BY <1>1, <1>3, <1>9 DEF BatchOK, Resting
<1>11. \A d : Holds(l, d)' <=> \E i \in DOMAIN b : b[i].id = d /\ i /= 1
  BY <1>9 DEF Holds, Resting
<1>12. \A d : Awaits(l, d)' <=> answer = "accepted" /\ d = Job1(l).id
  BY <1>1, <1>9 DEF Awaits
<1>13. \A d : ~Awaits(l, d)
  BY <1>0 DEF Awaits
<1> QED BY <1>1, <1>3, <1>5, <1>7, <1>8, <1>9, <1>10, <1>11, <1>12, <1>13 DEF b

\* A pass ends.
LEMMA PassEnds ==
    ASSUME LoopTypes, NEW l \in Loops, loop' = [loop EXCEPT ![l] = Resting], Rows' = Rows
    PROVE  /\ LoopTypes' /\ BatchOK(l)'
           /\ \A k \in Loops \ {l} : loop'[k] = loop[k]
           /\ \A d : ~Holds(l, d)' /\ ~Awaits(l, d)'
<1>1. Jobs' = Jobs
  BY DEF Jobs
<1>2. LoopTypes'
  BY <1>1 DEF LoopTypes, Resting
<1>3. loop'[l] = Resting /\ \A k \in Loops \ {l} : loop'[k] = loop[k]
  BY DEF LoopTypes
<1> QED BY <1>2, <1>3 DEF BatchOK, Holds, Awaits, Resting

\* A pass begins with rows that are due, each once.
LEMMA PassBegins ==
    ASSUME RowTypes, LineTypes, LoopTypes, NEW l \in Loops, BeginPass(l)
    PROVE  /\ LoopTypes' /\ BatchOK(l)'
           /\ \A k \in Loops \ {l} : loop'[k] = loop[k]
           /\ \A d : Holds(l, d)' => Contains(due, d)
           /\ \A d : ~Awaits(l, d)' /\ ~Awaits(l, d)
<1> DEFINE c == IF Len(due) < BatchSize THEN Len(due) ELSE BatchSize
           ids == SubSeq(due, 1, c)
           b == [i \in DOMAIN ids |-> [id |-> ids[i], attempts |-> attempts[ids[i]]]]
<1>1. /\ loop[l] = Resting /\ due /= <<>>
      /\ loop' = [loop EXCEPT ![l] = IF b = <<>> THEN Resting ELSE [at |-> "posting", batch |-> b]]
  BY DEF BeginPass, NextJob
<1>2. Rows' = Rows /\ Jobs' = Jobs
  BY DEF BeginPass, rowVars, Rows, Jobs
<1>3. /\ due \in Seq(Rows) /\ Len(due) \in Nat \ {0} /\ DOMAIN due = 1..Len(due)
      /\ \A i \in 1..Len(due) : due[i] \in Rows
  BY <1>1, EmptySeq, LenProperties DEF LineTypes
<1>4. c \in 1..Len(due)
  BY <1>3, QueueAssumption
<1> HIDE DEF c
<1>5. /\ ids \in Seq(Rows) /\ Len(ids) = c /\ DOMAIN ids = 1..c
      /\ \A i \in 1..c : ids[i] = due[i]
  <2>1. \A i \in 1..c : due[i] \in Rows
    BY <1>3, <1>4
  <2>2. /\ ids \in Seq(Rows) /\ Len(ids) = (IF 1 <= c THEN c - 1 + 1 ELSE 0)
        /\ \A i \in 1..(c - 1 + 1) : ids[i] = due[1 + i - 1]
    BY <1>3, <1>4, <2>1, SubSeqProperties
  <2>3. DOMAIN ids = 1..Len(ids)
    BY <2>2, LenProperties
  <2> HIDE DEF ids
  <2> QED BY <1>3, <1>4, <2>2, <2>3
<1> HIDE DEF ids
<1>6. /\ b \in [1..c -> Jobs] /\ \A i \in 1..c : b[i].id = due[i]
  <2>1. \A i \in 1..c : due[i] \in Rows /\ attempts[due[i]] \in Nat
    BY <1>3, <1>4 DEF RowTypes
  <2> QED BY <1>5, <2>1 DEF Jobs
<1> HIDE DEF b
<1>7. b \in Seq(Jobs) /\ b /= <<>> /\ DOMAIN b = 1..c
  BY <1>3, <1>4, <1>6
<1>8. \A i, j \in DOMAIN b : b[i].id = b[j].id => i = j
  <2>1. \A i \in 1..c : i \in DOMAIN due
    BY <1>3, <1>4
  <2> QED BY <1>6, <1>7, <2>1 DEF LineTypes, Once
<1>9. loop' = [loop EXCEPT ![l] = [at |-> "posting", batch |-> b]]
  BY <1>1, <1>7
<1>10. LoopTypes'
  BY <1>2, <1>7, <1>9 DEF LoopTypes, Resting
<1>11. /\ loop'[l].at = "posting" /\ loop'[l].batch = b /\ loop'[l] /= Resting
       /\ \A k \in Loops \ {l} : loop'[k] = loop[k]
  BY <1>9 DEF LoopTypes, Resting
<1>12. BatchOK(l)'
  BY <1>7, <1>8, <1>11 DEF BatchOK, Resting
<1>13. \A d : ~Awaits(l, d)' /\ ~Awaits(l, d)
  BY <1>1, <1>11 DEF Awaits, Resting
<1>14. ASSUME NEW d, Holds(l, d)' PROVE Contains(due, d)
  <2>1. PICK i \in DOMAIN b : b[i].id = d
    BY <1>11, <1>14 DEF Holds
  <2>2. i \in 1..Len(due) /\ due[i] = d
    BY <1>3, <1>4, <1>6, <1>7, <2>1
  <2> QED BY <2>2 DEF Contains
<1> QED BY <1>10, <1>11, <1>12, <1>13, <1>14

------------------------------------------------------------------------------
(* Counting loops                                                          *)

Awaiting(d) == {l \in Loops : Awaits(l, d)}
Holding(d) == {l \in Loops : Holds(l, d)}

LEMMA LoopsAreFew ==
    /\ IsFiniteSet(Loops) /\ Cardinality(Loops) \in Nat
    /\ \A d : /\ IsFiniteSet(Awaiting(d)) /\ Cardinality(Awaiting(d)) \in Nat
             /\ IsFiniteSet(Holding(d)) /\ Cardinality(Holding(d)) \in Nat
<1>1. IsFiniteSet(Loops) /\ Cardinality(Loops) \in Nat
  BY QueueAssumption, FS_CardinalityType
<1>2. \A d : Awaiting(d) \in SUBSET Loops /\ Holding(d) \in SUBSET Loops
  BY DEF Awaiting, Holding
<1>3. \A T \in SUBSET Loops : IsFiniteSet(T) /\ Cardinality(T) \in Nat
  BY <1>1, FS_Subset, FS_CardinalityType
<1> QED BY <1>1, <1>2, <1>3

\* Sets that differ in one element.
LEMMA CountChanges ==
    ASSUME NEW S, NEW T, NEW x, IsFiniteSet(S), IsFiniteSet(T), S \ {x} = T \ {x}
    PROVE  /\ Cardinality(S) \in Nat /\ Cardinality(T) \in Nat
           /\ (x \in S <=> x \in T) => Cardinality(T) = Cardinality(S)
           /\ x \notin S /\ x \in T => Cardinality(T) = Cardinality(S) + 1
           /\ x \in S /\ x \notin T => Cardinality(T) = Cardinality(S) - 1
<1>1. Cardinality(S) \in Nat /\ Cardinality(T) \in Nat
  BY FS_CardinalityType
<1>2. Cardinality(S \ {x}) = IF x \in S THEN Cardinality(S) - 1 ELSE Cardinality(S)
  BY FS_RemoveElement
<1>3. Cardinality(T \ {x}) = IF x \in T THEN Cardinality(T) - 1 ELSE Cardinality(T)
  BY FS_RemoveElement
<1> QED BY <1>1, <1>2, <1>3

\* A step of one loop changes the counts by that loop only.
LEMMA OthersStay ==
    ASSUME NEW l \in Loops, \A k \in Loops \ {l} : loop'[k] = loop[k]
    PROVE  \A k \in Loops \ {l} :
              /\ BatchOK(k)' <=> BatchOK(k)
              /\ \A d : (Holds(k, d)' <=> Holds(k, d)) /\ (Awaits(k, d)' <=> Awaits(k, d))
BY DEF BatchOK, Holds, Awaits, Resting

LEMMA CountsMove ==
    ASSUME NEW l \in Loops, \A k \in Loops \ {l} : loop'[k] = loop[k], NEW d
    PROVE  LET a == Cardinality(Awaiting(d))
               h == Cardinality(Holding(d))
           IN /\ {a, a', h, h'} \subseteq Nat
              /\ (Awaits(l, d) <=> Awaits(l, d)') => a' = a
              /\ ~Awaits(l, d) /\ Awaits(l, d)' => a' = a + 1
              /\ Awaits(l, d) /\ ~Awaits(l, d)' => a' = a - 1
              /\ (Holds(l, d) <=> Holds(l, d)') => h' = h
              /\ Holds(l, d) /\ ~Holds(l, d)' => h' = h - 1
<1>1. PICK A, B, H, G : /\ A = Awaiting(d) /\ B = Awaiting(d)'
                         /\ H = Holding(d) /\ G = Holding(d)'
  OBVIOUS
<1>2. /\ A = {k \in Loops : Awaits(k, d)} /\ B = {k \in Loops : Awaits(k, d)'}
      /\ H = {k \in Loops : Holds(k, d)} /\ G = {k \in Loops : Holds(k, d)'}
  BY <1>1 DEF Awaiting, Holding
<1>3. IsFiniteSet(A) /\ IsFiniteSet(B) /\ IsFiniteSet(H) /\ IsFiniteSet(G)
  <2>1. \A T \in SUBSET Loops : IsFiniteSet(T)
    BY LoopsAreFew, FS_Subset
  <2> QED BY <1>2, <2>1
<1>4. \A k \in Loops \ {l} : (Holds(k, d)' <=> Holds(k, d)) /\ (Awaits(k, d)' <=> Awaits(k, d))
  BY OthersStay
<1>5. A \ {l} = B \ {l} /\ H \ {l} = G \ {l}
  BY <1>2, <1>4
<1>6. /\ l \in A <=> Awaits(l, d)
      /\ l \in B <=> Awaits(l, d)'
      /\ l \in H <=> Holds(l, d)
      /\ l \in G <=> Holds(l, d)'
  BY <1>2
<1>7. /\ Cardinality(Awaiting(d)) = Cardinality(A) /\ Cardinality(Awaiting(d))' = Cardinality(B)
      /\ Cardinality(Holding(d)) = Cardinality(H) /\ Cardinality(Holding(d))' = Cardinality(G)
  BY <1>1
<1>8. /\ Cardinality(A) \in Nat /\ Cardinality(B) \in Nat
      /\ (l \in A <=> l \in B) => Cardinality(B) = Cardinality(A)
      /\ l \notin A /\ l \in B => Cardinality(B) = Cardinality(A) + 1
      /\ l \in A /\ l \notin B => Cardinality(B) = Cardinality(A) - 1
  BY <1>3, <1>5, CountChanges
<1>9. /\ Cardinality(H) \in Nat /\ Cardinality(G) \in Nat
      /\ (l \in H <=> l \in G) => Cardinality(G) = Cardinality(H)
      /\ l \in H /\ l \notin G => Cardinality(G) = Cardinality(H) - 1
  BY <1>3, <1>5, CountChanges
<1> QED BY <1>6, <1>7, <1>8, <1>9

\* A loop that has yet to store an acceptance of a row does not post it again.
LEMMA LoopsApart ==
    ASSUME LoopTypes, BatchesOK, NEW d
    PROVE  Cardinality(Awaiting(d)) + Cardinality(Holding(d)) <= Cardinality(Loops)
<1> DEFINE A == Awaiting(d)
           H == Holding(d)
<1>1. A \cap H = {}
  <2> SUFFICES ASSUME NEW l \in Loops, Awaits(l, d), Holds(l, d) PROVE FALSE
    BY DEF Awaiting, Holding
  <2>1. loop[l].at = "accepted" /\ loop[l] /= Resting /\ BatchOK(l)
    BY DEF Awaits, Holds, BatchesOK
  <2>2. 1 \in DOMAIN loop[l].batch
    BY <2>1, BusyLoop
  <2>3. PICK i \in DOMAIN loop[l].batch : loop[l].batch[i].id = d /\ i /= 1
    BY <2>1 DEF Holds
  <2>4. loop[l].batch[1].id = d
    BY DEF Awaits
  <2> QED BY <2>1, <2>2, <2>3, <2>4 DEF BatchOK
<1>2. IsFiniteSet(A) /\ IsFiniteSet(H) /\ IsFiniteSet(Loops)
  BY LoopsAreFew
<1>3. A \cup H \in SUBSET Loops
  BY DEF Awaiting, Holding
<1>4. Cardinality(A \cup H) <= Cardinality(Loops)
  BY <1>2, <1>3, FS_Subset
<1> HIDE DEF A, H
<1>5. Cardinality(A \cup H) = Cardinality(A) + Cardinality(H) - Cardinality(A \cap H)
  BY <1>2, FS_Union
<1>6. Cardinality(A \cap H) = 0
  BY <1>1, FS_EmptySet
<1>7. Cardinality(A) \in Nat /\ Cardinality(H) \in Nat /\ Cardinality(Loops) \in Nat
  BY <1>2, FS_CardinalityType
<1> QED BY <1>4, <1>5, <1>6, <1>7 DEF A, H

------------------------------------------------------------------------------
(* The inductive invariant                                                 *)

\* As long as a row is pending every acceptance of it is lost or about to be
\* stored; once it is delivered no loop takes it up again.
OnceInv ==
    \A d \in Rows :
        /\ status[d] = "pending" => accepted[d] <= unrecorded[d] + Cardinality(Awaiting(d))
        /\ status[d] = "delivered" =>
              accepted[d] + Cardinality(Holding(d)) <= unrecorded[d] + Cardinality(Loops)

AcceptedInv ==
    /\ \A d \in Rows : status[d] = "delivered" => accepted[d] > 0
    /\ \A l \in Loops, d \in Rows : Awaits(l, d) => accepted[d] > 0

ReplaysInv == Len(event) <= Cardinality({event[d] : d \in Rows}) + MaxReplays

QueueInv ==
    /\ RowTypes /\ LineTypes /\ LoopTypes /\ BoundTypes
    /\ BatchesOK /\ OnceInv /\ AcceptedInv /\ ReplaysInv

------------------------------------------------------------------------------
(* Steps of a loop that leave the rows alone                               *)

\* What such a step of l may be to row d: nothing (its loop may take it up if it is
\* due, or drop it), an acceptance, one whose answer is lost, or one forgotten.
Passes(l, d) ==
    /\ accepted'[d] = accepted[d] /\ unrecorded'[d] = unrecorded[d]
    /\ Awaits(l, d)' <=> Awaits(l, d)
    /\ Holds(l, d)' => Holds(l, d) \/ Contains(due, d)

Accepts(l, d) ==
    /\ accepted'[d] = accepted[d] + 1 /\ unrecorded'[d] = unrecorded[d]
    /\ ~Awaits(l, d) /\ Awaits(l, d)' /\ Holds(l, d) /\ ~Holds(l, d)'

Loses(l, d) ==
    /\ accepted'[d] = accepted[d] + 1 /\ unrecorded'[d] = unrecorded[d] + 1
    /\ ~Awaits(l, d) /\ ~Awaits(l, d)' /\ (Holds(l, d)' => Holds(l, d))

Forgets(l, d) ==
    /\ accepted'[d] = accepted[d] /\ unrecorded'[d] = unrecorded[d] + 1
    /\ Awaits(l, d) /\ ~Awaits(l, d)' /\ (Holds(l, d)' => Holds(l, d))

LEMMA LoopStepKeepsInv ==
    ASSUME QueueInv, NEW l \in Loops, UNCHANGED rowVars,
           \A k \in Loops \ {l} : loop'[k] = loop[k],
           LoopTypes', BatchOK(l)', BoundTypes',
           accepted' \in [Rows -> Nat], unrecorded' \in [Rows -> Nat],
           \A d \in Rows : Passes(l, d) \/ Accepts(l, d) \/ Loses(l, d) \/ Forgets(l, d)
    PROVE  QueueInv'
<1>1. /\ event' = event /\ status' = status /\ attempts' = attempts
      /\ wait' = wait /\ due' = due
      /\ Rows' = Rows /\ MaxRows' = MaxRows
  BY DEF rowVars, Rows, MaxRows
<1>2. RowTypes' /\ LineTypes' /\ ReplaysInv'
  <2>1. RowTypes'
    BY <1>1 DEF QueueInv, RowTypes
  <2>2. LineTypes'
    BY <1>1 DEF QueueInv, LineTypes, Once, Contains
  <2>3. ReplaysInv'
    BY <1>1 DEF QueueInv, ReplaysInv
  <2> QED BY <2>1, <2>2, <2>3
<1>3. BatchesOK'
  BY OthersStay DEF QueueInv, BatchesOK
<1>4. \A k \in Loops \ {l} : \A d : (Holds(k, d)' <=> Holds(k, d)) /\ (Awaits(k, d)' <=> Awaits(k, d))
  BY OthersStay
<1>5. \A d \in Rows : accepted[d] \in Nat /\ unrecorded[d] \in Nat
  BY DEF QueueInv, RowTypes
<1>6. \A d \in Rows : accepted'[d] >= accepted[d]
  BY <1>5 DEF Passes, Accepts, Loses, Forgets
<1>7. AcceptedInv'
  <2>1. ASSUME NEW d \in Rows, status[d] = "delivered" PROVE accepted'[d] > 0
    BY <1>5, <1>6, <2>1 DEF QueueInv, AcceptedInv
  <2>2. ASSUME NEW k \in Loops \ {l}, NEW d \in Rows, Awaits(k, d)' PROVE accepted'[d] > 0
    <3>1. accepted[d] > 0
      BY <1>4, <2>2 DEF QueueInv, AcceptedInv
    <3> QED BY <1>5, <1>6, <3>1
  <2>3. ASSUME NEW d \in Rows, Awaits(l, d)' PROVE accepted'[d] > 0
    <3>1. CASE Passes(l, d)
      BY <2>3, <3>1 DEF Passes, QueueInv, AcceptedInv
    <3>2. CASE Accepts(l, d)
      BY <1>5, <3>2 DEF Accepts
    <3> QED BY <2>3, <3>1, <3>2 DEF Loses, Forgets
  <2> QED BY <1>1, <2>1, <2>2, <2>3 DEF AcceptedInv
<1>8. OnceInv'
  <2> SUFFICES ASSUME NEW d \in Rows
               PROVE  /\ status[d] = "pending" =>
                            accepted'[d] <= unrecorded'[d] + Cardinality(Awaiting(d))'
                      /\ status[d] = "delivered" =>
                            accepted'[d] + Cardinality(Holding(d))' <=
                               unrecorded'[d] + Cardinality(Loops)
    BY <1>1 DEF OnceInv
  <2>1. PICK a, a1, h, h1, c : /\ a = Cardinality(Awaiting(d)) /\ a1 = Cardinality(Awaiting(d))'
                               /\ h = Cardinality(Holding(d)) /\ h1 = Cardinality(Holding(d))'
                               /\ c = Cardinality(Loops)
    OBVIOUS
  <2>2. /\ a \in Nat /\ a1 \in Nat /\ h \in Nat /\ h1 \in Nat
        /\ (Awaits(l, d) <=> Awaits(l, d)') => a1 = a
        /\ ~Awaits(l, d) /\ Awaits(l, d)' => a1 = a + 1
        /\ Awaits(l, d) /\ ~Awaits(l, d)' => a1 = a - 1
        /\ (Holds(l, d) <=> Holds(l, d)') => h1 = h
        /\ Holds(l, d) /\ ~Holds(l, d)' => h1 = h - 1
    BY <2>1, CountsMove
  <2>3. c \in Nat
    BY <2>1, LoopsAreFew
  <2>4. /\ status[d] = "pending" => accepted[d] <= unrecorded[d] + a
        /\ status[d] = "delivered" => accepted[d] + h <= unrecorded[d] + c
    BY <2>1 DEF QueueInv, OnceInv
  <2>5. status[d] = "delivered" => ~Contains(due, d)
    BY DEF QueueInv, LineTypes
  <2>6. /\ status[d] = "pending" => accepted'[d] <= unrecorded'[d] + a1
        /\ status[d] = "delivered" => accepted'[d] + h1 <= unrecorded'[d] + c
    <3>1. CASE Passes(l, d)
      BY <1>5, <2>2, <2>3, <2>4, <2>5, <3>1 DEF Passes
    <3>2. CASE Accepts(l, d)
      BY <1>5, <2>2, <2>3, <2>4, <3>2 DEF Accepts
    <3>3. CASE Loses(l, d)
      BY <1>5, <2>2, <2>3, <2>4, <3>3 DEF Loses
    <3>4. CASE Forgets(l, d)
      BY <1>5, <2>2, <2>3, <2>4, <3>4 DEF Forgets
    <3> QED BY <3>1, <3>2, <3>3, <3>4
  <2> QED BY <2>1, <2>6
<1> QED BY <1>2, <1>3, <1>7, <1>8 DEF QueueInv

LEMMA BeginPassKeepsInv ==
    ASSUME QueueInv, NEW l \in Loops, BeginPass(l)
    PROVE  QueueInv'
<1>1. /\ LoopTypes' /\ BatchOK(l)'
      /\ \A k \in Loops \ {l} : loop'[k] = loop[k]
      /\ \A d : Holds(l, d)' => Contains(due, d)
      /\ \A d : ~Awaits(l, d)' /\ ~Awaits(l, d)
  BY PassBegins DEF QueueInv
<1>2. UNCHANGED rowVars /\ accepted' = accepted /\ unrecorded' = unrecorded /\ BoundTypes'
  BY DEF BeginPass, QueueInv, BoundTypes
<1>3. \A d \in Rows : Passes(l, d)
  BY <1>1, <1>2 DEF Passes
<1>4. accepted' \in [Rows -> Nat] /\ unrecorded' \in [Rows -> Nat]
  BY <1>2 DEF QueueInv, RowTypes
<1> QED BY <1>1, <1>2, <1>3, <1>4, LoopStepKeepsInv

LEMMA SkipKeepsInv ==
    ASSUME QueueInv, NEW l \in Loops, Skip(l)
    PROVE  QueueInv'
<1>1. UNCHANGED rowVars /\ accepted' = accepted /\ unrecorded' = unrecorded /\ BoundTypes'
  BY DEF Skip, QueueInv, BoundTypes
<1>2. loop[l] /= Resting /\ BatchOK(l) /\ Rows' = Rows /\ loop[l].at = "posting"
  BY <1>1, AtIsBusy DEF Skip, Posting, QueueInv, BatchesOK, rowVars, Rows
<1>3. /\ LoopTypes' /\ BatchOK(l)'
      /\ \A k \in Loops \ {l} : loop'[k] = loop[k]
      /\ \A d : Holds(l, d)' => Holds(l, d)
      /\ \A d : ~Awaits(l, d)'
  BY <1>2, PassGoesOn DEF Skip, QueueInv
<1>4. \A d \in Rows : Passes(l, d)
  BY <1>1, <1>2, <1>3 DEF Passes, Awaits
<1>5. accepted' \in [Rows -> Nat] /\ unrecorded' \in [Rows -> Nat]
  BY <1>1 DEF QueueInv, RowTypes
<1> QED BY <1>1, <1>3, <1>4, <1>5, LoopStepKeepsInv

LEMMA GiveUpKeepsInv ==
    ASSUME QueueInv, NEW l \in Loops, GiveUp(l)
    PROVE  QueueInv'
<1>1. UNCHANGED rowVars /\ accepted' = accepted /\ unrecorded' = unrecorded /\ BoundTypes'
  BY DEF GiveUp, QueueInv, BoundTypes
<1>2. Rows' = Rows /\ loop[l].at = "posting"
  BY <1>1 DEF GiveUp, Posting, rowVars, Rows
<1>3. /\ LoopTypes' /\ BatchOK(l)'
      /\ \A k \in Loops \ {l} : loop'[k] = loop[k]
      /\ \A d : ~Holds(l, d)' /\ ~Awaits(l, d)'
  BY <1>2, PassEnds DEF GiveUp, QueueInv
<1>4. \A d \in Rows : Passes(l, d)
  BY <1>1, <1>2, <1>3 DEF Passes, Awaits
<1>5. accepted' \in [Rows -> Nat] /\ unrecorded' \in [Rows -> Nat]
  BY <1>1 DEF QueueInv, RowTypes
<1> QED BY <1>1, <1>3, <1>4, <1>5, LoopStepKeepsInv

\* The row a loop is at.
LEMMA JobIsRow ==
    ASSUME QueueInv, NEW l \in Loops, loop[l] /= Resting
    PROVE  Job1(l).id \in Rows /\ Job1(l).attempts \in Nat /\ BatchOK(l)
           /\ Job1(l) = loop[l].batch[1]
<1>1. BatchOK(l) /\ LoopTypes
  BY DEF QueueInv, BatchesOK
<1>2. Job1(l) \in Jobs /\ Job1(l) = loop[l].batch[1]
  BY <1>1, BusyLoop
<1> QED BY <1>1, <1>2 DEF Jobs

LEMMA StopKeepsInv ==
    ASSUME QueueInv, NEW l \in Loops, Stop(l)
    PROVE  QueueInv'
<1>1. UNCHANGED rowVars /\ accepted' = accepted /\ Rows' = Rows /\ BoundTypes'
  <2>1. stops \in Nat /\ restarts \in Nat
    BY DEF QueueInv, BoundTypes
  <2> QED BY <2>1 DEF Stop, QueueInv, BoundTypes, rowVars, Rows
<1>2. /\ LoopTypes' /\ BatchOK(l)'
      /\ \A k \in Loops \ {l} : loop'[k] = loop[k]
      /\ \A d : ~Holds(l, d)' /\ ~Awaits(l, d)'
  BY <1>1, PassEnds DEF Stop, QueueInv
<1> DEFINE h == Job1(l).id
<1>3. h \in Rows /\ h = loop[l].batch[1].id
  BY JobIsRow DEF Stop
<1> HIDE DEF h
<1>4. accepted' \in [Rows -> Nat] /\ unrecorded \in [Rows -> Nat]
  BY <1>1 DEF QueueInv, RowTypes
<1>5. CASE loop[l].at = "accepted"
  <2>1. unrecorded' = [unrecorded EXCEPT ![h] = @ + 1]
    BY <1>5 DEF Stop, h
  <2>2. \A d : Awaits(l, d) <=> d = h
    BY <1>3, <1>5 DEF Awaits
  <2>3. \A d \in Rows : Passes(l, d) \/ Forgets(l, d)
    BY <1>1, <1>2, <1>3, <1>4, <2>1, <2>2 DEF Passes, Forgets
  <2>4. unrecorded' \in [Rows -> Nat]
    BY <1>3, <1>4, <2>1
  <2> QED BY <1>1, <1>2, <1>4, <2>3, <2>4, LoopStepKeepsInv
<1>6. CASE loop[l].at /= "accepted"
  <2>1. unrecorded' = unrecorded
    BY <1>6 DEF Stop
  <2>2. \A d \in Rows : Passes(l, d)
    BY <1>1, <1>2, <1>6, <2>1 DEF Passes, Awaits
  <2> QED BY <1>1, <1>2, <1>4, <2>1, <2>2, LoopStepKeepsInv
<1> QED BY <1>5, <1>6

LEMMA AnswersKeepInv ==
    ASSUME QueueInv, NEW l \in Loops, Accept(l) \/ Refuse(l) \/ LoseAnswer(l)
    PROVE  QueueInv'
<1> DEFINE h == Job1(l).id
           answer == IF Accept(l) THEN "accepted" ELSE "refused"
<1>1. UNCHANGED rowVars /\ Rows' = Rows /\ BoundTypes' /\ Posting(l)
  <2>1. stops \in Nat /\ restarts \in Nat
    BY DEF QueueInv, BoundTypes
  <2> QED BY <2>1 DEF Accept, Refuse, LoseAnswer, QueueInv, BoundTypes, rowVars, Rows
<1>2. loop[l] /= Resting /\ h \in Rows /\ BatchOK(l)
  BY <1>1, AtIsBusy, JobIsRow DEF Posting
<1> HIDE DEF h
<1>3. ASSUME NEW a \in {"accepted", "refused"}, Answer(l, a)
      PROVE  /\ LoopTypes' /\ BatchOK(l)'
             /\ \A k \in Loops \ {l} : loop'[k] = loop[k]
             /\ \A d : Holds(l, d)' <=> Holds(l, d) /\ d /= h
             /\ Holds(l, h)
             /\ \A d : Awaits(l, d)' <=> a = "accepted" /\ d = h
             /\ \A d : ~Awaits(l, d)
  BY <1>1, <1>2, <1>3, AnswerIsKept DEF QueueInv, h
<1>4. accepted \in [Rows -> Nat] /\ unrecorded \in [Rows -> Nat]
  BY DEF QueueInv, RowTypes
<1>5. CASE Accept(l)
  <2>1. /\ accepted' = [accepted EXCEPT ![h] = @ + 1] /\ unrecorded' = unrecorded
        /\ Answer(l, "accepted")
    BY <1>5 DEF Accept, h
  <2>2. /\ LoopTypes' /\ BatchOK(l)'
        /\ \A k \in Loops \ {l} : loop'[k] = loop[k]
        /\ \A d : Holds(l, d)' <=> Holds(l, d) /\ d /= h
        /\ Holds(l, h)
        /\ \A d : Awaits(l, d)' <=> d = h
        /\ \A d : ~Awaits(l, d)
    BY <1>3, <2>1
  <2>3. \A d \in Rows : Passes(l, d) \/ Accepts(l, d)
    BY <1>2, <1>4, <2>1, <2>2 DEF Passes, Accepts
  <2>4. accepted' \in [Rows -> Nat] /\ unrecorded' \in [Rows -> Nat]
    BY <1>2, <1>4, <2>1
  <2> QED BY <1>1, <2>2, <2>3, <2>4, LoopStepKeepsInv
<1>6. CASE Refuse(l)
  <2>1. accepted' = accepted /\ unrecorded' = unrecorded /\ Answer(l, "refused")
    BY <1>6 DEF Refuse
  <2>2. /\ LoopTypes' /\ BatchOK(l)'
        /\ \A k \in Loops \ {l} : loop'[k] = loop[k]
        /\ \A d : Holds(l, d)' => Holds(l, d)
        /\ \A d : ~Awaits(l, d)' /\ ~Awaits(l, d)
    BY <1>3, <2>1
  <2>3. \A d \in Rows : Passes(l, d)
    BY <2>1, <2>2 DEF Passes
  <2> QED BY <1>1, <1>4, <2>1, <2>2, <2>3, LoopStepKeepsInv
<1>7. CASE LoseAnswer(l)
  <2>1. /\ accepted' = [accepted EXCEPT ![h] = @ + 1]
        /\ unrecorded' = [unrecorded EXCEPT ![h] = @ + 1]
        /\ Answer(l, "refused")
    BY <1>7 DEF LoseAnswer, h
  <2>2. /\ LoopTypes' /\ BatchOK(l)'
        /\ \A k \in Loops \ {l} : loop'[k] = loop[k]
        /\ \A d : Holds(l, d)' => Holds(l, d)
        /\ \A d : ~Awaits(l, d)' /\ ~Awaits(l, d)
    BY <1>3, <2>1
  <2>3. \A d \in Rows : Passes(l, d) \/ Loses(l, d)
    BY <1>2, <1>4, <2>1, <2>2 DEF Passes, Loses
  <2>4. accepted' \in [Rows -> Nat] /\ unrecorded' \in [Rows -> Nat]
    BY <1>2, <1>4, <2>1
  <2> QED BY <1>1, <2>2, <2>3, <2>4, LoopStepKeepsInv
<1> QED BY <1>5, <1>6, <1>7

------------------------------------------------------------------------------
(* Steps that change the rows                                              *)

\* Storing an outcome: a delivered row is one no other loop takes up again.
LEMMA MarkKeepsInv ==
    ASSUME QueueInv, NEW l \in Loops, Mark(l)
    PROVE  QueueInv'
<1> DEFINE h == Job1(l).id
           n == Job1(l).attempts + 1
<1>1. /\ loop[l].at \in {"accepted", "refused"}
      /\ loop[l].at = "accepted" => MarkDelivered(h)
      /\ loop[l].at = "refused" => MarkFailed(h, n)
      /\ NextJob(l, Tail(loop[l].batch))
      /\ config' = config /\ accepted' = accepted /\ unrecorded' = unrecorded
      /\ stops' = stops /\ restarts' = restarts
  BY DEF Mark
<1>2. loop[l] /= Resting
  BY <1>1, AtIsBusy
<1>3. h \in Rows /\ n \in Nat /\ BatchOK(l) /\ h = loop[l].batch[1].id
  BY <1>2, JobIsRow
<1> HIDE DEF h, n
<1>4. RowTypes' /\ LineTypes' /\ event' = event
  BY <1>1, <1>3, MarkTypes DEF QueueInv
<1>5. /\ loop[l].at = "accepted" => status' = [status EXCEPT ![h] = "delivered"]
      /\ loop[l].at = "refused" => status' = status
  BY <1>1 DEF MarkDelivered, MarkFailed
<1>6. Rows' = Rows
  BY <1>4 DEF Rows
<1>7. /\ LoopTypes' /\ BatchOK(l)'
      /\ \A k \in Loops \ {l} : loop'[k] = loop[k]
      /\ \A d : Holds(l, d)' <=> Holds(l, d)
      /\ \A d : ~Awaits(l, d)'
  BY <1>1, <1>2, <1>3, <1>6, PassGoesOn DEF QueueInv
<1>8. \A k \in Loops \ {l} : /\ BatchOK(k)' <=> BatchOK(k)
                             /\ \A d : Awaits(k, d)' <=> Awaits(k, d)
  BY <1>7, OthersStay
<1>9. BatchesOK'
  BY <1>7, <1>8 DEF QueueInv, BatchesOK
<1>10. BoundTypes' /\ ReplaysInv'
  BY <1>1, <1>4, <1>6 DEF QueueInv, BoundTypes, ReplaysInv
<1>11. \A d : Awaits(l, d) <=> loop[l].at = "accepted" /\ d = h
  BY <1>3 DEF Awaits
<1>12. status \in [Rows -> {"pending", "delivered"}]
  BY DEF QueueInv, RowTypes
<1>13. AcceptedInv'
  <2>1. ASSUME NEW d \in Rows, status'[d] = "delivered" PROVE accepted[d] > 0
    <3>1. status[d] = "delivered" \/ (loop[l].at = "accepted" /\ d = h)
      BY <1>1, <1>3, <1>5, <1>12, <2>1
    <3> QED BY <1>11, <3>1 DEF QueueInv, AcceptedInv
  <2>2. ASSUME NEW k \in Loops, NEW d \in Rows, Awaits(k, d)' PROVE accepted[d] > 0
    BY <1>7, <1>8, <2>2 DEF QueueInv, AcceptedInv
  <2> QED BY <1>1, <1>6, <2>1, <2>2 DEF AcceptedInv
<1>14. OnceInv'
  <2> SUFFICES ASSUME NEW d \in Rows
               PROVE  /\ status'[d] = "pending" =>
                            accepted[d] <= unrecorded[d] + Cardinality(Awaiting(d))'
                      /\ status'[d] = "delivered" =>
                            accepted[d] + Cardinality(Holding(d))' <=
                               unrecorded[d] + Cardinality(Loops)
    BY <1>1, <1>6 DEF OnceInv
  <2>1. PICK a, a1, g, g1, c : /\ a = Cardinality(Awaiting(d)) /\ a1 = Cardinality(Awaiting(d))'
                               /\ g = Cardinality(Holding(d)) /\ g1 = Cardinality(Holding(d))'
                               /\ c = Cardinality(Loops)
    OBVIOUS
  <2>2. /\ a \in Nat /\ a1 \in Nat /\ g \in Nat /\ g1 \in Nat
        /\ (Awaits(l, d) <=> Awaits(l, d)') => a1 = a
        /\ (Holds(l, d) <=> Holds(l, d)') => g1 = g
    BY <1>7, <2>1, CountsMove
  <2>3. c \in Nat /\ a + g <= c
    BY <2>1, LoopsAreFew, LoopsApart DEF QueueInv
  <2>4. /\ status[d] = "pending" => accepted[d] <= unrecorded[d] + a
        /\ status[d] = "delivered" => accepted[d] + g <= unrecorded[d] + c
    BY <2>1 DEF QueueInv, OnceInv
  <2>5. accepted[d] \in Nat /\ unrecorded[d] \in Nat
    BY DEF QueueInv, RowTypes
  <2>6. g1 = g
    BY <1>7, <2>2
  <2>7. CASE loop[l].at = "accepted" /\ d = h
    <3>1. status'[d] = "delivered"
      BY <1>3, <1>5, <1>12, <2>7
    <3>2. accepted[d] + g1 <= unrecorded[d] + c
      <4>1. CASE status[d] = "pending"
        BY <2>2, <2>3, <2>4, <2>5, <2>6, <4>1
      <4>2. CASE status[d] = "delivered"
        BY <2>4, <2>6, <4>2
      <4> QED BY <1>12, <4>1, <4>2
    <3> QED BY <2>1, <3>1, <3>2
  <2>8. CASE ~(loop[l].at = "accepted" /\ d = h)
    <3>1. status'[d] = status[d]
      BY <1>1, <1>3, <1>5, <1>12, <2>8
    <3>2. a1 = a
      BY <1>7, <1>11, <2>2, <2>8
    <3> QED BY <2>1, <2>4, <2>6, <3>1, <3>2
  <2> QED BY <2>7, <2>8
<1> QED BY <1>4, <1>7, <1>9, <1>10, <1>13, <1>14 DEF QueueInv

LEMMA TickKeepsInv == QueueInv /\ Tick => QueueInv'
<1> SUFFICES ASSUME QueueInv, Tick PROVE QueueInv'
  OBVIOUS
<1>1. RowTypes' /\ LineTypes'
  BY TickTypes DEF QueueInv
<1>2. /\ event' = event /\ status' = status /\ config' = config /\ loop' = loop
      /\ accepted' = accepted /\ unrecorded' = unrecorded
      /\ stops' = stops /\ restarts' = restarts /\ Rows' = Rows /\ Jobs' = Jobs
  BY DEF Tick, Rows, Jobs
<1>3. LoopTypes' /\ BoundTypes' /\ ReplaysInv'
  BY <1>2 DEF QueueInv, LoopTypes, BoundTypes, ReplaysInv, Resting
<1>4. BatchesOK' /\ AcceptedInv'
  BY <1>2 DEF QueueInv, BatchesOK, BatchOK, AcceptedInv, Awaits, Resting
<1>5. \A d : /\ Cardinality(Awaiting(d))' = Cardinality(Awaiting(d))
             /\ Cardinality(Holding(d))' = Cardinality(Holding(d))
  BY <1>2 DEF Awaiting, Holding, Awaits, Holds, Resting
<1>6. OnceInv'
  BY <1>2, <1>5 DEF QueueInv, OnceInv
<1> QED BY <1>1, <1>3, <1>4, <1>6 DEF QueueInv

LEMMA RestartKeepsInv == QueueInv /\ (Restart \/ UNCHANGED vars) => QueueInv'
<1> SUFFICES ASSUME QueueInv, Restart \/ UNCHANGED vars PROVE QueueInv'
  OBVIOUS
<1>1. /\ event' = event /\ status' = status /\ attempts' = attempts /\ wait' = wait
      /\ due' = due /\ loop' = loop /\ accepted' = accepted /\ unrecorded' = unrecorded
      /\ Rows' = Rows /\ Jobs' = Jobs /\ MaxRows' = MaxRows
  BY DEF Restart, vars, rowVars, Rows, Jobs, MaxRows
<1>2. RowTypes' /\ ReplaysInv'
  BY <1>1 DEF QueueInv, RowTypes, ReplaysInv
<1>3. LineTypes'
  BY <1>1 DEF QueueInv, LineTypes, Once, Contains
<1>4. BoundTypes'
  BY DEF QueueInv, BoundTypes, Restart, vars
<1>5. LoopTypes' /\ BatchesOK' /\ AcceptedInv'
  BY <1>1 DEF QueueInv, LoopTypes, BatchesOK, BatchOK, AcceptedInv, Awaits, Resting
<1>6. \A d : /\ Cardinality(Awaiting(d))' = Cardinality(Awaiting(d))
             /\ Cardinality(Holding(d))' = Cardinality(Holding(d))
  BY <1>1 DEF Awaiting, Holding, Awaits, Holds, Resting
<1>7. OnceInv'
  BY <1>1, <1>6 DEF QueueInv, OnceInv
<1> QED BY <1>2, <1>3, <1>4, <1>5, <1>7 DEF QueueInv

Recorded == {event[d] : d \in Rows}

\* A row is one of a new event, or one more of the replays allowed.
LEMMA RoomForOneMore ==
    ASSUME RowTypes, ReplaysInv, NEW e \in Events,
           \/ Occurrences(e) = 0
           \/ Occurrences(e) > 0 /\ Len(event) < Cardinality(Recorded) + MaxReplays
    PROVE  /\ IsFiniteSet(Recorded) /\ Len(event) < MaxRows
           /\ Len(event) + 1 <= Cardinality(Recorded \cup {e}) + MaxReplays
<1>1. Len(event) \in Nat /\ Rows = 1..Len(event) /\ MaxReplays \in Nat
  BY RowsNumbered, QueueAssumption
<1>2. Recorded \subseteq Events /\ IsFiniteSet(Events)
  BY <1>1, QueueAssumption, ElementOfSeq DEF RowTypes, Recorded
<1>3. /\ IsFiniteSet(Recorded) /\ Cardinality(Recorded) \in Nat
      /\ Cardinality(Recorded) <= Cardinality(Events) /\ Cardinality(Events) \in Nat
  BY <1>2, FS_Subset, FS_CardinalityType
<1>4. /\ IsFiniteSet(Recorded \cup {e})
      /\ Cardinality(Recorded \cup {e}) =
            IF e \in Recorded THEN Cardinality(Recorded) ELSE Cardinality(Recorded) + 1
  BY <1>3, FS_AddElement
<1>5. Cardinality(Recorded \cup {e}) <= Cardinality(Events)
  <2>1. Recorded \cup {e} \in SUBSET Events
    BY <1>2
  <2> QED BY <1>2, <2>1, FS_Subset
<1>6. Len(event) <= Cardinality(Recorded) + MaxReplays
  BY DEF ReplaysInv, Recorded
<1>7. CASE Occurrences(e) = 0
  <2> DEFINE S == {d \in Rows : event[d] = e}
  <2>1. IsFiniteSet(Rows)
    BY <1>1, FS_Interval
  <2>2. IsFiniteSet(S)
    BY <2>1, FS_Subset
  <2>3. S = {}
    BY <1>7, <2>2, FS_EmptySet DEF Occurrences
  <2>4. e \notin Recorded
    BY <2>3 DEF Recorded
  <2>5. Cardinality(Recorded \cup {e}) = Cardinality(Recorded) + 1
    BY <1>4, <2>4
  <2> QED BY <1>1, <1>3, <1>5, <1>6, <2>5 DEF MaxRows
<1>8. CASE Len(event) < Cardinality(Recorded) + MaxReplays
  <2>1. Cardinality(Recorded) <= Cardinality(Recorded \cup {e})
    BY <1>3, <1>4
  <2> QED BY <1>1, <1>3, <1>4, <1>8, <2>1 DEF MaxRows
<1> QED BY <1>7, <1>8

LEMMA EnqueueKeepsInv ==
    ASSUME QueueInv, NEW e \in Events, RecordEvent(e) \/ ReplayEvent(e)
    PROVE  QueueInv'
<1> DEFINE n == Len(event)
<1>1. /\ Enqueue(e) /\ config' = config /\ loop' = loop
      /\ stops' = stops /\ restarts' = restarts
      /\ \/ Occurrences(e) = 0
         \/ Occurrences(e) > 0 /\ n < Cardinality(Recorded) + MaxReplays
  BY DEF RecordEvent, ReplayEvent, Recorded
<1>2. /\ IsFiniteSet(Recorded) /\ n < MaxRows
      /\ n + 1 <= Cardinality(Recorded \cup {e}) + MaxReplays
  BY <1>1, RoomForOneMore DEF QueueInv
<1>3. /\ RowTypes' /\ LineTypes'
      /\ Len(event') = n + 1 /\ Rows' = 1..(n + 1)
      /\ \A d \in Rows :
            /\ event'[d] = event[d] /\ status'[d] = status[d]
            /\ accepted'[d] = accepted[d] /\ unrecorded'[d] = unrecorded[d]
      /\ event'[n + 1] = e /\ status'[n + 1] = "pending"
      /\ accepted'[n + 1] = 0 /\ unrecorded'[n + 1] = 0
  BY <1>1, <1>2, EnqueueTypes DEF QueueInv
<1>4. n \in Nat /\ Rows = 1..n
  BY RowsNumbered DEF QueueInv
<1> HIDE DEF n
<1>5. Rows' = Rows \cup {n + 1} /\ n + 1 \notin Rows
  BY <1>3, <1>4
<1>6. LoopTypes'
  <2>1. Jobs \subseteq Jobs'
    BY <1>5 DEF Jobs
  <2>2. Seq(Jobs) \subseteq Seq(Jobs')
    BY <2>1, SeqMonotonic
  <2>3. \A l \in Loops : loop[l] \in {Resting} \cup
                  [at : {"posting", "accepted", "refused"}, batch : Seq(Jobs')]
    BY <2>2 DEF QueueInv, LoopTypes
  <2> QED BY <1>1, <2>3 DEF QueueInv, LoopTypes, Resting
<1>7. BoundTypes' /\ BatchesOK'
  BY <1>1 DEF QueueInv, BoundTypes, BatchesOK, BatchOK, Resting
<1>8. ReplaysInv'
  <2>1. {event'[d] : d \in Rows'} = Recorded \cup {e}
    BY <1>3, <1>5 DEF Recorded
  <2> QED BY <1>2, <1>3, <2>1 DEF ReplaysInv
<1>9. \A l \in Loops, d \in Rows' : Awaits(l, d) => d \in Rows
  <2> SUFFICES ASSUME NEW l \in Loops, NEW d \in Rows', Awaits(l, d) PROVE d \in Rows
    OBVIOUS
  <2>1. loop[l] /= Resting /\ d = loop[l].batch[1].id
    BY AtIsBusy DEF Awaits
  <2> QED BY <2>1, JobIsRow
<1>10. AcceptedInv'
  <2>1. \A l \in Loops : \A d : Awaits(l, d)' <=> Awaits(l, d)
    BY <1>1 DEF Awaits
  <2> QED BY <1>3, <1>5, <1>9, <2>1 DEF QueueInv, AcceptedInv
<1>11. \A d : /\ Cardinality(Awaiting(d))' = Cardinality(Awaiting(d))
              /\ Cardinality(Holding(d))' = Cardinality(Holding(d))
              /\ Cardinality(Awaiting(d)) \in Nat
  <2>1. \A d : Awaiting(d)' = Awaiting(d) /\ Holding(d)' = Holding(d)
    BY <1>1 DEF Awaiting, Holding, Awaits, Holds, Resting
  <2> QED BY <2>1, LoopsAreFew
<1>12. OnceInv'
  <2> SUFFICES ASSUME NEW d \in Rows'
               PROVE  /\ status'[d] = "pending" =>
                            accepted'[d] <= unrecorded'[d] + Cardinality(Awaiting(d))
                      /\ status'[d] = "delivered" =>
                            accepted'[d] + Cardinality(Holding(d)) <=
                               unrecorded'[d] + Cardinality(Loops)
    BY <1>11 DEF OnceInv
  <2>1. CASE d \in Rows
    BY <1>3, <2>1 DEF QueueInv, OnceInv
  <2>2. CASE d = n + 1
    BY <1>3, <1>11, <2>2
  <2> QED BY <1>5, <2>1, <2>2
<1> QED BY <1>3, <1>6, <1>7, <1>8, <1>10, <1>12 DEF QueueInv

LEMMA InitHasInv == Init => QueueInv
<1> SUFFICES ASSUME Init PROVE QueueInv
  OBVIOUS
<1>1. /\ event = <<>> /\ status = <<>> /\ attempts = <<>> /\ wait = <<>> /\ due = <<>>
      /\ accepted = <<>> /\ unrecorded = <<>> /\ loop = [l \in Loops |-> Resting]
      /\ config \in Configurations /\ stops = 0 /\ restarts = 0
  BY DEF Init
<1>2. event \in Seq(Events) /\ Len(event) = 0 /\ Rows = {}
  BY <1>1 DEF Rows
<1>3. MaxRows \in Nat /\ MaxReplays \in Nat
  BY QueueAssumption, FS_CardinalityType DEF MaxRows
<1>4. \A T : <<>> \in [{} -> T]
  OBVIOUS
<1>5. RowTypes
  BY <1>1, <1>2, <1>3, <1>4 DEF RowTypes
<1>6. LineTypes
  BY <1>1, <1>2 DEF LineTypes, Once
<1>7. LoopTypes /\ BoundTypes /\ BatchesOK
  BY <1>1 DEF LoopTypes, BoundTypes, BatchesOK, BatchOK
<1>8. OnceInv /\ AcceptedInv
  BY <1>1, <1>2 DEF OnceInv, AcceptedInv
<1>9. ReplaysInv
  <2>1. {event[d] : d \in Rows} = {}
    BY <1>2
  <2>2. Cardinality({}) = 0
    BY FS_EmptySet
  <2>3. Cardinality({event[d] : d \in Rows}) = 0
    BY <2>1, <2>2
  <2> QED BY <1>2, <1>3, <2>3 DEF ReplaysInv
<1> QED BY <1>5, <1>6, <1>7, <1>8, <1>9 DEF QueueInv

LEMMA StepKeepsInv == QueueInv /\ [Next]_vars => QueueInv'
<1> SUFFICES ASSUME QueueInv, [Next]_vars PROVE QueueInv'
  OBVIOUS
<1>1. ASSUME NEW e \in Events, RecordEvent(e) \/ ReplayEvent(e) PROVE QueueInv'
  BY <1>1, EnqueueKeepsInv
<1>2. ASSUME NEW l \in Loops, LoopStep(l) PROVE QueueInv'
  BY <1>2, BeginPassKeepsInv, SkipKeepsInv, GiveUpKeepsInv, AnswersKeepInv, MarkKeepsInv
     DEF LoopStep
<1>3. ASSUME NEW l \in Loops, Stop(l) PROVE QueueInv'
  BY <1>3, StopKeepsInv
<1>4. CASE Tick
  BY <1>4, TickKeepsInv
<1>5. CASE Restart \/ UNCHANGED vars
  BY <1>5, RestartKeepsInv
<1> QED BY <1>1, <1>2, <1>3, <1>4, <1>5 DEF Next

LEMMA QueueIsInductive == Spec => []QueueInv
BY InitHasInv, StepKeepsInv, PTL DEF Spec

\* Rows, the line of due rows and the batches of the loops keep their types: exactly
\* the pending rows whose time has come are in line, once each, although rows leave
\* the line when a loop marks them and a second loop may mark a row again
\* (due_webhook_deliveries, mark_webhook_delivered, mark_webhook_failed).
THEOREM QueueTyping == Spec => []TypeOK
<1>1. QueueInv => TypeOK
  BY TypeParts DEF QueueInv
<1> QED BY <1>1, QueueIsInductive, PTL

\* For any number of loops, events and replays a receiver gets an event from one row
\* no more often than there are loops, but for acceptances whose outcome was lost
\* (deliver_due_webhooks).
THEOREM DuplicatesAreBounded == Spec => []AcceptedOncePerLoop
<1>1. QueueInv => AcceptedOncePerLoop
  <2> SUFFICES ASSUME QueueInv, NEW d \in Rows
               PROVE  accepted[d] <= unrecorded[d] + Cardinality(Loops)
    BY DEF AcceptedOncePerLoop
  <2>1. PICK a, h, c : /\ a = Cardinality(Awaiting(d)) /\ h = Cardinality(Holding(d))
                       /\ c = Cardinality(Loops)
    OBVIOUS
  <2>2. a \in Nat /\ h \in Nat /\ c \in Nat /\ a + h <= c
    BY <2>1, LoopsAreFew, LoopsApart DEF QueueInv
  <2>3. /\ status[d] = "pending" => accepted[d] <= unrecorded[d] + a
        /\ status[d] = "delivered" => accepted[d] + h <= unrecorded[d] + c
        /\ status[d] \in {"pending", "delivered"}
        /\ accepted[d] \in Nat /\ unrecorded[d] \in Nat
    BY <2>1 DEF QueueInv, OnceInv, RowTypes
  <2> QED BY <2>1, <2>2, <2>3
<1> QED BY <1>1, QueueIsInductive, PTL

------------------------------------------------------------------------------
(* The queue implements Delivery                                           *)

LEMMA StageOfRow ==
    ASSUME RowTypes, NEW d
    PROVE  /\ d \notin Rows => Stage(d) = "absent"
           /\ d \in Rows =>
                 /\ status[d] = "delivered" => Stage(d) = "done"
                 /\ status[d] = "pending" /\ accepted[d] > 0 => Stage(d) = "received"
                 /\ status[d] = "pending" /\ ~(accepted[d] > 0) => Stage(d) = "owed"
BY DEF RowTypes, Stage

LEMMA NoStageMoves ==
    ASSUME \A d \in 1..MaxRows : Stage(d)' = Stage(d)
    PROVE  StageOf' = StageOf
<1>1. MaxRows' = MaxRows
  BY DEF MaxRows
<1> QED BY <1>1 DEF StageOf

LEMMA OneStageMoves ==
    ASSUME NEW x \in 1..MaxRows, NEW to, Stage(x)' = to,
           \A d \in 1..MaxRows : d /= x => Stage(d)' = Stage(d)
    PROVE  StageOf[x] = Stage(x) /\ StageOf' = [StageOf EXCEPT ![x] = to]
<1>1. MaxRows' = MaxRows
  BY DEF MaxRows
<1>2. StageOf' = [d \in 1..MaxRows |-> Stage(d)']
  BY <1>1 DEF StageOf
<1>3. StageOf = [d \in 1..MaxRows |-> Stage(d)]
  BY DEF StageOf
<1> QED BY <1>2, <1>3

StageMoves ==
    \/ StageOf' = StageOf
    \/ \E d \in 1..MaxRows :
          \/ /\ \A c \in 1..MaxRows : c < d => StageOf[c] /= "absent"
             /\ StageOf[d] = "absent" /\ StageOf' = [StageOf EXCEPT ![d] = "owed"]
          \/ StageOf[d] = "owed" /\ StageOf' = [StageOf EXCEPT ![d] = "received"]
          \/ StageOf[d] = "received" /\ StageOf' = [StageOf EXCEPT ![d] = "done"]

LEMMA EnqueueOwes ==
    ASSUME QueueInv, NEW e \in Events, RecordEvent(e) \/ ReplayEvent(e)
    PROVE  StageMoves
<1>0. PICK n : n = Len(event)
  OBVIOUS
<1>1. /\ Enqueue(e)
      /\ \/ Occurrences(e) = 0
         \/ Occurrences(e) > 0 /\ n < Cardinality(Recorded) + MaxReplays
  BY <1>0 DEF RecordEvent, ReplayEvent, Recorded
<1>2. n < MaxRows
  BY <1>0, <1>1, RoomForOneMore DEF QueueInv
<1>3. /\ RowTypes' /\ Rows' = 1..(n + 1)
      /\ \A d \in Rows : status'[d] = status[d] /\ accepted'[d] = accepted[d]
      /\ status'[n + 1] = "pending" /\ accepted'[n + 1] = 0
  BY <1>0, <1>1, <1>2, EnqueueTypes DEF QueueInv
<1>4. n \in Nat /\ Rows = 1..n /\ MaxRows \in Nat
  BY <1>0, RowsNumbered DEF QueueInv
<1>5. n + 1 \in 1..MaxRows /\ n + 1 \in Rows' /\ n + 1 \notin Rows
  BY <1>2, <1>3, <1>4
<1>6. Stage(n + 1) = "absent"
  BY <1>5, StageOfRow DEF QueueInv
<1>7. Stage(n + 1)' = "owed"
  BY <1>3, <1>5 DEF Stage
<1>8. \A d \in 1..MaxRows : d /= n + 1 => Stage(d)' = Stage(d)
  <2> SUFFICES ASSUME NEW d \in 1..MaxRows, d /= n + 1 PROVE Stage(d)' = Stage(d)
    OBVIOUS
  <2>1. d \in Rows' <=> d \in Rows
    BY <1>3, <1>4
  <2>2. CASE d \in Rows
    BY <1>3, <2>1, <2>2 DEF Stage
  <2>3. CASE d \notin Rows
    BY <2>1, <2>3 DEF Stage
  <2> QED BY <2>2, <2>3
<1>9. StageOf[n + 1] = "absent" /\ StageOf' = [StageOf EXCEPT ![n + 1] = "owed"]
  BY <1>5, <1>6, <1>7, <1>8, OneStageMoves
<1>10. \A c \in 1..MaxRows : c < n + 1 => StageOf[c] /= "absent"
  <2> SUFFICES ASSUME NEW c \in 1..MaxRows, c < n + 1 PROVE StageOf[c] /= "absent"
    OBVIOUS
  <2>1. c \in Rows
    BY <1>4
  <2>2. Stage(c) /= "absent"
    BY <2>1, StageOfRow DEF QueueInv, RowTypes
  <2> QED BY <2>2 DEF StageOf
<1> QED BY <1>5, <1>9, <1>10 DEF StageMoves

LEMMA AcceptanceReceives ==
    ASSUME QueueInv, NEW l \in Loops, Accept(l) \/ LoseAnswer(l)
    PROVE  StageMoves
<1>0. PICK h : h = Job1(l).id
  OBVIOUS
<1>1. /\ event' = event /\ status' = status /\ Rows' = Rows
      /\ accepted' = [accepted EXCEPT ![h] = @ + 1]
  BY <1>0 DEF Accept, LoseAnswer, rowVars, Rows
<1>2. loop[l] /= Resting
  BY AtIsBusy DEF Accept, LoseAnswer, Posting
<1>3. h \in Rows
  BY <1>0, <1>2, JobIsRow
<1>4. /\ accepted \in [Rows -> Nat] /\ status[h] \in {"pending", "delivered"}
      /\ Rows \subseteq 1..MaxRows
  BY <1>3, RowsNumbered DEF QueueInv, RowTypes
<1>5. \A d \in 1..MaxRows : d /= h => Stage(d)' = Stage(d)
  <2> SUFFICES ASSUME NEW d \in 1..MaxRows, d /= h PROVE Stage(d)' = Stage(d)
    OBVIOUS
  <2>1. d \in Rows => accepted'[d] = accepted[d]
    BY <1>1, <1>4
  <2> QED BY <1>1, <2>1 DEF Stage
<1>6. accepted'[h] = accepted[h] + 1 /\ accepted[h] \in Nat
  BY <1>1, <1>3, <1>4
<1>7. CASE status[h] = "delivered"
  <2>1. Stage(h)' = "done" /\ Stage(h) = "done"
    BY <1>1, <1>3, <1>7 DEF Stage
  <2> QED BY <1>5, <2>1, NoStageMoves DEF StageMoves
<1>8. CASE status[h] = "pending" /\ accepted[h] > 0
  <2>1. Stage(h)' = "received" /\ Stage(h) = "received"
    <3>1. accepted'[h] > 0
      BY <1>6
    <3> QED BY <1>1, <1>3, <1>8, <3>1 DEF Stage
  <2> QED BY <1>5, <2>1, NoStageMoves DEF StageMoves
<1>9. CASE status[h] = "pending" /\ ~(accepted[h] > 0)
  <2>1. Stage(h)' = "received" /\ Stage(h) = "owed"
    <3>1. accepted'[h] > 0
      BY <1>6
    <3> QED BY <1>1, <1>3, <1>9, <3>1 DEF Stage
  <2>2. StageOf[h] = "owed" /\ StageOf' = [StageOf EXCEPT ![h] = "received"]
    BY <1>3, <1>4, <1>5, <2>1, OneStageMoves
  <2> QED BY <1>3, <1>4, <2>2 DEF StageMoves
<1> QED BY <1>4, <1>7, <1>8, <1>9

LEMMA MarkFinishes ==
    ASSUME QueueInv, NEW l \in Loops, Mark(l)
    PROVE  StageMoves
<1>0. PICK h : h = Job1(l).id
  OBVIOUS
<1>1. /\ loop[l].at \in {"accepted", "refused"}
      /\ event' = event /\ Rows' = Rows /\ accepted' = accepted
      /\ loop[l].at = "accepted" => status' = [status EXCEPT ![h] = "delivered"]
      /\ loop[l].at = "refused" => status' = status
  BY <1>0 DEF Mark, MarkDelivered, MarkFailed, Rows
<1>2. loop[l] /= Resting
  BY <1>1, AtIsBusy
<1>3. h \in Rows /\ h = loop[l].batch[1].id
  BY <1>0, <1>2, JobIsRow
<1>4. /\ status \in [Rows -> {"pending", "delivered"}]
      /\ Rows \subseteq 1..MaxRows
  BY RowsNumbered DEF QueueInv, RowTypes
<1>5. CASE status' = status
  <2>1. \A d \in 1..MaxRows : Stage(d)' = Stage(d)
    BY <1>1, <1>5 DEF Stage
  <2> QED BY <2>1, NoStageMoves DEF StageMoves
<1>6. CASE loop[l].at = "accepted" /\ status[h] = "delivered"
  <2>1. status' = status
    BY <1>1, <1>3, <1>4, <1>6
  <2> QED BY <1>5, <2>1
<1>7. CASE loop[l].at = "accepted" /\ status[h] = "pending"
  <2>1. accepted[h] > 0
    <3>1. Awaits(l, h)
      BY <1>3, <1>7 DEF Awaits
    <3> QED BY <1>3, <3>1 DEF QueueInv, AcceptedInv
  <2>2. status'[h] = "delivered" /\ \A d \in Rows : d /= h => status'[d] = status[d]
    BY <1>1, <1>3, <1>4, <1>7
  <2>3. Stage(h)' = "done" /\ Stage(h) = "received"
    BY <1>1, <1>3, <1>7, <2>1, <2>2 DEF Stage
  <2>4. \A d \in 1..MaxRows : d /= h => Stage(d)' = Stage(d)
    BY <1>1, <2>2 DEF Stage
  <2>5. StageOf[h] = "received" /\ StageOf' = [StageOf EXCEPT ![h] = "done"]
    BY <1>3, <1>4, <2>3, <2>4, OneStageMoves
  <2> QED BY <1>3, <1>4, <2>5 DEF StageMoves
<1> QED BY <1>1, <1>3, <1>4, <1>5, <1>6, <1>7

LEMMA QueueStepKeepsPromise == QueueInv /\ [Next]_vars => StageMoves
<1> SUFFICES ASSUME QueueInv, [Next]_vars PROVE StageMoves
  OBVIOUS
<1>1. ASSUME event' = event, status' = status, accepted' = accepted PROVE StageMoves
  <2>1. \A d \in 1..MaxRows : Stage(d)' = Stage(d)
    BY <1>1 DEF Stage, Rows
  <2> QED BY <2>1, NoStageMoves DEF StageMoves
<1>2. ASSUME NEW e \in Events, RecordEvent(e) \/ ReplayEvent(e) PROVE StageMoves
  BY <1>2, EnqueueOwes
<1>3. ASSUME NEW l \in Loops, LoopStep(l) PROVE StageMoves
  <2>1. CASE BeginPass(l) \/ Skip(l) \/ GiveUp(l) \/ Refuse(l)
    BY <1>1, <2>1 DEF BeginPass, Skip, GiveUp, Refuse, rowVars
  <2> QED BY <1>3, <2>1, AcceptanceReceives, MarkFinishes DEF LoopStep
<1>4. ASSUME NEW l \in Loops, Stop(l) PROVE StageMoves
  BY <1>1, <1>4 DEF Stop, rowVars
<1>5. CASE Tick \/ Restart \/ UNCHANGED vars
  BY <1>1, <1>5 DEF Tick, Restart, vars, rowVars
<1> QED BY <1>2, <1>3, <1>4, <1>5 DEF Next

\* For any number of loops, events and replays the queue implements Delivery: every
\* row is owed until the receiver accepted it, is taken for delivered only then, and
\* stays so (deliver_due_webhooks, mark_webhook_delivered, mark_webhook_failed).
THEOREM QueueKeepsThePromise == Spec => KeepsThePromise
<1>1. Init => Promise!DeliveryInit
  <2> SUFFICES ASSUME Init PROVE Promise!DeliveryInit
    OBVIOUS
  <2>1. Rows = {}
    BY DEF Init, Rows
  <2> QED BY <2>1 DEF Promise!DeliveryInit, StageOf, Stage
<1>2. QueueInv /\ [Next]_vars => [Promise!DeliveryNext]_StageOf
  <2>1. StageMoves => [Promise!DeliveryNext]_StageOf
    BY DEF StageMoves, Promise!DeliveryNext, Promise!Owe, Promise!Receive, Promise!Finish,
           Promise!Become
  <2> QED BY <2>1, QueueStepKeepsPromise
<1> QED BY <1>1, <1>2, QueueIsInductive, PTL DEF KeepsThePromise, Promise!DeliverySpec, Spec
=============================================================================
