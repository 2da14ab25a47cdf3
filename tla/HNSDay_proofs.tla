--------------------------- MODULE HNSDay_proofs ---------------------------
(***************************************************************************)
(* Lemmas about one day of the schedule, for every array of actions: what  *)
(* loading and sorting keep, and what the query walk finds.                *)
(***************************************************************************)
EXTENDS HNSDay, HNS24HTime_proofs, SequenceTheorems, TLAPS

LEMMA ActionFields ==
  ASSUME NEW arr \in Seq(DayAction), NEW i \in DOMAIN arr
  PROVE  arr[i] \in DayAction /\ arr[i].start \in Nat /\ arr[i].end \in Nat
<1>1. arr[i] \in DayAction
  OBVIOUS
<1>2. UInt \subseteq Nat
  BY TimeAssumption DEF UInt
<1> QED BY <1>1, <1>2 DEF DayAction

\* On a sorted day the walk that stops at the first start in the future misses
\* nothing.
LEMMA WalkIsDue ==
  ASSUME NEW arr \in Seq(DayAction), Sorted(arr), NEW t \in Nat
  PROVE  Walk(arr, t) = Due(arr, t)
<1>1. ASSUME NEW k \in DOMAIN arr, Active(arr[k], t), NEW j \in 1 .. k - 1
      PROVE  ~StartIsAfter(arr[j], t)
  <2>1. j \in DOMAIN arr /\ j < k /\ k \in Nat
    OBVIOUS
  <2>2. ~ (arr[k].start < arr[j].start)
    BY <2>1 DEF Sorted, SortCompare
  <2>3. arr[k].start <= t
    BY <1>1 DEF Active, StartIsBefore
  <2>4. arr[k].start \in Nat /\ arr[j].start \in Nat
    BY <2>1, ActionFields
  <2> QED BY <2>2, <2>3, <2>4 DEF StartIsAfter
<1>2. {k \in DOMAIN arr : Active(arr[k], t) /\ \A j \in 1 .. k - 1 : ~StartIsAfter(arr[j], t)}
        = {k \in DOMAIN arr : Active(arr[k], t)}
  BY <1>1
<1> QED BY <1>2 DEF Walk, Due

\* Sorting orders the day and changes nothing of what is due.
LEMMA SortActionsProperties ==
  ASSUME NEW arr \in Seq(DayAction), NEW s \in SortActions(arr)
  PROVE  /\ s \in Seq(DayAction)
         /\ Sorted(s)
         /\ \A t \in Nat : Due(s, t) = Due(arr, t)
<1>1. PICK p \in StableOrders(arr) : s = [i \in DOMAIN arr |-> arr[p[i]]]
  BY DEF SortActions
<1>2. /\ p \in [DOMAIN arr -> DOMAIN arr]
      /\ \A k \in DOMAIN arr : \E i \in DOMAIN arr : p[i] = k
  BY <1>1 DEF StableOrders, Bijection, Injection, Surjection
<1>3. Len(arr) \in Nat /\ DOMAIN arr = 1 .. Len(arr)
  OBVIOUS
<1>4. s \in [1 .. Len(arr) -> DayAction]
  BY <1>1, <1>2, <1>3, ActionFields
<1>5. s \in Seq(DayAction)
  BY <1>3, <1>4, SeqDef
<1>6. Sorted(s)
  <2> SUFFICES ASSUME NEW i \in DOMAIN s, NEW j \in DOMAIN s, i < j
               PROVE  ~SortCompare(s[j], s[i])
    BY DEF Sorted
  <2>1. i \in DOMAIN arr /\ j \in DOMAIN arr
    BY <1>1
  <2>2. s[i] = arr[p[i]] /\ s[j] = arr[p[j]]
    BY <1>1, <2>1
  <2>3. SortCompare(arr[p[i]], arr[p[j]]) \/ ~SortCompare(arr[p[j]], arr[p[i]])
    BY <1>1, <2>1 DEF StableOrders
  <2>4. arr[p[i]].start \in Nat /\ arr[p[j]].start \in Nat
    BY <1>2, <2>1, ActionFields
  <2> QED BY <2>2, <2>3, <2>4 DEF SortCompare
<1>7. ASSUME NEW t \in Nat PROVE Due(s, t) = Due(arr, t)
  <2>1. ASSUME NEW x \in Due(s, t) PROVE x \in Due(arr, t)
    <3>1. PICK i \in DOMAIN arr : x = arr[p[i]].swid /\ Active(arr[p[i]], t)
      BY <1>1, <2>1 DEF Due
    <3> QED BY <1>2, <3>1 DEF Due
  <2>2. ASSUME NEW x \in Due(arr, t) PROVE x \in Due(s, t)
    <3>1. PICK k \in DOMAIN arr : x = arr[k].swid /\ Active(arr[k], t)
      BY <2>2 DEF Due
    <3>2. PICK i \in DOMAIN arr : p[i] = k
      BY <1>2
    <3>3. i \in DOMAIN s /\ s[i] = arr[k]
      BY <1>1, <3>2
    <3> QED BY <3>1, <3>3 DEF Due
  <2> QED BY <2>1, <2>2
<1> QED BY <1>5, <1>6, <1>7

LEMMA ParseOr00Type ==
  ASSUME NEW text \in TimeText, text # NonString, NEW d \in ParseOr00(text)
  PROVE  d \in UInt
<1>1. 0 \in UInt
  BY TimeAssumption DEF UInt
<1> QED BY <1>1 DEF TimeText, ParseOr00, ParseTime

\* Whatever its fields, an action object becomes an action.
LEMMA ActionsFromType ==
  ASSUME NEW obj \in JsonAction, NEW act \in ActionsFrom(obj)
  PROVE  act \in DayAction
<1>0. 0 \in UInt
  BY TimeAssumption DEF UInt
<1>1. obj.start \in TimeText /\ obj.end \in TimeText
      /\ obj.swid \in Switch \cup {Missing, NonString}
  BY DEF JsonAction
<1>2. CASE obj.end = NonString
  BY <1>0, <1>2 DEF ActionsFrom, DayAction
<1>3. CASE obj.end # NonString /\ obj.start = NonString
  <2>1. PICK e \in ParseOr00(obj.end) : act = [swid |-> NoSwid, start |-> 0, end |-> e]
    BY <1>3 DEF ActionsFrom
  <2>2. e \in UInt
    BY <1>1, <1>3, ParseOr00Type
  <2> QED BY <1>0, <2>1, <2>2 DEF DayAction
<1>4. CASE obj.end # NonString /\ obj.start # NonString
  <2>1. PICK s \in ParseOr00(obj.start), e \in ParseOr00(obj.end) :
          act = [swid |-> IF obj.swid \in {NonString, Missing} THEN NoSwid ELSE obj.swid,
                 start |-> s, end |-> e]
    BY <1>4 DEF ActionsFrom
  <2>2. s \in UInt /\ e \in UInt
    BY <1>1, <1>4, ParseOr00Type
  <2> QED BY <1>1, <2>1, <2>2 DEF DayAction
<1> QED BY <1>2, <1>3, <1>4

\* With times that parse, an action object becomes one action.
LEMMA ActionsFromUnique ==
  ASSUME NEW obj \in JsonAction, obj.start # Malformed, obj.end # Malformed,
         NEW x \in ActionsFrom(obj), NEW y \in ActionsFrom(obj)
  PROVE  x = y
BY DEF ActionsFrom, ParseOr00, ParseTime

LEMMA LoadedArrayType ==
  ASSUME NEW objs \in Seq(JsonAction), NEW arr \in LoadedArrays(objs)
  PROVE  /\ arr \in Seq(DayAction)
         /\ DOMAIN arr = DOMAIN objs
         /\ \A i \in DOMAIN objs : arr[i] \in ActionsFrom(objs[i])
<1>1. /\ DOMAIN arr = DOMAIN objs /\ DOMAIN objs = 1 .. Len(objs) /\ Len(objs) \in Nat
      /\ arr \in [DOMAIN objs -> UNION {ActionsFrom(objs[i]) : i \in DOMAIN objs}]
      /\ \A i \in DOMAIN objs : arr[i] \in ActionsFrom(objs[i])
  BY DEF LoadedArrays
<1>2. ASSUME NEW i \in DOMAIN objs PROVE arr[i] \in DayAction
  <2>1. objs[i] \in JsonAction
    OBVIOUS
  <2> QED BY <1>1, <2>1, ActionsFromType
<1>3. arr \in [1 .. Len(objs) -> DayAction]
  BY <1>1, <1>2
<1>4. arr \in Seq(DayAction)
  <2>1. Len(objs) \in Nat
    OBVIOUS
  <2> QED BY <1>3, <2>1, SeqDef
<1> QED BY <1>1, <1>4

\* A loaded day is sorted, and with times that parse it has due exactly what
\* its objects say, whatever their order.
LEMMA DayLoadsProperties ==
  ASSUME NEW objs \in Seq(JsonAction), NEW day \in DayLoads(objs)
  PROVE  /\ day \in Seq(DayAction)
         /\ Sorted(day)
         /\ (\A i \in DOMAIN objs : objs[i].start # Malformed /\ objs[i].end # Malformed)
              => \A t \in Nat : Due(day, t) = DueFrom(objs, t)
<1>1. PICK arr \in LoadedArrays(objs) : day \in SortActions(arr)
  BY DEF DayLoads
<1>2. /\ arr \in Seq(DayAction)
      /\ DOMAIN arr = DOMAIN objs
      /\ \A i \in DOMAIN objs : arr[i] \in ActionsFrom(objs[i])
  BY LoadedArrayType
<1>3. /\ day \in Seq(DayAction)
      /\ Sorted(day)
      /\ \A t \in Nat : Due(day, t) = Due(arr, t)
  BY <1>1, <1>2, SortActionsProperties
<1>4. ASSUME \A i \in DOMAIN objs : objs[i].start # Malformed /\ objs[i].end # Malformed,
             NEW t \in Nat
      PROVE  Due(arr, t) = DueFrom(objs, t)
  <2>1. ASSUME NEW x \in Due(arr, t) PROVE x \in DueFrom(objs, t)
    <3>1. PICK i \in DOMAIN arr : x = arr[i].swid /\ Active(arr[i], t)
      BY <2>1 DEF Due
    <3>2. arr[i] \in UNION {ActionsFrom(objs[k]) : k \in DOMAIN objs}
      BY <1>2, <3>1
    <3> QED BY <3>1, <3>2 DEF DueFrom
  <2>2. ASSUME NEW x \in DueFrom(objs, t) PROVE x \in Due(arr, t)
    <3>1. PICK act \in UNION {ActionsFrom(objs[k]) : k \in DOMAIN objs} :
            x = act.swid /\ Active(act, t)
      BY <2>2 DEF DueFrom
    <3>2. PICK i \in DOMAIN objs : act \in ActionsFrom(objs[i])
      BY <3>1
    <3>3. objs[i] \in JsonAction
      OBVIOUS
    <3>4. act = arr[i]
      BY <1>2, <1>4, <3>2, <3>3, ActionsFromUnique
    <3> QED BY <1>2, <3>1, <3>2, <3>4 DEF Due
  <2> QED BY <2>1, <2>2
<1> QED BY <1>3, <1>4

(***************************************************************************)
(* A stable sort has one result.                                           *)
(***************************************************************************)
LEMMA StableOrderUnique ==
  ASSUME NEW arr \in Seq(DayAction),
         NEW p \in StableOrders(arr), NEW q \in StableOrders(arr)
  PROVE  p = q
<1> DEFINE n == Len(arr)
           Before(i, j) == \/ arr[i].start < arr[j].start
                           \/ ~ (arr[j].start < arr[i].start) /\ i < j
<1>1. n \in Nat /\ DOMAIN arr = 1 .. n
  OBVIOUS
<1>2. /\ p \in [1 .. n -> 1 .. n] /\ q \in [1 .. n -> 1 .. n]
      /\ \A i, j \in 1 .. n : p[i] = p[j] => i = j
      /\ \A i, j \in 1 .. n : q[i] = q[j] => i = j
      /\ \A k \in 1 .. n : \E i \in 1 .. n : p[i] = k
      /\ \A k \in 1 .. n : \E i \in 1 .. n : q[i] = k
  BY <1>1 DEF StableOrders, Bijection, Injection, Surjection, IsInjective
<1>3. /\ \A i, j \in 1 .. n : i < j => Before(p[i], p[j])
      /\ \A i, j \in 1 .. n : i < j => Before(q[i], q[j])
  BY <1>1 DEF StableOrders, SortCompare
<1>4. ASSUME NEW i \in 1 .. n, NEW j \in 1 .. n, Before(i, j), Before(j, i)
      PROVE  FALSE
  <2>1. arr[i].start \in Nat /\ arr[j].start \in Nat
    BY <1>1, ActionFields
  <2> QED BY <1>4, <2>1
<1> DEFINE Differ == {i \in 1 .. n : p[i] # q[i]}
<1>5. SUFFICES ASSUME p # q PROVE FALSE
  OBVIOUS
<1>5a. Differ # {}
  <2>1. p = [i \in 1 .. n |-> p[i]] /\ q = [i \in 1 .. n |-> q[i]]
    <3> HIDE DEF n, Differ
    <3> QED BY <1>2
  <2>2. PICK i \in 1 .. n : p[i] # q[i]
    <3> HIDE DEF n, Differ
    <3> QED BY <1>5, <2>1
  <2> QED BY <2>2
<1>6. PICK i \in Differ : \A m \in Differ : i <= m
  <2>1. Differ \subseteq Nat
    OBVIOUS
  <2> HIDE DEF Differ
  <2> QED BY <1>5a, <2>1, LeastNumber
<1>7. i \in 1 .. n /\ p[i] # q[i] /\ \A m \in 1 .. n : m < i => p[m] = q[m]
  BY <1>6
<1> HIDE DEF Differ, Before, n
<1>8. PICK k \in 1 .. n : q[k] = p[i]
  BY <1>2, <1>7
<1>9. PICK l \in 1 .. n : p[l] = q[i]
  BY <1>2, <1>7
<1>10. i < k
  <2>1. k # i
    BY <1>7, <1>8
  <2>2. ~ (k < i)
    BY <1>2, <1>7, <1>8
  <2> QED BY <1>1, <1>7, <1>8, <2>1, <2>2
<1>11. i < l
  <2>1. l # i
    BY <1>7, <1>9
  <2>2. ~ (l < i)
    BY <1>2, <1>7, <1>9
  <2> QED BY <1>1, <1>7, <1>9, <2>1, <2>2
<1>12. Before(q[i], p[i]) /\ Before(p[i], q[i])
  BY <1>3, <1>7, <1>8, <1>9, <1>10, <1>11
<1> QED BY <1>2, <1>4, <1>7, <1>12

(***************************************************************************)
(* A stable sort has a result: the last action of the array goes in front  *)
(* of the first of the others, sorted, that starts after it.               *)
(***************************************************************************)
LEMMA StableOrderInserts ==
  ASSUME NEW n \in Nat, NEW arr \in [1 .. n + 1 -> DayAction],
         NEW rest \in [1 .. n -> DayAction], \A i \in 1 .. n : rest[i] = arr[i],
         NEW p \in StableOrders(rest)
  PROVE  StableOrders(arr) # {}
<1> DEFINE Later == {i \in 1 .. n : arr[n + 1].start < arr[p[i]].start} \cup {n + 1}
<1>1. /\ p \in [1 .. n -> 1 .. n]
      /\ \A i, j \in 1 .. n : p[i] = p[j] => i = j
      /\ \A x \in 1 .. n : \E i \in 1 .. n : p[i] = x
  BY DEF StableOrders, Bijection, Injection, Surjection, IsInjective
<1>2. \A i \in 1 .. n + 1 : arr[i].start \in Nat
  BY TimeAssumption DEF DayAction, UInt
<1>3. ASSUME NEW i \in 1 .. n, NEW j \in 1 .. n, i < j
      PROVE  /\ p[i] # p[j]
             /\ \/ arr[p[i]].start < arr[p[j]].start
                \/ ~ (arr[p[j]].start < arr[p[i]].start) /\ p[i] < p[j]
  <2>1. \/ SortCompare(rest[p[i]], rest[p[j]])
        \/ ~SortCompare(rest[p[j]], rest[p[i]]) /\ p[i] < p[j]
    BY <1>3 DEF StableOrders
  <2>2. rest[p[i]] = arr[p[i]] /\ rest[p[j]] = arr[p[j]]
    BY <1>1
  <2>3. i # j
    BY <1>3
  <2>4. p[i] # p[j]
    BY <1>1, <2>3
  <2> QED BY <2>1, <2>2, <2>4 DEF SortCompare
<1>4. PICK k \in Later : \A m \in Later : k <= m
  <2>1. Later \subseteq Nat /\ Later # {}
    OBVIOUS
  <2> HIDE DEF Later
  <2> QED BY <2>1, LeastNumber
<1>5. /\ k \in 1 .. n + 1
      /\ \A i \in 1 .. n : i < k => ~ (arr[n + 1].start < arr[p[i]].start)
      /\ k <= n => arr[n + 1].start < arr[p[k]].start
  <2>1. k \in 1 .. n + 1
    BY <1>4
  <2>2. ASSUME NEW i \in 1 .. n, i < k PROVE i \notin Later
    <3> HIDE DEF Later
    <3> QED BY <1>4, <2>1, <2>2
  <2> QED BY <1>4, <2>1, <2>2
<1> HIDE DEF Later
<1>6. ASSUME NEW i \in 1 .. n, k <= i PROVE arr[n + 1].start < arr[p[i]].start
  <2>1. CASE i = k
    BY <1>5, <2>1
  <2>2. CASE i # k
    <3>1. k \in 1 .. n /\ k < i
      BY <1>5, <1>6, <2>2
    <3>2. p[k] \in 1 .. n + 1 /\ p[i] \in 1 .. n + 1
      <4>1. p[k] \in 1 .. n
        BY <1>1, <3>1
      <4>2. p[i] \in 1 .. n
        BY <1>1
      <4> QED BY <4>1, <4>2
    <3>3. ~ (arr[p[i]].start < arr[p[k]].start)
      <4>1. arr[p[k]].start \in Nat /\ arr[p[i]].start \in Nat
        BY <1>2, <3>2
      <4> QED BY <1>3, <3>1, <4>1
    <3>4. arr[n + 1].start < arr[p[k]].start
      BY <1>5, <3>1
    <3> QED BY <1>2, <3>2, <3>3, <3>4
  <2> QED BY <2>1, <2>2
<1> DEFINE q == [i \in 1 .. n + 1 |-> IF i < k THEN p[i] ELSE IF i = k THEN n + 1 ELSE p[i - 1]]
<1>7. ASSUME NEW i \in 1 .. n + 1
      PROVE  /\ i < k => i \in 1 .. n /\ q[i] = p[i] /\ q[i] \in 1 .. n
             /\ i = k => q[i] = n + 1
             /\ k < i => i - 1 \in 1 .. n /\ k <= i - 1 /\ q[i] = p[i - 1] /\ q[i] \in 1 .. n
  <2>1. k \in Nat /\ i \in Nat /\ k <= n + 1
    BY <1>5
  <2>2. q[i] = IF i < k THEN p[i] ELSE IF i = k THEN n + 1 ELSE p[i - 1]
    OBVIOUS
  <2> HIDE DEF q
  <2>3. i < k => i \in 1 .. n /\ q[i] = p[i]
    BY <2>1, <2>2
  <2>4. i = k => q[i] = n + 1
    BY <2>1, <2>2
  <2>5. k < i => i - 1 \in 1 .. n /\ k <= i - 1 /\ q[i] = p[i - 1]
    BY <1>5, <2>1, <2>2
  <2> QED BY <1>1, <2>3, <2>4, <2>5
<1>8. q \in [1 .. n + 1 -> 1 .. n + 1]
  <2>1. ASSUME NEW i \in 1 .. n + 1 PROVE q[i] \in 1 .. n + 1
    <3> HIDE DEF q
    <3> QED BY <1>5, <1>7
  <2>2. q = [i \in 1 .. n + 1 |-> q[i]]
    OBVIOUS
  <2> HIDE DEF q
  <2> QED BY <2>1, <2>2
<1> HIDE DEF q
<1>9. ASSUME NEW i \in 1 .. n + 1, NEW j \in 1 .. n + 1, i < j
      PROVE  /\ q[i] # q[j]
             /\ \/ arr[q[i]].start < arr[q[j]].start
                \/ ~ (arr[q[j]].start < arr[q[i]].start) /\ q[i] < q[j]
  <2>1. CASE j < k
    <3>1. i < k
      BY <1>5, <1>9, <2>1
    <3>2. i \in 1 .. n /\ j \in 1 .. n /\ q[i] = p[i] /\ q[j] = p[j]
      BY <1>7, <2>1, <3>1
    <3> QED BY <1>3, <1>9, <3>2
  <2>2. CASE j = k
    <3>1. i \in 1 .. n /\ i < k /\ q[i] = p[i] /\ q[i] \in 1 .. n /\ q[j] = n + 1
      BY <1>7, <1>9, <2>2
    <3>2. ~ (arr[n + 1].start < arr[p[i]].start)
      BY <1>5, <3>1
    <3>3. q[i] < n + 1
      BY <3>1
    <3> QED BY <3>1, <3>2, <3>3
  <2>3. CASE i < k /\ k < j
    <3>1. /\ i \in 1 .. n /\ j - 1 \in 1 .. n /\ i < j - 1
          /\ q[i] = p[i] /\ q[j] = p[j - 1]
      BY <1>5, <1>7, <2>3
    <3> QED BY <1>3, <3>1
  <2>4. CASE i = k
    <3>1. j - 1 \in 1 .. n /\ k <= j - 1 /\ q[i] = n + 1 /\ q[j] = p[j - 1] /\ q[j] \in 1 .. n
      BY <1>7, <1>9, <2>4
    <3>2. arr[n + 1].start < arr[p[j - 1]].start
      BY <1>6, <3>1
    <3> QED BY <3>1, <3>2
  <2>5. CASE k < i
    <3>1. k < j
      BY <1>5, <1>9, <2>5
    <3>2. i - 1 \in 1 .. n /\ j - 1 \in 1 .. n /\ q[i] = p[i - 1] /\ q[j] = p[j - 1]
      BY <1>7, <2>5, <3>1
    <3>3. i - 1 < j - 1
      BY <1>9
    <3> QED BY <1>3, <3>2, <3>3
  <2>6. i < k \/ i = k \/ k < i
    BY <1>5
  <2>7. j < k \/ j = k \/ k < j
    BY <1>5
  <2> QED BY <2>1, <2>2, <2>3, <2>4, <2>5, <2>6, <2>7
<1>10. ASSUME NEW x \in 1 .. n + 1 PROVE \E i \in 1 .. n + 1 : q[i] = x
  <2>1. CASE x = n + 1
    BY <1>5, <1>7, <2>1
  <2>2. CASE x # n + 1
    <3>1. x \in 1 .. n
      BY <2>2
    <3>2. PICK i \in 1 .. n : p[i] = x
      BY <1>1, <3>1
    <3>3. CASE i < k
      BY <1>7, <3>2, <3>3
    <3>4. CASE ~ (i < k)
      <4>1. i + 1 \in 1 .. n + 1 /\ k < i + 1 /\ (i + 1) - 1 = i
        BY <1>5, <3>4
      <4>2. q[i + 1] = p[i]
        BY <1>7, <4>1
      <4> QED BY <3>2, <4>1, <4>2
    <3> QED BY <3>3, <3>4
  <2> QED BY <2>1, <2>2
<1>11. ASSUME NEW i \in 1 .. n + 1, NEW j \in 1 .. n + 1, q[i] = q[j] PROVE i = j
  <2>1. i < j \/ j < i \/ i = j
    OBVIOUS
  <2> QED BY <1>9, <1>11, <2>1
<1>12. q \in Bijection(DOMAIN arr, DOMAIN arr)
  BY <1>8, <1>10, <1>11 DEF Bijection, Injection, Surjection, IsInjective
<1>13. q \in StableOrders(arr)
  BY <1>9, <1>12 DEF StableOrders, SortCompare
<1> QED BY <1>13

LEMMA StableOrderExists ==
  ASSUME NEW arr \in Seq(DayAction)
  PROVE  StableOrders(arr) # {}
<1> DEFINE Bad == {n \in Nat : \E a \in [1 .. n -> DayAction] : StableOrders(a) = {}}
<1>1. Bad = {}
  <2> SUFFICES ASSUME Bad # {} PROVE FALSE
    OBVIOUS
  <2>1. PICK n \in Bad : \A m \in Bad : n <= m
    <3>1. Bad \subseteq Nat
      OBVIOUS
    <3> HIDE DEF Bad
    <3> QED BY <3>1, LeastNumber
  <2>2. PICK a \in [1 .. n -> DayAction] : StableOrders(a) = {}
    BY <2>1
  <2>3. CASE n = 0
    <3>1. DOMAIN a = {}
      BY <2>2, <2>3
    <3>2. [i \in {} |-> 0] \in StableOrders(a)
      BY <3>1 DEF StableOrders, Bijection, Injection, Surjection, IsInjective
    <3> QED BY <2>2, <3>2
  <2>4. CASE n # 0
    <3> DEFINE m == n - 1
               rest == [i \in 1 .. m |-> a[i]]
    <3>1. m \in Nat /\ n = m + 1 /\ m \notin Bad
      BY <2>1, <2>4
    <3>2. rest \in [1 .. m -> DayAction] /\ \A i \in 1 .. m : rest[i] = a[i]
      BY <2>2, <3>1
    <3>3. PICK p \in StableOrders(rest) : TRUE
      BY <3>1, <3>2
    <3>4. a \in [1 .. m + 1 -> DayAction]
      BY <2>2, <3>1
    <3> HIDE DEF m, rest, Bad
    <3> QED BY <2>2, <3>1, <3>2, <3>3, <3>4, StableOrderInserts
  <2> QED BY <2>3, <2>4
<1>2. Len(arr) \in Nat /\ arr \in [1 .. Len(arr) -> DayAction]
  OBVIOUS
<1> QED BY <1>1, <1>2

\* Loading a day has an outcome whatever stands in its array, and one outcome
\* when its times parse: no load is blocked, and none is left to choose.
THEOREM DayLoadsDefined ==
  ASSUME NEW objs \in Seq(JsonAction)
  PROVE  /\ DayLoads(objs) # {}
         /\ (\A i \in DOMAIN objs : objs[i].start # Malformed /\ objs[i].end # Malformed)
              => \A x, y \in DayLoads(objs) : x = y
<1>1. ASSUME NEW obj \in JsonAction PROVE ActionsFrom(obj) # {}
  <2>1. PICK s, e : s \in ParseOr00(obj.start) /\ e \in ParseOr00(obj.end)
    <3>1. 0 \in UInt
      BY TimeAssumption DEF UInt
    <3>2. ASSUME NEW text PROVE \E d : d \in ParseOr00(text)
      BY <3>1 DEF ParseOr00, ParseTime
    <3> QED BY <3>2
  <2>2. CASE obj.end = NonString
    <3>1. [swid |-> NoSwid, start |-> 0, end |-> 0] \in ActionsFrom(obj)
      BY <2>2 DEF ActionsFrom
    <3> QED BY <3>1
  <2>3. CASE obj.end # NonString /\ obj.start = NonString
    <3>1. [swid |-> NoSwid, start |-> 0, end |-> e] \in ActionsFrom(obj)
      BY <2>1, <2>3 DEF ActionsFrom
    <3> QED BY <3>1
  <2>4. CASE obj.end # NonString /\ obj.start # NonString
    <3>1. [swid |-> IF obj.swid \in {NonString, Missing} THEN NoSwid ELSE obj.swid,
           start |-> s, end |-> e] \in ActionsFrom(obj)
      BY <2>1, <2>4 DEF ActionsFrom
    <3> QED BY <3>1
  <2> QED BY <2>2, <2>3, <2>4
<1>2. \A i \in DOMAIN objs : objs[i] \in JsonAction
  OBVIOUS
<1> DEFINE arr == [i \in DOMAIN objs |-> CHOOSE act : act \in ActionsFrom(objs[i])]
<1>3. \A i \in DOMAIN objs : arr[i] \in ActionsFrom(objs[i])
  BY <1>1, <1>2
<1>4. arr \in LoadedArrays(objs)
  BY <1>3 DEF LoadedArrays
<1> HIDE DEF arr
<1>5. arr \in Seq(DayAction)
  BY <1>4, LoadedArrayType
<1>6. PICK p \in StableOrders(arr) : TRUE
  BY <1>5, StableOrderExists
<1>7. DayLoads(objs) # {}
  <2>1. [i \in DOMAIN arr |-> arr[p[i]]] \in SortActions(arr)
    BY <1>6 DEF SortActions
  <2> QED BY <1>4, <2>1 DEF DayLoads
<1>8. ASSUME \A i \in DOMAIN objs : objs[i].start # Malformed /\ objs[i].end # Malformed,
             NEW x \in DayLoads(objs), NEW y \in DayLoads(objs)
      PROVE  x = y
  <2>1. PICK xs \in LoadedArrays(objs), ys \in LoadedArrays(objs) :
          x \in SortActions(xs) /\ y \in SortActions(ys)
    BY <1>8 DEF DayLoads
  <2>2. \A i \in DOMAIN objs : xs[i] = ys[i]
    BY <1>2, <1>8, LoadedArrayType, ActionsFromUnique
  <2>3. xs = ys
    <3>1. xs = [i \in DOMAIN objs |-> xs[i]] /\ ys = [i \in DOMAIN objs |-> ys[i]]
      BY DEF LoadedArrays
    <3> QED BY <2>2, <3>1
  <2>4. xs \in Seq(DayAction)
    BY LoadedArrayType
  <2> QED BY <2>1, <2>3, <2>4, StableOrderUnique DEF SortActions
<1> QED BY <1>7, <1>8
=============================================================================
