---------------------------- MODULE MemoryProofs ----------------------------
(***************************************************************************)
(* Proofs about MemoryStore, for any deliveries, labels and window, and    *)
(* for any number of concurrent calls.                                     *)
(*                                                                         *)
(* That every slice is within its array holds without a condition.  That   *)
(* the arrays cannot be told from values holds of every array that no two  *)
(* calls held at once: an append in place writes the cell after its slice, *)
(* and no other struct reaches that far into the array (LongestInv).       *)
(***************************************************************************)
EXTENDS MemoryStore, IncidentsProofs, TLAPS

Cell == Alert \cup {NoAlert}

Heaps == Seq(Seq(Cell))

\* The incident i by the arrays h.
Value(h, i) == [i EXCEPT !.alerts = SubSeq(h[i.alerts.array], 1, i.alerts.len)]

\* The struct with the fields of the incident i and the slice s.
WithSlice(i, s) == [i EXCEPT !.alerts = s]

\* The slice s is within an array of h, and its cells were written.
Within(h, s) ==
  /\ s.array \in DOMAIN h
  /\ s.len \in 1 .. Len(h[s.array])
  /\ \A n \in 1 .. s.len : h[s.array][n] \in Alert

\* What h has within the slice s, h2 has too.
Kept(h, h2, s) ==
  /\ s.array \in DOMAIN h2
  /\ s.len <= Len(h2[s.array])
  /\ \A n \in 1 .. s.len : h2[s.array][n] = h[s.array][n]

Positions == {"pending", "find", "found", "create", "save", "ok"}

Structs == Holders \ {NoIncident}

TypeInv ==
  /\ clock \in Time
  /\ now \in [Alert -> Time]
  /\ pc \in [Alert -> Positions]
  /\ inc \in [Alert -> Struct \cup {NoIncident}]
  /\ view \in Struct \cup {NoIncident}
  /\ incidents \subseteq Struct
  /\ heap \in Heaps
  /\ \A i \in Structs : Within(heap, i.alerts)
  /\ \A a \in Alert : pc[a] \in {"found", "save", "ok"} => inc[a] \in Struct

\* Two calls that hold one array are known to.
HoldInv ==
  \A a, b \in Alert :
    /\ a # b /\ pc[a] \in {"found", "save"} /\ pc[b] \in {"found", "save"}
    /\ inc[a].alerts.array = inc[b].alerts.array
    => inc[a].alerts.array \in shared

\* No struct has a longer slice of the array of i than i has.
Longest(i) ==
  \A j \in Structs : j.alerts.array = i.alerts.array => j.alerts.len <= i.alerts.len

\* An array is the array of one incident, and unless two calls held it, what is
\* stored has its longest slice, but for a call about to save a longer one, and
\* what a call appends to has the longest slice.
LongestInv ==
  /\ \A i, j \in Structs : i.alerts.array = j.alerts.array => i.id = j.id
  /\ \A i, j \in incidents : i.id = j.id => i = j
  /\ \A i \in incidents :
       /\ i.alerts.array \notin shared
       /\ \A a \in Alert : pc[a] = "save" => inc[a].alerts.array # i.alerts.array
       => Longest(i)
  /\ \A a \in Alert :
       pc[a] \in {"found", "save"} /\ inc[a].alerts.array \notin shared => Longest(inc[a])

-----------------------------------------------------------------------------
(* Slices. *)

\* The first cells of an array.
LEMMA Prefix ==
  ASSUME NEW S, NEW s \in Seq(S), NEW n \in 0 .. Len(s)
  PROVE  SubSeq(s, 1, n) = [k \in 1 .. n |-> s[k]]
PROOF OBVIOUS

\* A slice by two heaps that agree on it.
LEMMA SameValue ==
  ASSUME NEW h \in Heaps, NEW h2 \in Heaps, NEW i,
         Within(h, i.alerts), Kept(h, h2, i.alerts)
  PROVE  Value(h2, i) = Value(h, i) /\ Within(h2, i.alerts)
PROOF
<1> DEFINE s == i.alerts.array
           n == i.alerts.len
<1>1. /\ h[s] \in Seq(Cell) /\ h2[s] \in Seq(Cell)
      /\ n \in 0 .. Len(h[s]) /\ n \in 0 .. Len(h2[s])
  BY DEF Within, Kept, Heaps
<1>2. /\ SubSeq(h[s], 1, n) = [k \in 1 .. n |-> h[s][k]]
      /\ SubSeq(h2[s], 1, n) = [k \in 1 .. n |-> h2[s][k]]
  BY <1>1, Prefix
<1>3. SubSeq(h2[s], 1, n) = SubSeq(h[s], 1, n)
  BY <1>2 DEF Kept
<1>4. Value(h2, i) = Value(h, i)
  BY <1>3 DEF Value
<1>5. Within(h2, i.alerts)
  BY <1>1 DEF Within, Kept
<1> QED
  BY <1>4, <1>5

\* The incident of a struct whose slice is within its array.
LEMMA ValueType ==
  ASSUME NEW h \in Heaps, NEW i \in Struct, Within(h, i.alerts)
  PROVE  /\ Value(h, i) \in Incident
         /\ Value(h, i).id = i.id /\ Value(h, i).key = i.key /\ Value(h, i).state = i.state
         /\ Value(h, i).lastAlertAt = i.lastAlertAt
PROOF
<1> DEFINE s == h[i.alerts.array]
           n == i.alerts.len
<1>1. s \in Seq(Cell) /\ n \in 0 .. Len(s) /\ \A k \in 1 .. n : s[k] \in Alert
  BY DEF Within, Heaps
<1>2. SubSeq(s, 1, n) = [k \in 1 .. n |-> s[k]]
  BY <1>1, Prefix
<1>3. SubSeq(s, 1, n) \in Seq(Alert)
  BY <1>1, <1>2
<1> QED
  BY <1>3 DEF Value, Struct, Incident

\* A longer prefix.
LEMMA Longer ==
  ASSUME NEW S, NEW x \in Seq(S), NEW y \in Seq(S), NEW n \in Nat,
         n <= Len(x), n + 1 <= Len(y), \A k \in 1 .. n : y[k] = x[k]
  PROVE  SubSeq(y, 1, n + 1) = Append(SubSeq(x, 1, n), y[n + 1])
PROOF
<1>1. PICK p : p = SubSeq(x, 1, n)
  OBVIOUS
<1>2. PICK q : q = SubSeq(y, 1, n + 1)
  OBVIOUS
<1>3. p \in Seq(S) /\ Len(p) = n /\ \A k \in 1 .. n : p[k] = x[k]
  BY <1>1, Prefix
<1>4. q \in Seq(S) /\ Len(q) = n + 1 /\ \A k \in 1 .. n + 1 : q[k] = y[k]
  BY <1>2, Prefix
<1>5. y[n + 1] \in S
  OBVIOUS
<1>6. PICK r : r = Append(p, y[n + 1])
  OBVIOUS
<1>7. /\ r \in Seq(S) /\ Len(r) = n + 1 /\ r[n + 1] = y[n + 1]
      /\ \A k \in 1 .. n : r[k] = p[k]
  BY <1>3, <1>5, <1>6, AppendProperties
<1>8. \A k \in 1 .. n + 1 : q[k] = r[k]
  BY <1>3, <1>4, <1>7
<1>9. q = r
  BY <1>4, <1>7, <1>8, SeqEqual
<1> QED
  BY <1>1, <1>2, <1>6, <1>9

\* An array with a behind what the slice s had is a slice with one alert more.
LEMMA OneMore ==
  ASSUME NEW h \in Heaps, NEW g \in Heaps, NEW s \in [array : Nat, len : Nat], Within(h, s),
         NEW a \in Alert, NEW b \in DOMAIN g, s.len + 1 <= Len(g[b]), g[b][s.len + 1] = a,
         \A n \in 1 .. s.len : g[b][n] = h[s.array][n]
  PROVE  /\ SubSeq(g[b], 1, s.len + 1) = Append(SubSeq(h[s.array], 1, s.len), a)
         /\ Within(g, [array |-> b, len |-> s.len + 1])
PROOF
<1>1. PICK x : x = h[s.array]
  OBVIOUS
<1>2. PICK y : y = g[b]
  OBVIOUS
<1>3. PICK n : n = s.len
  OBVIOUS
<1>4. x \in Seq(Cell) /\ y \in Seq(Cell) /\ n \in Nat /\ n <= Len(x)
  BY <1>1, <1>2, <1>3 DEF Within, Heaps
<1>5. n + 1 <= Len(y) /\ y[n + 1] = a /\ \A k \in 1 .. n : y[k] = x[k]
  BY <1>1, <1>2, <1>3
<1>6. \A k \in 1 .. n : x[k] \in Alert
  BY <1>1, <1>3 DEF Within
<1>7. SubSeq(y, 1, n + 1) = Append(SubSeq(x, 1, n), a)
  <2>1. SubSeq(y, 1, n + 1) = Append(SubSeq(x, 1, n), y[n + 1])
    BY <1>4, <1>5, Longer
  <2> QED
    BY <1>5, <2>1
<1>8. PICK t : t = [array |-> b, len |-> s.len + 1]
  OBVIOUS
<1>9. t.array = b /\ t.len = n + 1
  BY <1>3, <1>8
<1>10. \A k \in 1 .. n + 1 : y[k] \in Alert
  <2>1. \A k \in 1 .. n + 1 : k = n + 1 \/ k \in 1 .. n
    BY <1>4
  <2> QED
    BY <1>5, <1>6, <2>1
<1>11. n + 1 \in 1 .. Len(y)
  BY <1>4, <1>5
<1>12. Within(g, t)
  BY <1>2, <1>9, <1>10, <1>11 DEF Within
<1> QED
  BY <1>1, <1>2, <1>3, <1>7, <1>8, <1>12

\* append writes the alert behind the slice, and nothing before it.
LEMMA Appended ==
  ASSUME NEW a \in Alert, heap \in Heaps, NEW s \in [array : Nat, len : Nat], Within(heap, s)
  PROVE  LET r == Append1(s, a)
         IN  /\ r.heap \in Heaps /\ r.slice \in [array : Nat, len : Nat]
             /\ r.slice.len = s.len + 1
             /\ r.slice.array = s.array \/ r.slice.array \notin DOMAIN heap
             /\ Within(r.heap, r.slice)
             /\ \A t : Within(heap, t) => Within(r.heap, t)
             /\ SubSeq(r.heap[r.slice.array], 1, r.slice.len)
                  = Append(SubSeq(heap[s.array], 1, s.len), a)
             /\ \A t : /\ Within(heap, t)
                       /\ t.array = r.slice.array => t.len <= s.len
                       => Kept(heap, r.heap, t)
PROOF
<1> DEFINE r == Append1(s, a)
<1>1. PICK array : array = heap[s.array]
  OBVIOUS
<1>2. /\ array \in Seq(Cell) /\ s.array \in 1 .. Len(heap) /\ Len(heap) \in Nat
      /\ s.len \in 1 .. Len(array) /\ Len(array) \in Nat /\ a \in Cell
      /\ heap \in Seq(Seq(Cell))
  BY <1>1 DEF Within, Heaps, Cell
<1> HIDE DEF r
<1>3. CASE s.len < Len(array)
  <2>1. PICK w : w = [array EXCEPT ![s.len + 1] = a]
    OBVIOUS
  <2>2. PICK g : g = [heap EXCEPT ![s.array] = w]
    OBVIOUS
  <2>3. PICK u : u = [array |-> s.array, len |-> s.len + 1]
    OBVIOUS
  <2>4. s.len + 1 \in 1 .. Len(array)
    BY <1>2, <1>3
  <2>5. /\ w \in Seq(Cell) /\ Len(w) = Len(array)
        /\ \A n \in 1 .. Len(array) : w[n] = IF n = s.len + 1 THEN a ELSE array[n]
    BY <1>2, <2>1, <2>4, ExceptSeq
  <2>6. /\ g \in Seq(Seq(Cell)) /\ Len(g) = Len(heap)
        /\ \A k \in 1 .. Len(heap) : g[k] = IF k = s.array THEN w ELSE heap[k]
    BY <1>2, <2>2, <2>5, ExceptSeq
  <2>7. r = [heap |-> g, slice |-> u]
    <3>1. [s EXCEPT !.len = s.len + 1] = u
      BY <2>3
    <3>2. [heap EXCEPT ![s.array][s.len + 1] = a] = g
      BY <1>1, <2>1, <2>2
    <3> QED
      BY <1>1, <1>3, <3>1, <3>2 DEF r, Append1
  <2>8. r.heap = g /\ r.slice = u /\ u.array = s.array /\ u.len = s.len + 1
    BY <2>3, <2>7
  <2>9. g \in Heaps /\ s.array \in DOMAIN g /\ g[s.array] = w
    BY <1>2, <2>6 DEF Heaps
  <2>10. /\ s.len + 1 <= Len(w) /\ w[s.len + 1] = a
         /\ \A n \in 1 .. s.len : w[n] = array[n]
    BY <1>2, <2>4, <2>5
  <2>11. /\ SubSeq(g[s.array], 1, s.len + 1) = Append(SubSeq(heap[s.array], 1, s.len), a)
         /\ Within(g, u)
    BY <1>1, <2>3, <2>9, <2>10, OneMore
  <2>12. ASSUME NEW t, Within(heap, t), t.array = s.array => t.len <= s.len
         PROVE  Kept(heap, g, t)
    <3>1. /\ t.array \in 1 .. Len(heap) /\ t.len \in 1 .. Len(heap[t.array])
      BY <1>2, <2>12 DEF Within
    <3>2. CASE t.array = s.array
      <4>1. t.len \in Nat /\ t.len <= s.len
        BY <2>12, <3>1, <3>2
      <4>2. \A n \in 1 .. t.len : w[n] = array[n]
        BY <1>2, <2>10, <4>1
      <4>3. g[t.array] = w /\ heap[t.array] = array /\ t.array \in DOMAIN g
        BY <1>1, <2>9, <3>2
      <4>4. t.len <= Len(w)
        <5>1. s.len + 1 <= Len(w) /\ Len(w) \in Nat /\ s.len \in Nat
          BY <1>2, <2>5, <2>10
        <5> QED
          BY <4>1, <5>1
      <4> QED
        BY <4>2, <4>3, <4>4 DEF Kept
    <3>3. CASE t.array # s.array
      <4>1. g[t.array] = heap[t.array] /\ t.array \in DOMAIN g
        BY <2>6, <3>1, <3>3
      <4> QED
        BY <3>1, <4>1 DEF Kept
    <3> QED
      BY <3>2, <3>3
  <2>13. u \in [array : Nat, len : Nat]
    BY <1>2, <2>3
  <2>14. ASSUME NEW t, Within(heap, t) PROVE Within(g, t)
    <3>1. /\ t.array \in 1 .. Len(heap) /\ t.len \in 1 .. Len(heap[t.array])
          /\ \A n \in 1 .. t.len : heap[t.array][n] \in Alert
      BY <1>2, <2>14 DEF Within
    <3>2. CASE t.array = s.array
      <4>1. g[t.array] = w /\ heap[t.array] = array /\ t.array \in DOMAIN g
        BY <1>1, <2>9, <3>2
      <4>2. t.len \in 1 .. Len(array) /\ \A n \in 1 .. t.len : array[n] \in Alert
        BY <3>1, <4>1
      <4>3. ASSUME NEW n \in 1 .. t.len PROVE w[n] \in Alert
        <5>1. n \in 1 .. Len(array) /\ array[n] \in Alert
          BY <1>2, <4>2
        <5> QED
          BY <2>5, <5>1
      <4>4. t.len \in 1 .. Len(w)
        BY <2>5, <4>2
      <4> QED
        BY <4>1, <4>3, <4>4 DEF Within
    <3>3. CASE t.array # s.array
      <4>1. g[t.array] = heap[t.array] /\ t.array \in DOMAIN g
        BY <2>6, <3>1, <3>3
      <4> QED
        BY <3>1, <4>1 DEF Within
    <3> QED
      BY <3>2, <3>3
  <2> QED
    BY <2>8, <2>9, <2>11, <2>12, <2>13, <2>14 DEF r
<1>4. CASE ~(s.len < Len(array))
  <2>1. PICK rest : rest = [n \in 1 .. Len(array) - 1 |-> NoAlert]
    OBVIOUS
  <2>2. PICK v : v = Append(array, a)
    OBVIOUS
  <2>3. PICK w : w = v \o rest
    OBVIOUS
  <2>4. PICK g : g = Append(heap, w)
    OBVIOUS
  <2>5. PICK u : u = [array |-> Len(heap) + 1, len |-> s.len + 1]
    OBVIOUS
  <2>6. rest \in Seq(Cell) /\ Len(rest) = Len(array) - 1
    BY <1>2, <2>1 DEF Cell
  <2>7. /\ v \in Seq(Cell) /\ Len(v) = Len(array) + 1 /\ v[Len(array) + 1] = a
        /\ \A n \in 1 .. Len(array) : v[n] = array[n]
    BY <1>2, <2>2, AppendProperties
  <2>8. /\ w \in Seq(Cell) /\ Len(w) = Len(v) + Len(rest)
        /\ \A n \in 1 .. Len(v) + Len(rest) :
             w[n] = IF n <= Len(v) THEN v[n] ELSE rest[n - Len(v)]
    BY <2>3, <2>6, <2>7, ConcatProperties
  <2>9. s.len = Len(array)
    BY <1>2, <1>4
  <2>10. /\ s.len + 1 <= Len(w) /\ w[s.len + 1] = a
         /\ \A n \in 1 .. s.len : w[n] = array[n]
    <3>1. Len(w) = 2 * Len(array)
      BY <1>2, <2>6, <2>7, <2>8
    <3>2. ASSUME NEW n \in 1 .. Len(v) PROVE w[n] = v[n]
      <4>1. n <= Len(v) /\ n \in 1 .. Len(v) + Len(rest)
        BY <1>2, <2>6, <2>7
      <4>2. w[n] = IF n <= Len(v) THEN v[n] ELSE rest[n - Len(v)]
        BY <2>8, <4>1, Zenon
      <4> QED
        BY <4>1, <4>2, Zenon
    <3>3. Len(array) + 1 \in 1 .. Len(v) /\ \A n \in 1 .. Len(array) : n \in 1 .. Len(v)
      BY <1>2, <2>7
    <3>4. s.len + 1 <= Len(w)
      BY <1>2, <2>9, <3>1
    <3>5. w[s.len + 1] = a
      BY <2>7, <2>9, <3>2, <3>3
    <3>6. \A n \in 1 .. s.len : w[n] = array[n]
      BY <2>7, <2>9, <3>2, <3>3
    <3> QED
      BY <3>4, <3>5, <3>6
  <2>11. /\ g \in Seq(Seq(Cell)) /\ Len(g) = Len(heap) + 1 /\ g[Len(heap) + 1] = w
         /\ \A k \in 1 .. Len(heap) : g[k] = heap[k]
    BY <1>2, <2>4, <2>8, AppendProperties
  <2>12. g \in Heaps /\ Len(heap) + 1 \in DOMAIN g /\ DOMAIN heap \subseteq DOMAIN g
    BY <1>2, <2>11 DEF Heaps
  <2>13. r = [heap |-> g, slice |-> u]
    BY <1>1, <1>4, <2>1, <2>2, <2>3, <2>4, <2>5 DEF r, Append1
  <2>14. r.heap = g /\ r.slice = u /\ u.array = Len(heap) + 1 /\ u.len = s.len + 1
    BY <2>5, <2>13
  <2>15. /\ SubSeq(g[Len(heap) + 1], 1, s.len + 1) = Append(SubSeq(heap[s.array], 1, s.len), a)
         /\ Within(g, u)
    BY <1>1, <2>5, <2>10, <2>11, <2>12, OneMore
  <2>16. ASSUME NEW t, Within(heap, t) PROVE Kept(heap, g, t) /\ Within(g, t)
    <3>1. /\ t.array \in 1 .. Len(heap) /\ t.len \in 1 .. Len(heap[t.array])
          /\ \A n \in 1 .. t.len : heap[t.array][n] \in Alert
      BY <1>2, <2>16 DEF Within
    <3>2. g[t.array] = heap[t.array] /\ t.array \in DOMAIN g
      BY <1>2, <2>11, <2>12, <3>1
    <3> QED
      BY <3>1, <3>2 DEF Kept, Within
  <2>17. u \in [array : Nat, len : Nat] /\ u.array \notin DOMAIN heap
    BY <1>2, <2>5
  <2> QED
    BY <2>12, <2>14, <2>15, <2>16, <2>17 DEF r
<1> QED
  BY <1>3, <1>4

\* The incident after append put the alert behind its slice.
LEMMA JoinedValue ==
  ASSUME NEW v \in Incident, NEW a \in Alert, NEW t \in Time, NEW h,
         NEW s \in [array : Nat, len : Nat],
         SubSeq(h[s.array], 1, s.len) = Append(v.alerts, a)
  PROVE  /\ WithSlice(Joined(v, a, t), s) \in Struct
         /\ WithSlice(Joined(v, a, t), s).id = v.id
         /\ WithSlice(Joined(v, a, t), s).alerts = s
         /\ Value(h, WithSlice(Joined(v, a, t), s)) = Joined(v, a, t)
PROOF
<1>1. PICK j : j = Joined(v, a, t)
  OBVIOUS
<1>2. j \in Incident /\ j.id = v.id
  BY <1>1, JoinedType
<1>3. j.alerts = Append(v.alerts, a)
  BY <1>1 DEF Joined, Incident
<1>4. PICK x : x = [j EXCEPT !.alerts = s]
  OBVIOUS
<1>5. x \in Struct /\ x.id = j.id /\ x.alerts = s
  BY <1>2, <1>4 DEF Incident, Struct
<1>6. Value(h, x) = [x EXCEPT !.alerts = j.alerts]
  BY <1>3, <1>5 DEF Value
<1>7. [x EXCEPT !.alerts = j.alerts] = j
  BY <1>2, <1>4 DEF Incident
<1>8. x = WithSlice(Joined(v, a, t), s)
  BY <1>1, <1>4 DEF WithSlice
<1>9. x \in Struct /\ x.id = v.id /\ x.alerts = s /\ Value(h, x) = Joined(v, a, t)
  BY <1>1, <1>2, <1>5, <1>6, <1>7
<1> QED
  BY <1>8, <1>9

\* The call that joined its incident.
LEMMA JoinEffects ==
  ASSUME TypeInv, NEW a \in Alert, Join(a)
  PROVE  /\ inc[a] \in Structs /\ inc[a] \in Struct /\ inc'[a] \in Struct
         /\ inc'[a].id = inc[a].id
         /\ inc'[a].alerts.len = inc[a].alerts.len + 1
         /\ \/ inc'[a].alerts.array = inc[a].alerts.array
            \/ inc'[a].alerts.array \notin DOMAIN heap
         /\ Value(heap', inc'[a]) = Joined(Value(heap, inc[a]), a, now[a])
         /\ heap' \in Heaps /\ Within(heap', inc'[a].alerts)
         /\ \A t : Within(heap, t) => Within(heap', t)
         /\ \A t : /\ Within(heap, t)
                   /\ t.array = inc'[a].alerts.array => t.len <= inc[a].alerts.len
                   => Kept(heap, heap', t)
         /\ \A b \in Alert : b # a => inc'[b] = inc[b] /\ pc'[b] = pc[b]
         /\ pc[a] = "found" /\ pc'[a] = "save"
         /\ inc' \in [Alert -> Struct \cup {NoIncident}] /\ pc' \in [Alert -> Positions]
PROOF
<1> DEFINE r == Append1(inc[a].alerts, a)
           v == Value(heap, inc[a])
           x == WithSlice(Joined(v, a, now[a]), r.slice)
<1>1. /\ pc[a] = "found" /\ pc' = [pc EXCEPT ![a] = "save"]
      /\ heap' = r.heap /\ inc' = [inc EXCEPT ![a] = x]
  BY DEF Join, ByValue, Value, WithSlice
<1>2. /\ inc[a] \in Struct /\ inc[a] \in Structs /\ now[a] \in Time
      /\ heap \in Heaps /\ Within(heap, inc[a].alerts)
  <2>1. inc[a] \in Struct
    BY <1>1 DEF TypeInv
  <2>2. inc[a] \in Structs
    BY <2>1, MemoryAssumption DEF Structs, Holders, MemoryAssumption
  <2> QED
    BY <2>1, <2>2 DEF TypeInv
<1>3. inc[a].alerts \in [array : Nat, len : Nat]
  BY <1>2 DEF Struct
<1>4. v \in Incident /\ v.id = inc[a].id
  BY <1>2, ValueType
<1>5. v.alerts = SubSeq(heap[inc[a].alerts.array], 1, inc[a].alerts.len)
  BY <1>2 DEF Value, Struct
<1> HIDE DEF r, v
<1>6. /\ r.heap \in Heaps /\ r.slice \in [array : Nat, len : Nat]
      /\ r.slice.len = inc[a].alerts.len + 1
      /\ r.slice.array = inc[a].alerts.array \/ r.slice.array \notin DOMAIN heap
      /\ Within(r.heap, r.slice)
      /\ \A t : Within(heap, t) => Within(r.heap, t)
      /\ SubSeq(r.heap[r.slice.array], 1, r.slice.len) = Append(v.alerts, a)
      /\ \A t : /\ Within(heap, t)
                /\ t.array = r.slice.array => t.len <= inc[a].alerts.len
                => Kept(heap, r.heap, t)
  BY <1>2, <1>3, <1>5, Appended DEF r
<1>7. /\ x \in Struct /\ x.id = v.id /\ x.alerts = r.slice
      /\ Value(r.heap, x) = Joined(v, a, now[a])
  <2>1. SubSeq(r.heap[r.slice.array], 1, r.slice.len) = Append(v.alerts, a)
    BY <1>6
  <2>2. PICK h, s, t, u : h = r.heap /\ s = r.slice /\ t = now[a] /\ u = v
    OBVIOUS
  <2>3. /\ u \in Incident /\ t \in Time /\ s \in [array : Nat, len : Nat]
        /\ SubSeq(h[s.array], 1, s.len) = Append(u.alerts, a)
    BY <1>2, <1>4, <1>6, <2>1, <2>2
  <2>4. /\ WithSlice(Joined(u, a, t), s) \in Struct
        /\ WithSlice(Joined(u, a, t), s).id = u.id
        /\ WithSlice(Joined(u, a, t), s).alerts = s
        /\ Value(h, WithSlice(Joined(u, a, t), s)) = Joined(u, a, t)
    BY <2>3, JoinedValue
  <2>5. x = WithSlice(Joined(u, a, t), s)
    BY <2>2
  <2> QED
    BY <2>2, <2>4, <2>5
<1> HIDE DEF x
<1>8. /\ inc'[a] = x /\ inc' \in [Alert -> Struct \cup {NoIncident}]
      /\ pc'[a] = "save" /\ pc' \in [Alert -> Positions]
      /\ \A b \in Alert : b # a => inc'[b] = inc[b] /\ pc'[b] = pc[b]
  BY <1>1, <1>7 DEF TypeInv, Positions
<1> QED
  BY <1>1, <1>2, <1>4, <1>6, <1>7, <1>8 DEF v

\* The call that made a new incident, in an array of its own.
LEMMA CreateEffects ==
  ASSUME TypeInv, NEW a \in Alert, Create(a)
  PROVE  /\ inc'[a] \in Struct /\ inc'[a].id = clock
         /\ inc'[a].alerts.array \notin DOMAIN heap
         /\ Value(heap', inc'[a]) = NewIncident(a, clock, now[a])
         /\ heap' \in Heaps /\ Within(heap', inc'[a].alerts)
         /\ \A t : Within(heap, t) => Within(heap', t) /\ Kept(heap, heap', t)
         /\ \A b \in Alert : b # a => inc'[b] = inc[b] /\ pc'[b] = pc[b]
         /\ pc[a] = "create" /\ pc'[a] = "save"
         /\ inc' \in [Alert -> Struct \cup {NoIncident}] /\ pc' \in [Alert -> Positions]
PROOF
<1> DEFINE n == NewIncident(a, clock, now[a])
           s == [array |-> Len(heap) + 1, len |-> 1]
           x == [n EXCEPT !.alerts = s]
<1>1. /\ pc[a] = "create" /\ pc' = [pc EXCEPT ![a] = "save"]
      /\ heap' = Append(heap, << a >>) /\ inc' = [inc EXCEPT ![a] = x]
  BY DEF Create
<1>2. clock \in Time /\ now[a] \in Time /\ heap \in Seq(Seq(Cell)) /\ a \in Cell
  BY DEF TypeInv, Heaps, Cell
<1>3. n \in Incident /\ n.id = clock /\ n.alerts = << a >>
  <2>1. n \in Incident
    BY <1>2, NewIncidentType
  <2> QED
    BY <2>1 DEF NewIncident
<1>4. PICK w : w = << a >>
  OBVIOUS
<1>5. w \in Seq(Cell) /\ Len(w) = 1 /\ w[1] = a
  BY <1>2, <1>4
<1>6. PICK g : g = Append(heap, w)
  OBVIOUS
<1>7. /\ g \in Seq(Seq(Cell)) /\ Len(g) = Len(heap) + 1 /\ g[Len(heap) + 1] = w
      /\ \A k \in 1 .. Len(heap) : g[k] = heap[k]
  BY <1>2, <1>5, <1>6, AppendProperties
<1>8. Len(heap) \in Nat /\ DOMAIN heap = 1 .. Len(heap) /\ DOMAIN g = 1 .. Len(heap) + 1
  BY <1>2, <1>7
<1>9. s \in [array : Nat, len : Nat] /\ s.array = Len(heap) + 1 /\ s.len = 1
  BY <1>8
<1> HIDE DEF n, s
<1>10. x \in Struct /\ x.id = clock /\ x.alerts = s
  BY <1>3, <1>9 DEF Incident, Struct
<1>11. SubSeq(g[s.array], 1, s.len) = n.alerts
  <2>1. SubSeq(w, 1, 1) = w
    BY <1>5, SubSeqFull
  <2> QED
    BY <1>3, <1>4, <1>7, <1>9, <2>1
<1>12. Value(g, x) = n
  <2>1. Value(g, x) = [x EXCEPT !.alerts = n.alerts]
    BY <1>10, <1>11 DEF Value
  <2>2. [x EXCEPT !.alerts = n.alerts] = n
    BY <1>3 DEF Incident
  <2> QED
    BY <2>1, <2>2
<1>13. Within(g, s)
  <2>1. \A k \in 1 .. 1 : w[k] \in Alert
    BY <1>5
  <2> QED
    BY <1>5, <1>7, <1>8, <1>9, <2>1 DEF Within
<1>14. ASSUME NEW t, Within(heap, t) PROVE Within(g, t) /\ Kept(heap, g, t)
  <2>1. /\ t.array \in 1 .. Len(heap) /\ t.len \in 1 .. Len(heap[t.array])
        /\ \A k \in 1 .. t.len : heap[t.array][k] \in Alert
    BY <1>8, <1>14 DEF Within
  <2>2. g[t.array] = heap[t.array] /\ t.array \in DOMAIN g
    BY <1>7, <1>8, <2>1
  <2> QED
    BY <2>1, <2>2 DEF Kept, Within
<1> HIDE DEF x
<1>15. /\ inc'[a] = x /\ inc' \in [Alert -> Struct \cup {NoIncident}]
       /\ pc'[a] = "save" /\ pc' \in [Alert -> Positions]
       /\ \A b \in Alert : b # a => inc'[b] = inc[b] /\ pc'[b] = pc[b]
  BY <1>1, <1>10 DEF TypeInv, Positions
<1>16. heap' = g /\ g \in Heaps /\ s.array \notin DOMAIN heap
  BY <1>1, <1>4, <1>6, <1>7, <1>8, <1>9 DEF Heaps
<1>17. Value(heap', inc'[a]) = NewIncident(a, clock, now[a])
  BY <1>12, <1>15, <1>16, Zenon DEF n
<1>18. /\ inc'[a] \in Struct /\ inc'[a].id = clock /\ inc'[a].alerts = s
       /\ s.array \notin DOMAIN heap
       /\ heap' \in Heaps /\ Within(heap', s)
  BY <1>10, <1>13, <1>15, <1>16, Zenon
<1>19. \A t : Within(heap, t) => Within(heap', t) /\ Kept(heap, heap', t)
  BY <1>14, <1>16, Zenon
<1> QED
  BY <1>1, <1>15, <1>17, <1>18, <1>19, Zenon

-----------------------------------------------------------------------------
(* Type correctness, for any number of concurrent calls. *)

\* A step but Join and Create leaves the arrays alone and makes no new struct.
LEMMA NoNewStruct ==
  ASSUME TypeInv, heap' = heap, Structs' \subseteq Structs
  PROVE  \A i \in Structs' : Within(heap', i.alerts)
  BY DEF TypeInv

\* The calls that find an incident, save one or read one copy structs.
LEMMA FindExistingEffects ==
  ASSUME TypeInv, NEW a \in Alert, FindExisting(a)
  PROVE  /\ inc'[a] \in incidents /\ inc'[a] \in Struct
         /\ inc'[a] \in FindOpenByCorrelationKey(incidents, KeyOf(a), clock)
         /\ \A b \in Alert : b # a => inc'[b] = inc[b] /\ pc'[b] = pc[b]
         /\ pc[a] = "find" /\ pc'[a] = "found" /\ heap' = heap
         /\ shared' = shared \cup ({inc'[a].alerts.array} \cap HeldArrays)
         /\ inc' \in [Alert -> Struct \cup {NoIncident}] /\ pc' \in [Alert -> Positions]
         /\ Structs' \subseteq Structs
PROOF
<1>1. PICK c \in FindOpenByCorrelationKey(incidents, KeyOf(a), clock) :
        /\ inc' = [inc EXCEPT ![a] = c]
        /\ shared' = shared \cup ({c.alerts.array} \cap HeldArrays)
  BY DEF FindExisting
<1>2. c \in incidents /\ c \in Struct
  BY DEF FindOpenByCorrelationKey, Candidates, TypeInv
<1>3. /\ inc'[a] = c /\ inc' \in [Alert -> Struct \cup {NoIncident}]
      /\ \A b \in Alert : b # a => inc'[b] = inc[b]
  BY <1>1, <1>2 DEF TypeInv
<1>4. /\ pc[a] = "find" /\ pc'[a] = "found" /\ pc' \in [Alert -> Positions]
      /\ \A b \in Alert : b # a => pc'[b] = pc[b]
      /\ heap' = heap /\ incidents' = incidents /\ view' = view
  BY DEF FindExisting, TypeInv, Positions
<1>5. Structs' \subseteq Structs
  BY <1>2, <1>3, <1>4 DEF Structs, Holders
<1> QED
  BY <1>1, <1>2, <1>3, <1>4, <1>5

\* The call that saved its copy.
LEMMA SaveEffects ==
  ASSUME TypeInv, NEW a \in Alert, SaveIncident(a)
  PROVE  /\ inc[a] \in Struct /\ inc[a] \in Structs
         /\ incidents' = Save(incidents, inc[a]) /\ incidents' \subseteq Struct
         /\ incidents' \subseteq incidents \cup {inc[a]}
         /\ \A b \in Alert : b # a => pc'[b] = pc[b]
         /\ pc[a] = "save" /\ pc'[a] = "ok" /\ heap' = heap /\ inc' = inc
         /\ pc' \in [Alert -> Positions]
         /\ Structs' \subseteq Structs
PROOF
<1>1. /\ pc[a] = "save" /\ pc'[a] = "ok" /\ pc' \in [Alert -> Positions]
      /\ \A b \in Alert : b # a => pc'[b] = pc[b]
      /\ heap' = heap /\ inc' = inc /\ view' = view
      /\ incidents' = Save(incidents, inc[a])
  BY DEF SaveIncident, TypeInv, Positions
<1>2. inc[a] \in Struct /\ inc[a] # NoIncident
  BY <1>1, MemoryAssumption DEF TypeInv, MemoryAssumption
<1>3. incidents' \subseteq incidents \cup {inc[a]}
  BY <1>1 DEF Save
<1>4. incidents' \subseteq Struct
  BY <1>2, <1>3 DEF TypeInv
<1>5. Structs' \subseteq Structs /\ inc[a] \in Structs
  BY <1>1, <1>2, <1>3 DEF Structs, Holders
<1> QED
  BY <1>1, <1>2, <1>3, <1>4, <1>5

\* The loop that read an incident.
LEMMA GetByIDEffects ==
  ASSUME TypeInv, GetByID
  PROVE  view' \in incidents /\ view' \in Struct /\ Structs' \subseteq Structs
PROOF
<1>1. view' \in incidents /\ incidents' = incidents /\ inc' = inc
  BY DEF GetByID
<1>2. view' \in Struct
  BY <1>1 DEF TypeInv
<1> QED
  BY <1>1, <1>2 DEF Structs, Holders

\* The incident a call joined or created is the one struct that is new.
LEMMA OneNewStruct ==
  ASSUME NEW a \in Alert, incidents' = incidents, view' = view,
         \A b \in Alert : b # a => inc'[b] = inc[b]
  PROVE  Structs' \subseteq Structs \cup {inc'[a]}
  BY DEF Structs, Holders

\* At the start nothing is allocated, and each step keeps slices within arrays.
LEMMA TypeInit == Init => TypeInv
PROOF
<1> SUFFICES ASSUME Init PROVE TypeInv
  OBVIOUS
<1>1. 0 \in Time
  BY IncidentsAssumption DEF Time
<1>2. Structs = {}
  BY DEF Init, Structs, Holders
<1>3. heap \in Heaps
  BY DEF Init, Heaps
<1> QED
  BY <1>1, <1>2, <1>3 DEF Init, TypeInv, Positions

LEMMA TypeStep == TypeInv /\ [Next]_vars => TypeInv'
PROOF
<1> SUFFICES ASSUME TypeInv, [Next]_vars PROVE TypeInv'
  OBVIOUS
<1>1. CASE Tick \/ UNCHANGED vars
  <2>1. /\ UNCHANGED << incidents, pc, now, inc, heap, view >> /\ clock' \in Time
    BY <1>1, IncidentsAssumption DEF Tick, vars, TypeInv, Time
  <2>2. Structs' = Structs
    BY <2>1 DEF Structs, Holders
  <2> QED
    BY <2>1, <2>2 DEF TypeInv
<1>2. ASSUME NEW a \in Alert, Receive(a) \/ FindNothing(a)
      PROVE  TypeInv'
  <2>1. /\ UNCHANGED << clock, incidents, inc, heap, view >>
        /\ now' \in [Alert -> Time] /\ pc' \in [Alert -> Positions]
        /\ \A b \in Alert : pc'[b] \in {"found", "save", "ok"} => pc'[b] = pc[b]
    BY <1>2 DEF Receive, FindNothing, TypeInv, Positions
  <2>2. Structs' = Structs
    BY <2>1 DEF Structs, Holders
  <2> QED
    BY <2>1, <2>2 DEF TypeInv
<1>3. ASSUME NEW a \in Alert, FindExisting(a)
      PROVE  TypeInv'
  <2>1. UNCHANGED << clock, incidents, now, view >>
    BY <1>3 DEF FindExisting
  <2>2. \A i \in Structs' : Within(heap', i.alerts)
    BY <1>3, FindExistingEffects, NoNewStruct
  <2>3. \A b \in Alert : pc'[b] \in {"found", "save", "ok"} => inc'[b] \in Struct
    BY <1>3, FindExistingEffects DEF TypeInv
  <2> QED
    BY <1>3, <2>1, <2>2, <2>3, FindExistingEffects DEF TypeInv
<1>4. ASSUME NEW a \in Alert, Join(a)
      PROVE  TypeInv'
  <2>1. UNCHANGED << clock, incidents, now, view >>
    BY <1>4 DEF Join
  <2>2. /\ heap' \in Heaps /\ Within(heap', inc'[a].alerts)
        /\ \A t : Within(heap, t) => Within(heap', t)
        /\ \A b \in Alert : b # a => inc'[b] = inc[b] /\ pc'[b] = pc[b]
        /\ inc' \in [Alert -> Struct \cup {NoIncident}] /\ pc' \in [Alert -> Positions]
        /\ inc'[a] \in Struct
    BY <1>4, JoinEffects
  <2>3. Structs' \subseteq Structs \cup {inc'[a]}
    BY <2>1, <2>2, OneNewStruct
  <2>4. \A i \in Structs' : Within(heap', i.alerts)
    BY <2>2, <2>3 DEF TypeInv
  <2>5. \A b \in Alert : pc'[b] \in {"found", "save", "ok"} => inc'[b] \in Struct
    BY <2>2 DEF TypeInv
  <2> QED
    BY <2>1, <2>2, <2>4, <2>5 DEF TypeInv
<1>5. ASSUME NEW a \in Alert, Create(a)
      PROVE  TypeInv'
  <2>1. UNCHANGED << clock, incidents, now, view >>
    BY <1>5 DEF Create
  <2>2. /\ heap' \in Heaps /\ Within(heap', inc'[a].alerts)
        /\ \A t : Within(heap, t) => Within(heap', t)
        /\ \A b \in Alert : b # a => inc'[b] = inc[b] /\ pc'[b] = pc[b]
        /\ inc' \in [Alert -> Struct \cup {NoIncident}] /\ pc' \in [Alert -> Positions]
        /\ inc'[a] \in Struct
    BY <1>5, CreateEffects
  <2>3. Structs' \subseteq Structs \cup {inc'[a]}
    BY <2>1, <2>2, OneNewStruct
  <2>4. \A i \in Structs' : Within(heap', i.alerts)
    BY <2>2, <2>3 DEF TypeInv
  <2>5. \A b \in Alert : pc'[b] \in {"found", "save", "ok"} => inc'[b] \in Struct
    BY <2>2 DEF TypeInv
  <2> QED
    BY <2>1, <2>2, <2>4, <2>5 DEF TypeInv
<1>6. ASSUME NEW a \in Alert, SaveIncident(a)
      PROVE  TypeInv'
  <2>1. UNCHANGED << clock, now, view >>
    BY <1>6 DEF SaveIncident
  <2>2. \A i \in Structs' : Within(heap', i.alerts)
    BY <1>6, SaveEffects, NoNewStruct
  <2>3. \A b \in Alert : pc'[b] \in {"found", "save", "ok"} => inc'[b] \in Struct
    BY <1>6, SaveEffects DEF TypeInv
  <2> QED
    BY <1>6, <2>1, <2>2, <2>3, SaveEffects DEF TypeInv
<1>7. CASE GetByID
  <2>1. UNCHANGED << clock, incidents, pc, now, inc, heap >>
    BY <1>7 DEF GetByID
  <2>2. \A i \in Structs' : Within(heap', i.alerts)
    BY <1>7, <2>1, GetByIDEffects, NoNewStruct
  <2> QED
    BY <1>7, <2>1, <2>2, GetByIDEffects DEF TypeInv
<1> QED
  BY <1>1, <1>2, <1>3, <1>4, <1>5, <1>6, <1>7 DEF Next, ProcessAlert

\* What is written within every slice makes it an incident by value.
LEMMA TypeInvTypeOK == TypeInv => TypeOK
PROOF
<1> SUFFICES ASSUME TypeInv, NEW i \in Structs
             PROVE  /\ i.alerts.array \in DOMAIN heap
                    /\ i.alerts.len \in 1 .. Len(heap[i.alerts.array])
                    /\ ByValue(i) \in Incident
  BY DEF TypeOK, Structs
<1>1. i \in Struct /\ Within(heap, i.alerts) /\ heap \in Heaps
  BY DEF TypeInv, Structs, Holders
<1>2. Value(heap, i) \in Incident
  BY <1>1, ValueType
<1>3. ByValue(i) = Value(heap, i)
  BY DEF ByValue, Value
<1> QED
  BY <1>1, <1>2, <1>3 DEF Within

\* Every slice the store, a call or a reader holds lies within an array that
\* was allocated and written that far, however many calls append at once.
THEOREM Typing == Spec => []TypeOK
PROOF
<1>1. Spec => []TypeInv
  BY TypeInit, TypeStep, PTL DEF Spec
<1> QED
  BY <1>1, TypeInvTypeOK, PTL

-----------------------------------------------------------------------------
(* Arrays that no two calls held. *)

IInv == TypeInv /\ HoldInv /\ LongestInv

\* At the start there is no struct.
LEMMA LongestInit == Init => HoldInv /\ LongestInv
PROOF
<1> SUFFICES ASSUME Init PROVE HoldInv /\ LongestInv
  OBVIOUS
<1>1. Structs = {}
  BY DEF Init, Structs, Holders
<1> QED
  BY <1>1 DEF Init, HoldInv, LongestInv

\* The array of a call's copy is allocated.
LEMMA HeldAllocated ==
  ASSUME TypeInv, NEW b \in Alert, pc[b] \in {"found", "save"}
  PROVE  inc[b].alerts.array \in DOMAIN heap
PROOF
<1>1. inc[b] \in Structs
  BY MemoryAssumption DEF TypeInv, MemoryAssumption, Structs, Holders
<1> QED
  BY <1>1 DEF TypeInv, Within

\* A call that takes an array another one holds makes it shared; every other
\* array a call gets is new.
LEMMA HoldStep ==
  ASSUME TypeInv, HoldInv, [Next]_vars
  PROVE  HoldInv'
PROOF
<1>1. ASSUME inc' = inc, shared' = shared,
             \A b \in Alert : pc'[b] \in {"found", "save"} => pc[b] \in {"found", "save"}
      PROVE  HoldInv'
  BY <1>1 DEF HoldInv
<1>2. CASE Tick \/ GetByID \/ UNCHANGED vars
  BY <1>1, <1>2 DEF Tick, GetByID, vars, history
<1>3. ASSUME NEW a \in Alert, Receive(a) \/ FindNothing(a) \/ SaveIncident(a)
      PROVE  HoldInv'
  <2>1. /\ inc' = inc /\ shared' = shared
        /\ \A b \in Alert : pc'[b] \in {"found", "save"} => pc[b] \in {"found", "save"}
    BY <1>3 DEF Receive, FindNothing, SaveIncident, history, TypeInv
  <2> QED
    BY <1>1, <2>1
<1>4. ASSUME NEW a \in Alert, FindExisting(a)
      PROVE  HoldInv'
  <2>1. /\ \A b \in Alert : b # a => inc'[b] = inc[b] /\ pc'[b] = pc[b]
        /\ shared' = shared \cup ({inc'[a].alerts.array} \cap HeldArrays)
    BY <1>4, FindExistingEffects
  <2>2. ASSUME NEW b \in Alert, b # a, pc'[b] \in {"found", "save"},
               inc'[b].alerts.array = inc'[a].alerts.array
        PROVE  inc'[a].alerts.array \in shared'
    BY <2>1, <2>2 DEF HeldArrays
  <2> QED
    BY <2>1, <2>2 DEF HoldInv
<1>5. ASSUME NEW a \in Alert, Join(a)
      PROVE  HoldInv'
  <2>1. /\ \A b \in Alert : b # a => inc'[b] = inc[b] /\ pc'[b] = pc[b]
        /\ pc[a] = "found"
        /\ \/ inc'[a].alerts.array = inc[a].alerts.array
           \/ inc'[a].alerts.array \notin DOMAIN heap
    BY <1>5, JoinEffects
  <2>2. shared' = shared
    BY <1>5 DEF Join, history
  <2>3. ASSUME NEW b \in Alert, pc[b] \in {"found", "save"}
        PROVE  inc[b].alerts.array \in DOMAIN heap
    BY <2>3, HeldAllocated
  <2> QED
    BY <2>1, <2>2, <2>3 DEF HoldInv
<1>6. ASSUME NEW a \in Alert, Create(a)
      PROVE  HoldInv'
  <2>1. /\ \A b \in Alert : b # a => inc'[b] = inc[b] /\ pc'[b] = pc[b]
        /\ inc'[a].alerts.array \notin DOMAIN heap
    BY <1>6, CreateEffects
  <2>2. shared' = shared
    BY <1>6 DEF Create
  <2>3. ASSUME NEW b \in Alert, pc[b] \in {"found", "save"}
        PROVE  inc[b].alerts.array \in DOMAIN heap
    BY <2>3, HeldAllocated
  <2> QED
    BY <2>1, <2>2, <2>3 DEF HoldInv
<1> QED
  BY <1>2, <1>3, <1>4, <1>5, <1>6 DEF Next, ProcessAlert

\* Every step keeps it.
LEMMA LongestStep ==
  ASSUME IInv, [Next]_vars
  PROVE  LongestInv'
PROOF
<1> USE DEF IInv
<1>1. CASE Tick \/ UNCHANGED vars
  <2>1. UNCHANGED << incidents, pc, inc, view, shared >>
    BY <1>1 DEF Tick, vars, history
  <2>2. Structs' = Structs
    BY <2>1 DEF Structs, Holders
  <2> QED
    BY <2>1, <2>2 DEF LongestInv, Longest
<1>2. ASSUME NEW a \in Alert, Receive(a) \/ FindNothing(a)
      PROVE  LongestInv'
  <2>1. /\ UNCHANGED << incidents, inc, view, shared >>
        /\ \A b \in Alert : pc'[b] \in {"found", "save"} <=> pc[b] \in {"found", "save"}
        /\ \A b \in Alert : pc'[b] = "save" <=> pc[b] = "save"
    BY <1>2 DEF Receive, FindNothing, history, TypeInv
  <2>2. Structs' = Structs
    BY <2>1 DEF Structs, Holders
  <2> QED
    BY <2>1, <2>2 DEF LongestInv, Longest
<1>3. ASSUME NEW a \in Alert, FindExisting(a)
      PROVE  LongestInv'
  <2>1. incidents' = incidents
    BY <1>3 DEF FindExisting
  <2>2. /\ inc'[a] \in incidents /\ Structs' \subseteq Structs
        /\ pc[a] = "find" /\ pc'[a] = "found"
        /\ \A b \in Alert : b # a => inc'[b] = inc[b] /\ pc'[b] = pc[b]
        /\ shared' = shared \cup ({inc'[a].alerts.array} \cap HeldArrays)
    BY <1>3, FindExistingEffects
  <2>3. \A i : Longest(i) => Longest(i)'
    BY <2>2 DEF Longest
  <2>4. ASSUME NEW i \in incidents', i.alerts.array \notin shared',
               \A b \in Alert : pc'[b] = "save" => inc'[b].alerts.array # i.alerts.array
        PROVE  Longest(i)'
    <3>1. \A b \in Alert : pc[b] = "save" => inc[b].alerts.array # i.alerts.array
      BY <2>2, <2>4
    <3> QED
      BY <2>1, <2>2, <2>3, <2>4, <3>1 DEF LongestInv
  <2>5. inc'[a].alerts.array \notin shared' => Longest(inc[a])'
    <3> SUFFICES ASSUME inc'[a].alerts.array \notin shared' PROVE Longest(inc[a])'
      OBVIOUS
    <3>1. PICK c : c = inc'[a]
      OBVIOUS
    <3>2. \A b \in Alert : pc[b] = "save" => inc[b].alerts.array # c.alerts.array
      BY <2>2, <3>1 DEF HeldArrays
    <3>3. Longest(c)
      BY <2>2, <3>1, <3>2 DEF LongestInv
    <3> QED
      BY <2>2, <3>1, <3>3 DEF Longest
  <2>6. ASSUME NEW b \in Alert, b # a, pc'[b] \in {"found", "save"},
               inc'[b].alerts.array \notin shared'
        PROVE  Longest(inc[b])'
    <3>1. Longest(inc[b])
      BY <2>2, <2>6 DEF LongestInv
    <3> QED
      BY <2>2, <2>6, <3>1 DEF Longest
  <2> QED
    BY <2>1, <2>2, <2>4, <2>5, <2>6 DEF LongestInv
<1>4. ASSUME NEW a \in Alert, Join(a)
      PROVE  LongestInv'
  <2>1. incidents' = incidents /\ view' = view /\ shared' = shared
    BY <1>4 DEF Join, history
  <2>2. /\ inc[a] \in Structs /\ inc'[a].id = inc[a].id
        /\ inc'[a].alerts.len = inc[a].alerts.len + 1
        /\ \/ inc'[a].alerts.array = inc[a].alerts.array
           \/ inc'[a].alerts.array \notin DOMAIN heap
        /\ \A b \in Alert : b # a => inc'[b] = inc[b] /\ pc'[b] = pc[b]
        /\ pc[a] = "found" /\ pc'[a] = "save" /\ inc[a] \in Struct
    BY <1>4, JoinEffects
  <2>3. PICK c : c = inc'[a]
    OBVIOUS
  <2>4. Structs' \subseteq Structs \cup {c}
    BY <2>1, <2>2, <2>3, OneNewStruct
  <2>5. \A i \in Structs : i.alerts.array \in DOMAIN heap /\ i.alerts.len \in Nat
    BY DEF TypeInv, Within, Structs, Holders, Struct
  <2>6. inc[a].alerts.len \in Nat /\ c.alerts.len \in Nat
    BY <2>2, <2>3, <2>5
  <2>7. \A i \in Structs : i.alerts.array = c.alerts.array => i.id = c.id
    <3>1. \A i \in Structs : i.alerts.array = inc[a].alerts.array => i.id = inc[a].id
      BY <2>2 DEF LongestInv
    <3> QED
      BY <2>2, <2>3, <2>5, <3>1
  <2>8. \A i, j \in Structs' : i.alerts.array = j.alerts.array => i.id = j.id
    BY <2>4, <2>7 DEF LongestInv
  <2>9. c.alerts.array \notin shared =>
          \A j \in Structs : j.alerts.array = c.alerts.array => j.alerts.len <= c.alerts.len
    <3> SUFFICES ASSUME c.alerts.array \notin shared, NEW j \in Structs,
                        j.alerts.array = c.alerts.array
                 PROVE  j.alerts.len <= c.alerts.len
      OBVIOUS
    <3>1. c.alerts.array = inc[a].alerts.array
      BY <2>2, <2>3, <2>5
    <3>2. Longest(inc[a])
      BY <2>2, <3>1 DEF LongestInv
    <3>3. j.alerts.len <= inc[a].alerts.len /\ j.alerts.len \in Nat
      BY <2>5, <3>1, <3>2 DEF Longest
    <3> QED
      BY <2>2, <2>3, <2>6, <3>3
  <2>10. \A i : Longest(i) /\ i.alerts.array # c.alerts.array => Longest(i)'
    BY <2>4 DEF Longest
  <2>11. c.alerts.array \notin shared' => Longest(inc[a])'
    BY <2>1, <2>3, <2>4, <2>6, <2>9 DEF Longest
  <2>12. ASSUME NEW i \in incidents', i.alerts.array \notin shared',
                \A b \in Alert : pc'[b] = "save" => inc'[b].alerts.array # i.alerts.array
         PROVE  Longest(i)'
    <3>1. i.alerts.array # c.alerts.array
      BY <2>2, <2>3, <2>12
    <3>2. \A b \in Alert : pc[b] = "save" => inc[b].alerts.array # i.alerts.array
      BY <2>2, <2>12
    <3>3. Longest(i)
      BY <2>1, <2>12, <3>2 DEF LongestInv
    <3> QED
      BY <2>10, <3>1, <3>3
  <2>13. ASSUME NEW b \in Alert, b # a, pc'[b] \in {"found", "save"},
                inc'[b].alerts.array \notin shared'
         PROVE  Longest(inc[b])'
    <3>1. inc'[b] = inc[b] /\ pc[b] \in {"found", "save"} /\ inc[b].alerts.array \notin shared
      BY <2>1, <2>2, <2>13
    <3>2. inc[b].alerts.array # inc[a].alerts.array
      BY <2>2, <2>13, <3>1 DEF HoldInv
    <3>3. inc[b].alerts.array \in DOMAIN heap
      BY <3>1, HeldAllocated
    <3>4. inc[b].alerts.array # c.alerts.array
      BY <2>2, <2>3, <3>2, <3>3
    <3>5. Longest(inc[b])
      BY <3>1 DEF LongestInv
    <3> QED
      BY <2>4, <3>1, <3>4, <3>5 DEF Longest
  <2>14. \A i, j \in incidents' : i.id = j.id => i = j
    BY <2>1 DEF LongestInv
  <2> QED
    BY <2>8, <2>11, <2>12, <2>13, <2>14, <2>3 DEF LongestInv
<1>5. ASSUME NEW a \in Alert, Create(a)
      PROVE  LongestInv'
  <2>1. incidents' = incidents /\ view' = view /\ shared' = shared
    BY <1>5 DEF Create
  <2>2. /\ inc'[a].alerts.array \notin DOMAIN heap
        /\ \A b \in Alert : b # a => inc'[b] = inc[b] /\ pc'[b] = pc[b]
        /\ pc[a] = "create" /\ pc'[a] = "save" /\ inc'[a] \in Struct
    BY <1>5, CreateEffects
  <2>3. PICK c : c = inc'[a]
    OBVIOUS
  <2>4. Structs' \subseteq Structs \cup {c}
    BY <2>1, <2>2, <2>3, OneNewStruct
  <2>5. \A i \in Structs : i.alerts.array # c.alerts.array
    BY <2>2, <2>3 DEF TypeInv, Within
  <2>6. \A i, j \in Structs' : i.alerts.array = j.alerts.array => i.id = j.id
    BY <2>4, <2>5 DEF LongestInv
  <2>7. c.alerts.len \in Nat
    BY <2>2, <2>3 DEF Struct
  <2>8. Longest(inc[a])'
    BY <2>3, <2>4, <2>5, <2>7 DEF Longest
  <2>9. \A i \in Structs : Longest(i) => Longest(i)'
    BY <2>4, <2>5 DEF Longest
  <2>10. ASSUME NEW i \in incidents', i.alerts.array \notin shared',
                \A b \in Alert : pc'[b] = "save" => inc'[b].alerts.array # i.alerts.array
         PROVE  Longest(i)'
    <3>1. \A b \in Alert : pc[b] = "save" => inc[b].alerts.array # i.alerts.array
      BY <2>2, <2>10
    <3>2. Longest(i)
      BY <2>1, <2>10, <3>1 DEF LongestInv
    <3>3. i \in Structs
      BY <2>1, <2>10, MemoryAssumption DEF MemoryAssumption, Structs, Holders, TypeInv
    <3> QED
      BY <2>9, <3>2, <3>3
  <2>11. ASSUME NEW b \in Alert, b # a, pc'[b] \in {"found", "save"},
                inc'[b].alerts.array \notin shared'
         PROVE  Longest(inc[b])'
    <3>1. inc'[b] = inc[b] /\ pc[b] \in {"found", "save"} /\ inc[b].alerts.array \notin shared
      BY <2>1, <2>2, <2>11
    <3>2. Longest(inc[b])
      BY <3>1 DEF LongestInv
    <3>3. inc[b].alerts.array # c.alerts.array
      BY <2>2, <2>3, <3>1, HeldAllocated
    <3> QED
      BY <2>4, <3>1, <3>2, <3>3 DEF Longest
  <2>12. \A i, j \in incidents' : i.id = j.id => i = j
    BY <2>1 DEF LongestInv
  <2> QED
    BY <2>6, <2>8, <2>10, <2>11, <2>12 DEF LongestInv
<1>6. ASSUME NEW a \in Alert, SaveIncident(a)
      PROVE  LongestInv'
  <2>1. /\ pc[a] = "save" /\ pc'[a] = "ok" /\ inc' = inc /\ inc[a] \in Structs
        /\ \A b \in Alert : b # a => pc'[b] = pc[b]
        /\ incidents' = {i \in incidents : i.id # inc[a].id} \cup {inc[a]}
        /\ Structs' \subseteq Structs
    BY <1>6, SaveEffects DEF Save
  <2>2. shared' = shared
    BY <1>6 DEF SaveIncident, history
  <2>3. \A i, j \in incidents' : i.id = j.id => i = j
    BY <2>1 DEF LongestInv
  <2>4. \A i : Longest(i) => Longest(i)'
    BY <2>1 DEF Longest
  <2>5. ASSUME NEW i \in incidents', i.alerts.array \notin shared',
               \A b \in Alert : pc'[b] = "save" => inc'[b].alerts.array # i.alerts.array
        PROVE  Longest(i)'
    <3>1. CASE i = inc[a]
      BY <2>1, <2>2, <2>4, <2>5, <3>1 DEF LongestInv
    <3>2. CASE i # inc[a]
      <4>1. i \in incidents /\ i.id # inc[a].id
        BY <2>1, <2>5, <3>2
      <4>2. i \in Structs
        BY <4>1, MemoryAssumption DEF MemoryAssumption, Structs, Holders, TypeInv
      <4>3. i.alerts.array # inc[a].alerts.array
        BY <2>1, <4>1, <4>2 DEF LongestInv
      <4>4. \A b \in Alert : pc[b] = "save" => inc[b].alerts.array # i.alerts.array
        BY <2>1, <2>5, <4>3
      <4> QED
        BY <2>2, <2>4, <2>5, <4>1, <4>4 DEF LongestInv
    <3> QED
      BY <3>1, <3>2
  <2>6. ASSUME NEW b \in Alert, pc'[b] \in {"found", "save"}, inc'[b].alerts.array \notin shared'
        PROVE  Longest(inc[b])'
    <3>1. Longest(inc[b])
      BY <2>1, <2>2, <2>6 DEF LongestInv
    <3> QED
      BY <2>1, <3>1 DEF Longest
  <2>7. \A i, j \in Structs' : i.alerts.array = j.alerts.array => i.id = j.id
    BY <2>1 DEF LongestInv
  <2> QED
    BY <2>3, <2>5, <2>6, <2>7 DEF LongestInv
<1>7. CASE GetByID
  <2>1. /\ UNCHANGED << incidents, pc, inc, shared >> /\ Structs' \subseteq Structs
    BY <1>7, GetByIDEffects DEF GetByID, history
  <2>2. \A i : Longest(i) => Longest(i)'
    BY <2>1 DEF Longest
  <2>3. \A i, j \in Structs' : i.alerts.array = j.alerts.array => i.id = j.id
    BY <2>1 DEF LongestInv
  <2>4. ASSUME NEW i \in incidents', i.alerts.array \notin shared',
               \A b \in Alert : pc'[b] = "save" => inc'[b].alerts.array # i.alerts.array
        PROVE  Longest(i)'
    BY <2>1, <2>2, <2>4 DEF LongestInv
  <2>5. ASSUME NEW b \in Alert, pc'[b] \in {"found", "save"}, inc'[b].alerts.array \notin shared'
        PROVE  Longest(inc[b])'
    <3>1. Longest(inc[b])
      BY <2>1, <2>5 DEF LongestInv
    <3> QED
      BY <2>1, <3>1 DEF Longest
  <2> QED
    BY <2>1, <2>3, <2>4, <2>5 DEF LongestInv
<1> QED
  BY <1>1, <1>2, <1>3, <1>4, <1>5, <1>6, <1>7 DEF Next, ProcessAlert

\* No step changes what a struct reads in an array that no two calls held.
LEMMA Undisturbed ==
  ASSUME IInv, [Next]_vars, NEW i \in Structs, i.alerts.array \notin shared'
  PROVE  Value(heap', i) = Value(heap, i)
PROOF
<1> USE DEF IInv
<1>1. heap \in Heaps /\ Within(heap, i.alerts)
  BY DEF TypeInv
<1>2. ASSUME heap' \in Heaps, Kept(heap, heap', i.alerts)
      PROVE  Value(heap', i) = Value(heap, i)
  <2>1. PICK h, g : h = heap /\ g = heap'
    OBVIOUS
  <2>2. h \in Heaps /\ g \in Heaps /\ Within(h, i.alerts) /\ Kept(h, g, i.alerts)
    BY <1>1, <1>2, <2>1
  <2>3. Value(g, i) = Value(h, i)
    BY <2>2, SameValue
  <2> QED
    BY <2>1, <2>3
<1>3. ASSUME NEW a \in Alert, Join(a)
      PROVE  heap' \in Heaps /\ Kept(heap, heap', i.alerts)
  <2>1. /\ heap' \in Heaps /\ pc[a] = "found"
        /\ \/ inc'[a].alerts.array = inc[a].alerts.array
           \/ inc'[a].alerts.array \notin DOMAIN heap
        /\ \A t : /\ Within(heap, t)
                  /\ t.array = inc'[a].alerts.array => t.len <= inc[a].alerts.len
                  => Kept(heap, heap', t)
    BY <1>3, JoinEffects
  <2>2. i.alerts.array \in DOMAIN heap /\ shared' = shared
    BY <1>1, <1>3 DEF Within, Join, history
  <2>3. i.alerts.array = inc[a].alerts.array => i.alerts.len <= inc[a].alerts.len
    BY <2>1, <2>2 DEF LongestInv, Longest
  <2> QED
    BY <1>1, <2>1, <2>2, <2>3
<1>4. ASSUME NEW a \in Alert, Create(a)
      PROVE  heap' \in Heaps /\ Kept(heap, heap', i.alerts)
  BY <1>1, <1>4, CreateEffects
<1>5. CASE heap' = heap
  BY <1>5
<1> QED
  BY <1>2, <1>3, <1>4, <1>5
  DEF Next, ProcessAlert, Tick, GetByID, Receive, FindExisting, FindNothing, SaveIncident, vars

\* The invariant holds, however many calls run.
LEMMA Inductive == Spec => []IInv
PROOF
<1>1. Init => IInv
  BY TypeInit, LongestInit DEF IInv
<1>2. IInv /\ [Next]_vars => IInv'
  BY TypeStep, HoldStep, LongestStep DEF IInv
<1> QED
  BY <1>1, <1>2, PTL DEF Spec

\* An incident got from GetByID reads the same however often the next alerts are
\* appended to its array, and whatever else runs, unless two calls held the array.
THEOREM Views == Spec => ViewIsStable
PROOF
<1>1. ASSUME IInv, [Next]_vars, view' = view, view # NoIncident,
             view.alerts.array \notin shared'
      PROVE  ByValue(view)' = ByValue(view)
  <2>1. view \in Structs
    BY <1>1 DEF Structs, Holders
  <2>2. Value(heap', view) = Value(heap, view)
    BY <1>1, <2>1, Undisturbed
  <2> QED
    BY <1>1, <2>2 DEF ByValue, Value
<1>2. IInv /\ [Next]_vars
        => [(view' = view /\ view # NoIncident /\ view.alerts.array \notin shared')
              => ByValue(view)' = ByValue(view)]_vars
  BY <1>1
<1> QED
  BY <1>2, Inductive, PTL DEF Spec, ViewIsStable

-----------------------------------------------------------------------------
(* The store by value. *)

\* The operators of Incidents are the same for both specifications.
LEMMA SameLabels ==
  ASSUME NEW l
  PROVE  /\ Abstract!primaryServiceFromLabels(l) = primaryServiceFromLabels(l)
         /\ Abstract!severityFromLabels(l) = severityFromLabels(l)
         /\ Abstract!buildCorrelationKey(l) = buildCorrelationKey(l)
PROOF
<1>1. Abstract!Missing = Missing
  BY DEF Abstract!Missing, Missing
<1>2. Abstract!primaryServiceFromLabels(l) = primaryServiceFromLabels(l)
  BY <1>1 DEF Abstract!primaryServiceFromLabels, primaryServiceFromLabels
<1> QED
  BY <1>2 DEF Abstract!severityFromLabels, severityFromLabels,
              Abstract!buildCorrelationKey, buildCorrelationKey

\* The operators of Correlator are those of this module: of labels,
LEMMA SameAlerts ==
  ASSUME NEW a
  PROVE  /\ Abstract!KeyOf(a) = KeyOf(a)
         /\ Abstract!ServiceOf(a) = ServiceOf(a)
         /\ Abstract!SeverityOf(a) = SeverityOf(a)
  BY SameLabels DEF Abstract!KeyOf, KeyOf, Abstract!ServiceOf, ServiceOf,
                    Abstract!SeverityOf, SeverityOf

\* of incidents,
LEMMA SameIncidents ==
  ASSUME NEW i, NEW a, NEW t, NEW u
  PROVE  /\ Abstract!Joined(i, a, t) = Joined(i, a, t)
         /\ Abstract!NewIncident(a, u, t) = NewIncident(a, u, t)
  BY SameAlerts DEF Abstract!Joined, Joined, Abstract!NewIncident, NewIncident

\* and of the store.
LEMMA SameStore ==
  ASSUME NEW s, NEW i, NEW k, NEW t
  PROVE  /\ Abstract!Save(s, i) = Save(s, i)
         /\ Abstract!Candidates(s, k, t) = Candidates(s, k, t)
         /\ Abstract!FindOpenByCorrelationKey(s, k, t) = FindOpenByCorrelationKey(s, k, t)
  BY DEF Abstract!Save, Save, Abstract!Candidates, Candidates,
         Abstract!FindOpenByCorrelationKey, FindOpenByCorrelationKey

\* So is Cardinality.
LEMMA SameSize ==
  ASSUME NEW S
  PROVE  Abstract!Cardinality(S) = Cardinality(S)
  BY DEF Abstract!Cardinality, Cardinality

\* Two functions that differ at a only.
LEMMA DifferAt ==
  ASSUME NEW f, NEW g, f = [b \in Alert |-> f[b]], g = [b \in Alert |-> g[b]],
         NEW a \in Alert, \A b \in Alert : b # a => g[b] = f[b]
  PROVE  g = [f EXCEPT ![a] = g[a]]
  OBVIOUS

\* The mapped variables.
LEMMA Mapped ==
  /\ StoreByValue = {Value(heap, i) : i \in incidents}
  /\ PcByValue = [b \in Alert |-> PcByValue[b]]
  /\ IncByValue = [b \in Alert |-> IncByValue[b]]
  /\ \A b \in Alert :
       /\ PcByValue[b] = IF pc[b] = "found" THEN "save" ELSE pc[b]
       /\ inc[b] = NoIncident => IncByValue[b] = NoIncident
       /\ inc[b] # NoIncident /\ pc[b] = "found"
            => IncByValue[b] = Joined(Value(heap, inc[b]), b, now[b])
       /\ inc[b] # NoIncident /\ pc[b] # "found" => IncByValue[b] = Value(heap, inc[b])
PROOF
<1>1. StoreByValue = {Value(heap, i) : i \in incidents}
  BY DEF StoreByValue, ByValue, Value
<1>2. /\ PcByValue = [b \in Alert |-> PcByValue[b]]
      /\ \A b \in Alert : PcByValue[b] = IF pc[b] = "found" THEN "save" ELSE pc[b]
  BY DEF PcByValue
<1>3. IncByValue = [b \in Alert |-> IncByValue[b]]
  BY DEF IncByValue
<1>4. ASSUME NEW b \in Alert
      PROVE  /\ inc[b] = NoIncident => IncByValue[b] = NoIncident
             /\ inc[b] # NoIncident /\ pc[b] = "found"
                  => IncByValue[b] = Joined(Value(heap, inc[b]), b, now[b])
             /\ inc[b] # NoIncident /\ pc[b] # "found" => IncByValue[b] = Value(heap, inc[b])
  <2>1. IncByValue[b] = CASE inc[b] = NoIncident -> NoIncident
                          [] inc[b] # NoIncident /\ pc[b] = "found"
                               -> Joined(ByValue(inc[b]), b, now[b])
                          [] OTHER -> ByValue(inc[b])
    BY Zenon DEF IncByValue
  <2>2. ByValue(inc[b]) = Value(heap, inc[b])
    BY DEF ByValue, Value
  <2> QED
    BY <2>1, <2>2
<1> QED
  BY <1>1, <1>2, <1>3, <1>4

\* And those of the next state.
LEMMA MappedNext ==
  /\ StoreByValue' = {Value(heap', i) : i \in incidents'}
  /\ PcByValue' = [b \in Alert |-> PcByValue'[b]]
  /\ IncByValue' = [b \in Alert |-> IncByValue'[b]]
  /\ \A b \in Alert :
       /\ PcByValue'[b] = IF pc'[b] = "found" THEN "save" ELSE pc'[b]
       /\ inc'[b] = NoIncident => IncByValue'[b] = NoIncident
       /\ inc'[b] # NoIncident /\ pc'[b] = "found"
            => IncByValue'[b] = Joined(Value(heap', inc'[b]), b, now'[b])
       /\ inc'[b] # NoIncident /\ pc'[b] # "found"
            => IncByValue'[b] = Value(heap', inc'[b])
PROOF
<1>1. StoreByValue' = {Value(heap', i) : i \in incidents'}
  BY DEF StoreByValue, ByValue, Value
<1>2. /\ PcByValue' = [b \in Alert |-> PcByValue'[b]]
      /\ \A b \in Alert : PcByValue'[b] = IF pc'[b] = "found" THEN "save" ELSE pc'[b]
  BY DEF PcByValue
<1>3. IncByValue' = [b \in Alert |-> IncByValue'[b]]
  BY DEF IncByValue
<1>4. ASSUME NEW b \in Alert
      PROVE  /\ inc'[b] = NoIncident => IncByValue'[b] = NoIncident
             /\ inc'[b] # NoIncident /\ pc'[b] = "found"
                  => IncByValue'[b] = Joined(Value(heap', inc'[b]), b, now'[b])
             /\ inc'[b] # NoIncident /\ pc'[b] # "found"
                  => IncByValue'[b] = Value(heap', inc'[b])
  <2>1. IncByValue'[b] = CASE inc'[b] = NoIncident -> NoIncident
                           [] inc'[b] # NoIncident /\ pc'[b] = "found"
                                -> Joined(Value(heap', inc'[b]), b, now'[b])
                           [] OTHER -> Value(heap', inc'[b])
    BY Zenon DEF IncByValue, ByValue, Value, Joined, SeverityOf
  <2> QED
    BY <2>1
<1> QED
  BY <1>1, <1>2, <1>3, <1>4

\* What a step that leaves a struct alone leaves of it by value.
LEMMA SameInc ==
  ASSUME IInv, [Next]_vars, shared' = {}, NEW b \in Alert, inc'[b] = inc[b],
         pc'[b] = "found" <=> pc[b] = "found", pc[b] = "found" => now'[b] = now[b]
  PROVE  IncByValue'[b] = IncByValue[b]
PROOF
<1>1. CASE inc[b] = NoIncident
  BY <1>1, Mapped, MappedNext
<1>2. CASE inc[b] # NoIncident
  <2>1. Value(heap', inc[b]) = Value(heap, inc[b])
    BY <1>2, Undisturbed DEF Structs, Holders
  <2> QED
    BY <1>2, <2>1, Mapped, MappedNext
<1> QED
  BY <1>1, <1>2

\* A step that replaces no stored struct leaves what the store holds by value.
LEMMA SameContents ==
  ASSUME IInv, [Next]_vars, shared' = {}, incidents' = incidents
  PROVE  StoreByValue' = StoreByValue
PROOF
<1>1. \A i \in incidents : Value(heap', i) = Value(heap, i)
  BY Undisturbed, MemoryAssumption DEF IInv, TypeInv, Structs, Holders, MemoryAssumption
<1> QED
  BY <1>1, Mapped, MappedNext

\* The structs that are candidates are the values that are.
LEMMA SameFound ==
  ASSUME IInv, NEW k, NEW t
  PROVE  /\ Candidates(StoreByValue, k, t) = {Value(heap, i) : i \in Candidates(incidents, k, t)}
         /\ \A c \in FindOpenByCorrelationKey(incidents, k, t) :
              Value(heap, c) \in FindOpenByCorrelationKey(StoreByValue, k, t)
PROOF
<1>1. \A i \in incidents : /\ Value(heap, i).key = i.key /\ Value(heap, i).state = i.state
                          /\ Value(heap, i).lastAlertAt = i.lastAlertAt
  <2>1. heap \in Heaps /\ \A i \in incidents : i \in Struct /\ Within(heap, i.alerts)
    BY MemoryAssumption DEF IInv, TypeInv, Structs, Holders, MemoryAssumption
  <2>2. PICK h : h = heap
    OBVIOUS
  <2>3. \A i \in incidents : /\ Value(h, i).key = i.key /\ Value(h, i).state = i.state
                            /\ Value(h, i).lastAlertAt = i.lastAlertAt
    BY <2>1, <2>2, ValueType
  <2> QED
    BY <2>2, <2>3
<1>2. StoreByValue = {Value(heap, i) : i \in incidents}
  BY Mapped
<1>3. Candidates(StoreByValue, k, t) = {Value(heap, i) : i \in Candidates(incidents, k, t)}
  BY <1>1, <1>2 DEF Candidates
<1>4. ASSUME NEW c \in FindOpenByCorrelationKey(incidents, k, t)
      PROVE  Value(heap, c) \in FindOpenByCorrelationKey(StoreByValue, k, t)
  <2>1. /\ c \in Candidates(incidents, k, t)
        /\ \A j \in Candidates(incidents, k, t) : j.lastAlertAt <= c.lastAlertAt
    BY DEF FindOpenByCorrelationKey
  <2>2. \A i \in Candidates(incidents, k, t) : Value(heap, i).lastAlertAt = i.lastAlertAt
    BY <1>1 DEF Candidates
  <2> QED
    BY <1>3, <2>1, <2>2 DEF FindOpenByCorrelationKey
<1> QED
  BY <1>3, <1>4

\* The store starts empty by value too.
LEMMA MapInit == Init => Abstract!Init
PROOF
<1> SUFFICES ASSUME Init PROVE Abstract!Init
  OBVIOUS
<1>1. StoreByValue = {}
  BY Mapped DEF Init
<1>2. PcByValue = [a \in Alert |-> "pending"] /\ IncByValue = [a \in Alert |-> NoIncident]
  BY Mapped DEF Init
<1> QED
  BY <1>1, <1>2 DEF Init, Abstract!Init

\* A call starts.
LEMMA MapReceive ==
  ASSUME IInv, [Next]_vars, shared' = {}, NEW a \in Alert, Receive(a)
  PROVE  Abstract!Receive(a)
PROOF
<1>1. /\ pc[a] = "pending" /\ pc'[a] = "find"
      /\ \A b \in Alert : b # a => pc'[b] = pc[b] /\ now'[b] = now[b]
      /\ inc' = inc /\ incidents' = incidents
  BY DEF Receive, IInv, TypeInv
<1>2. PcByValue[a] = "pending" /\ PcByValue'[a] = "find"
      /\ \A b \in Alert : b # a => PcByValue'[b] = PcByValue[b]
  BY <1>1, Mapped, MappedNext
<1>3. PcByValue' = [PcByValue EXCEPT ![a] = "find"]
  BY <1>2, DifferAt, Mapped, MappedNext
<1>4. \A b \in Alert : IncByValue'[b] = IncByValue[b]
  BY <1>1, SameInc
<1>5. IncByValue' = IncByValue
  BY <1>4, Mapped, MappedNext
<1>6. StoreByValue' = StoreByValue
  BY <1>1, SameContents
<1>7. Abstract!InFlight = InFlight
  BY Mapped DEF Abstract!InFlight, InFlight, IInv, TypeInv, Positions
<1>8. Abstract!Rivals(a) = Rivals(a)
  BY <1>7, SameAlerts DEF Abstract!Rivals, Rivals
<1>9. Abstract!Cardinality(Abstract!InFlight) < MaxInFlight
  BY <1>7, SameSize DEF Receive
<1>10. /\ now' = [now EXCEPT ![a] = clock] /\ UNCHANGED << clock, issued, collided >>
       /\ overlapped' = IF Abstract!Rivals(a) = {} THEN overlapped
                        ELSE overlapped \cup Abstract!Rivals(a) \cup {a}
  BY <1>8 DEF Receive
<1> QED
  BY <1>2, <1>3, <1>5, <1>6, <1>9, <1>10 DEF Abstract!Receive

\* A call finds an incident: by value, the alert has joined it.
LEMMA MapFindExisting ==
  ASSUME IInv, [Next]_vars, shared' = {}, NEW a \in Alert, FindExisting(a)
  PROVE  Abstract!FindExisting(a)
PROOF
<1>1. /\ inc'[a] \in FindOpenByCorrelationKey(incidents, KeyOf(a), clock) /\ heap' = heap
      /\ inc'[a] \in Struct
      /\ pc[a] = "find" /\ pc'[a] = "found"
      /\ \A b \in Alert : b # a => inc'[b] = inc[b] /\ pc'[b] = pc[b]
  BY FindExistingEffects DEF IInv
<1>2. UNCHANGED << clock, incidents, now, overlapped, issued, collided >>
  BY DEF FindExisting
<1>3. PcByValue[a] = "find" /\ PcByValue'[a] = "save"
      /\ \A b \in Alert : b # a => PcByValue'[b] = PcByValue[b]
  BY <1>1, Mapped, MappedNext
<1>4. PcByValue' = [PcByValue EXCEPT ![a] = "save"]
  BY <1>3, DifferAt, Mapped, MappedNext
<1>5. PICK c : c = Value(heap, inc'[a])
  OBVIOUS
<1>6. c \in FindOpenByCorrelationKey(StoreByValue, KeyOf(a), clock)
  BY <1>1, <1>5, SameFound
<1>7. IncByValue'[a] = Joined(c, a, now[a])
  <2>1. inc'[a] # NoIncident
    BY <1>1, MemoryAssumption DEF MemoryAssumption
  <2> QED
    BY <1>1, <1>2, <1>5, <2>1, MappedNext
<1>8. \A b \in Alert : b # a => IncByValue'[b] = IncByValue[b]
  BY <1>1, <1>2, SameInc
<1>9. IncByValue' = [IncByValue EXCEPT ![a] = Joined(c, a, now[a])]
  BY <1>7, <1>8, DifferAt, Mapped, MappedNext
<1>10. StoreByValue' = StoreByValue
  BY <1>2, SameContents
<1>11. c \in Abstract!FindOpenByCorrelationKey(StoreByValue, Abstract!KeyOf(a), clock)
  BY <1>6, SameStore, SameAlerts
<1>12. IncByValue' = [IncByValue EXCEPT ![a] = Abstract!Joined(c, a, now[a])]
  BY <1>9, SameIncidents
<1> QED
  BY <1>2, <1>3, <1>4, <1>10, <1>11, <1>12 DEF Abstract!FindExisting, Abstract!history

\* A call appends to the incident it found: by value it already had.
LEMMA MapJoin ==
  ASSUME IInv, [Next]_vars, shared' = {}, NEW a \in Alert, Join(a)
  PROVE  UNCHANGED Abstract!vars
PROOF
<1>1. /\ inc[a] \in Struct /\ inc'[a] \in Struct
      /\ Value(heap', inc'[a]) = Joined(Value(heap, inc[a]), a, now[a])
      /\ pc[a] = "found" /\ pc'[a] = "save"
      /\ \A b \in Alert : b # a => inc'[b] = inc[b] /\ pc'[b] = pc[b]
  BY JoinEffects DEF IInv
<1>2. UNCHANGED << clock, incidents, now, history >>
  BY DEF Join
<1>3. \A b \in Alert : PcByValue'[b] = PcByValue[b]
  BY <1>1, Mapped, MappedNext
<1>4. PcByValue' = PcByValue
  BY <1>3, Mapped, MappedNext
<1>5. IncByValue'[a] = IncByValue[a]
  BY <1>1, MemoryAssumption, Mapped, MappedNext DEF MemoryAssumption
<1>6. \A b \in Alert : b # a => IncByValue'[b] = IncByValue[b]
  BY <1>1, <1>2, SameInc
<1>7. IncByValue' = IncByValue
  BY <1>5, <1>6, Mapped, MappedNext
<1>8. StoreByValue' = StoreByValue
  BY <1>2, SameContents
<1> QED
  BY <1>2, <1>4, <1>7, <1>8 DEF Abstract!vars, history

\* Reading an incident, and letting time pass, change nothing by value.
LEMMA MapRest ==
  ASSUME IInv, [Next]_vars, shared' = {}, UNCHANGED << incidents, pc, now, inc >>
  PROVE  UNCHANGED << StoreByValue, PcByValue, IncByValue >>
PROOF
<1>1. \A b \in Alert : PcByValue'[b] = PcByValue[b] /\ IncByValue'[b] = IncByValue[b]
  BY SameInc, Mapped, MappedNext
<1>2. PcByValue' = PcByValue /\ IncByValue' = IncByValue
  BY <1>1, Mapped, MappedNext
<1>3. StoreByValue' = StoreByValue
  BY SameContents
<1> QED
  BY <1>2, <1>3

\* A call finds no incident.
LEMMA MapFindNothing ==
  ASSUME IInv, [Next]_vars, shared' = {}, NEW a \in Alert, FindNothing(a)
  PROVE  Abstract!FindNothing(a)
PROOF
<1>1. /\ pc[a] = "find" /\ pc'[a] = "create"
      /\ \A b \in Alert : b # a => pc'[b] = pc[b]
      /\ UNCHANGED << clock, incidents, now, inc, history >>
  BY DEF FindNothing, IInv, TypeInv
<1>2. PcByValue[a] = "find" /\ PcByValue'[a] = "create"
      /\ \A b \in Alert : b # a => PcByValue'[b] = PcByValue[b]
  BY <1>1, Mapped, MappedNext
<1>3. PcByValue' = [PcByValue EXCEPT ![a] = "create"]
  BY <1>2, DifferAt, Mapped, MappedNext
<1>4. \A b \in Alert : IncByValue'[b] = IncByValue[b]
  BY <1>1, SameInc
<1>5. IncByValue' = IncByValue
  BY <1>4, Mapped, MappedNext
<1>6. StoreByValue' = StoreByValue
  BY <1>1, SameContents
<1>7. Candidates(incidents, KeyOf(a), clock) = {}
  BY DEF FindNothing
<1>8. Candidates(StoreByValue, KeyOf(a), clock) = {}
  BY <1>7, SameFound
<1>9. Abstract!Candidates(StoreByValue, Abstract!KeyOf(a), clock) = {}
  BY <1>8, SameStore, SameAlerts
<1> QED
  BY <1>1, <1>2, <1>3, <1>5, <1>6, <1>9 DEF Abstract!FindNothing, Abstract!history, history

\* A call creates an incident.
LEMMA MapCreate ==
  ASSUME IInv, [Next]_vars, shared' = {}, NEW a \in Alert, Create(a)
  PROVE  Abstract!Create(a)
PROOF
<1>1. /\ inc'[a] \in Struct /\ Value(heap', inc'[a]) = NewIncident(a, clock, now[a])
      /\ pc[a] = "create" /\ pc'[a] = "save"
      /\ \A b \in Alert : b # a => inc'[b] = inc[b] /\ pc'[b] = pc[b]
  BY CreateEffects DEF IInv
<1>2. /\ UNCHANGED << clock, incidents, now, overlapped >>
      /\ issued' = issued \cup {clock}
      /\ collided' = IF clock \in issued THEN collided \cup {clock} ELSE collided
  BY DEF Create
<1>3. PcByValue[a] = "create" /\ PcByValue'[a] = "save"
      /\ \A b \in Alert : b # a => PcByValue'[b] = PcByValue[b]
  BY <1>1, Mapped, MappedNext
<1>4. PcByValue' = [PcByValue EXCEPT ![a] = "save"]
  BY <1>3, DifferAt, Mapped, MappedNext
<1>5. IncByValue'[a] = NewIncident(a, clock, now[a])
  BY <1>1, MemoryAssumption, MappedNext DEF MemoryAssumption
<1>6. \A b \in Alert : b # a => IncByValue'[b] = IncByValue[b]
  BY <1>1, <1>2, SameInc
<1>7. IncByValue' = [IncByValue EXCEPT ![a] = NewIncident(a, clock, now[a])]
  BY <1>5, <1>6, DifferAt, Mapped, MappedNext
<1>8. StoreByValue' = StoreByValue
  BY <1>2, SameContents
<1>9. IncByValue' = [IncByValue EXCEPT ![a] = Abstract!NewIncident(a, clock, now[a])]
  BY <1>7, SameIncidents
<1> QED
  BY <1>2, <1>3, <1>4, <1>8, <1>9 DEF Abstract!Create

\* A call saves its copy.
LEMMA MapSave ==
  ASSUME IInv, [Next]_vars, shared' = {}, NEW a \in Alert, SaveIncident(a)
  PROVE  Abstract!SaveSucceeds(a)
PROOF
<1>1. /\ inc[a] \in Struct /\ incidents' = Save(incidents, inc[a])
      /\ pc[a] = "save" /\ pc'[a] = "ok" /\ heap' = heap /\ inc' = inc
      /\ \A b \in Alert : b # a => pc'[b] = pc[b]
  BY SaveEffects DEF IInv
<1>2. UNCHANGED << clock, now, history >>
  BY DEF SaveIncident
<1>3. PcByValue[a] = "save" /\ PcByValue'[a] = "ok"
      /\ \A b \in Alert : b # a => PcByValue'[b] = PcByValue[b]
  BY <1>1, Mapped, MappedNext
<1>4. PcByValue' = [PcByValue EXCEPT ![a] = "ok"]
  BY <1>3, DifferAt, Mapped, MappedNext
<1>5. IncByValue[a] = Value(heap, inc[a])
  BY <1>1, MemoryAssumption, Mapped DEF MemoryAssumption
<1>6. \A b \in Alert : IncByValue'[b] = IncByValue[b]
  BY <1>1, <1>2, SameInc
<1>7. IncByValue' = IncByValue
  BY <1>6, Mapped, MappedNext
<1>8. \A i \in incidents \cup {inc[a]} : Value(heap, i).id = i.id
  <2>1. /\ heap \in Heaps
        /\ \A i \in incidents \cup {inc[a]} : i \in Struct /\ Within(heap, i.alerts)
    BY <1>1, MemoryAssumption DEF IInv, TypeInv, Structs, Holders, MemoryAssumption
  <2>2. PICK h : h = heap
    OBVIOUS
  <2>3. \A i \in incidents \cup {inc[a]} : Value(h, i).id = i.id
    BY <2>1, <2>2, ValueType
  <2> QED
    BY <2>2, <2>3
<1>9. StoreByValue' = Save(StoreByValue, IncByValue[a])
  <2>1. StoreByValue' = {Value(heap, i) : i \in Save(incidents, inc[a])}
    BY <1>1, MappedNext
  <2>2. StoreByValue = {Value(heap, i) : i \in incidents}
    BY Mapped
  <2> QED
    BY <1>5, <1>8, <2>1, <2>2 DEF Save
<1>10. StoreByValue' = Abstract!Save(StoreByValue, IncByValue[a])
  BY <1>9, SameStore
<1> QED
  BY <1>2, <1>3, <1>4, <1>7, <1>10 DEF Abstract!SaveSucceeds, Abstract!history, history

\* Every step is a step of the store by value, or none.
LEMMA MapStep ==
  IInv /\ [Next]_vars => (shared' = {} => [Abstract!Next]_(Abstract!vars))
PROOF
<1> SUFFICES ASSUME IInv, [Next]_vars, shared' = {} PROVE [Abstract!Next]_(Abstract!vars)
  OBVIOUS
<1>1. CASE Tick
  <2>1. UNCHANGED << StoreByValue, PcByValue, IncByValue >>
    BY <1>1, MapRest DEF Tick
  <2>2. Abstract!Tick
    BY <1>1, <2>1 DEF Tick, Abstract!Tick, Abstract!history, history
  <2> QED
    BY <2>2 DEF Abstract!Next
<1>2. CASE GetByID \/ UNCHANGED vars
  <2>1. UNCHANGED << StoreByValue, PcByValue, IncByValue >>
    BY <1>2, MapRest DEF GetByID, vars
  <2> QED
    BY <1>2, <2>1 DEF GetByID, vars, Abstract!vars, history
<1>3. ASSUME NEW a \in Alert, ProcessAlert(a)
      PROVE  Abstract!ProcessAlert(a) \/ UNCHANGED Abstract!vars
  BY <1>3, MapReceive, MapFindExisting, MapJoin, MapFindNothing, MapCreate, MapSave
     DEF ProcessAlert, Abstract!ProcessAlert, Abstract!Find
<1> QED
  BY <1>1, <1>2, <1>3 DEF Next, Abstract!Next

\* ProcessAlert on the store with shared arrays does what it does on a store that
\* copies incidents, however many calls run, until two calls hold one array.
THEOREM Refinement == Spec => ImplementsCorrelator
PROOF
<1>1. IInv /\ [Next]_vars => [shared' = {} => [Abstract!Next]_(Abstract!vars)]_vars
  BY MapStep
<1> QED
  BY <1>1, Inductive, MapInit, PTL DEF Spec, ImplementsCorrelator

\* What is proved of Correlator so holds of every run in which calls for the same
\* incident do not overlap.
COROLLARY WithoutSharing == Spec /\ [](shared = {}) => Abstract!Spec
PROOF
<1>1. IInv /\ [Next]_vars /\ (shared = {})' => [Abstract!Next]_(Abstract!vars)
  BY MapStep
<1> QED
  BY <1>1, Inductive, MapInit, PTL DEF Spec, Abstract!Spec
=============================================================================
