----------------------- MODULE Vulnerabilities_proofs -----------------------
(***************************************************************************)
(* What the tables of updates and flaws are worth, for any hosts, feeds    *)
(* and records: the four properties of Vulnerabilities.  First what its    *)
(* operators make of sequences and rows; then, each an inductive invariant *)
(* beside the one before:                                                  *)
(*   Shape    the types, and what of the query is where                    *)
(*   RowsOK   the rows are true, and the merge of what was said            *)
(*   Owes     what each source has still to give, or has said it will not  *)
(***************************************************************************)
EXTENDS Vulnerabilities, FiniteSetTheorems, TLAPS

-----------------------------------------------------------------------------
(***************************************************************************)
(* Sequences.                                                              *)
(***************************************************************************)

\* A set of numbers has a least one.
LEMMA LeastOf ==
  ASSUME NEW S, S \subseteq Nat, S # {}
  PROVE  Min(S) \in S /\ \A n \in S : Min(S) <= n
<1>1. IsWellFoundedOn(OpToRel(<, Nat), Nat)
  BY NatLessThanWellFounded
<1>2. PICK m \in S : \A n \in S : ~(<<n, m>> \in OpToRel(<, Nat))
  BY <1>1, WFMin
<1>3. \A n \in S : m <= n
  <2> SUFFICES ASSUME NEW n \in S PROVE m <= n
    OBVIOUS
  <2>1. n \in Nat /\ m \in Nat
    BY <1>2
  <2>2. n < m => <<n, m>> \in OpToRel(<, Nat)
    BY <2>1 DEF OpToRel
  <2>3. ~(n < m)
    BY <1>2, <2>2
  <2>4. QED
    BY <2>1, <2>3
<1>4. QED
  BY <1>2, <1>3 DEF Min

\* A set of places that has the first one, and the next one of each it has, has all.
LEMMA Along ==
  ASSUME NEW n \in Nat, NEW S, 0 \in S,
         \A k \in 0..(n - 1) : k \in S => k + 1 \in S
  PROVE  \A k \in 0..n : k \in S
<1> DEFINE Rest == {k \in 0..n : k \notin S}
<1> SUFFICES ASSUME Rest # {} PROVE FALSE
  OBVIOUS
<1>1. Rest \subseteq Nat
  OBVIOUS
<1> DEFINE m == Min(Rest)
<1>2. m \in Rest /\ \A k \in Rest : m <= k
  BY <1>1, LeastOf
<1> HIDE DEF m
<1>3. m # 0 /\ m \in 0..n
  BY <1>2
<1>4. m - 1 \in 0..(n - 1) /\ m - 1 \in S
  BY <1>2, <1>3
<1>5. (m - 1) + 1 = m
  BY <1>3
<1>6. QED
  BY <1>2, <1>4, <1>5

\* The elements of a sequence over T.
LEMMA InToSet ==
  ASSUME NEW s, NEW T, s \in Seq(T)
  PROVE  /\ ToSet(s) \subseteq T /\ \A x : x \in ToSet(s) <=> \E i \in 1..Len(s) : s[i] = x
         /\ Len(s) \in Nat /\ DOMAIN s = 1..Len(s)
BY DEF ToSet

\* Two sequences, one after the other.
LEMMA ConcatIs ==
  ASSUME NEW T, NEW s \in Seq(T), NEW t \in Seq(T)
  PROVE  s \o t \in Seq(T) /\ ToSet(s \o t) = ToSet(s) \cup ToSet(t)
<1>1. s \o t \in Seq(T) /\ Len(s \o t) = Len(s) + Len(t)
  OBVIOUS
<1>2. \A i \in 1..Len(s) : (s \o t)[i] = s[i]
  OBVIOUS
<1>3. \A i \in 1..Len(t) : (s \o t)[Len(s) + i] = t[i]
  OBVIOUS
<1>4. ToSet(s \o t) \subseteq ToSet(s) \cup ToSet(t)
  <2> SUFFICES ASSUME NEW i \in 1..(Len(s) + Len(t)) PROVE (s \o t)[i] \in ToSet(s) \cup ToSet(t)
    BY <1>1, InToSet
  <2>1. CASE i <= Len(s)
    <3>1. i \in 1..Len(s) /\ (s \o t)[i] = s[i]
      BY <1>2, <2>1
    <3>2. QED
      BY <3>1 DEF ToSet
  <2>2. CASE i > Len(s)
    <3>1. i - Len(s) \in 1..Len(t) /\ Len(s) + (i - Len(s)) = i
      BY <2>2
    <3>2. (s \o t)[i] = t[i - Len(s)]
      BY <1>3, <3>1
    <3>3. QED
      BY <3>1, <3>2, InToSet
  <2>3. QED
    BY <2>1, <2>2
<1>5. ToSet(s) \cup ToSet(t) \subseteq ToSet(s \o t)
  <2>1. \A i \in 1..Len(s) : s[i] \in ToSet(s \o t)
    <3>1. \A i \in 1..Len(s) : i \in DOMAIN (s \o t)
      BY <1>1
    <3>2. QED
      BY <1>2, <3>1 DEF ToSet
  <2>2. \A i \in 1..Len(t) : t[i] \in ToSet(s \o t)
    <3> SUFFICES ASSUME NEW i \in 1..Len(t) PROVE t[i] \in ToSet(s \o t)
      OBVIOUS
    <3>1. Len(s) + i \in 1..Len(s \o t)
      BY <1>1
    <3>2. QED
      BY <1>1, <1>3, <3>1, InToSet
  <2>3. QED
    BY <2>1, <2>2, InToSet
<1>6. QED
  BY <1>1, <1>4, <1>5

\* f has the flattening of the first sequences of ss, up to the k-th.
Flat(ss, f, k) == f = [i \in 1..k |-> IF i = 1 THEN ss[i] ELSE f[i - 1] \o ss[i]]

\* The concatenation of a prefix is defined, whatever its length.
LEMMA FlatExists ==
  ASSUME NEW ss, NEW n \in Nat
  PROVE  \E f : Flat(ss, f, n)
<1> DEFINE Made == {k \in 0..n : \E f : Flat(ss, f, k)}
<1>1. 0 \in Made
  <2> DEFINE f == [i \in 1..0 |-> <<>>]
  <2>1. Flat(ss, f, 0)
    BY DEF Flat
  <2> HIDE DEF f
  <2>2. QED
    BY <2>1
<1>2. \A k \in 0..(n - 1) : k \in Made => k + 1 \in Made
  <2> SUFFICES ASSUME NEW k \in 0..(n - 1), k \in Made PROVE k + 1 \in Made
    OBVIOUS
  <2>1. PICK f : Flat(ss, f, k)
    OBVIOUS
  <2> DEFINE g == [i \in 1..(k + 1) |-> IF i = 1 THEN ss[i] ELSE f[i - 1] \o ss[i]]
  <2> DEFINE Body(i) == IF i = 1 THEN ss[i] ELSE f[i - 1] \o ss[i]
  <2>a. f = [i \in 1..k |-> Body(i)]
    BY <2>1, Zenon DEF Flat
  <2>b. g = [i \in 1..(k + 1) |-> Body(i)]
    OBVIOUS
  <2> HIDE DEF Body, g
  <2>2. \A i \in 1..k : g[i] = f[i]
    <3>1. 1..k \subseteq 1..(k + 1)
      OBVIOUS
    <3>2. \A i \in 1..(k + 1) : g[i] = Body(i)
      BY <2>b
    <3>3. \A i \in 1..k : f[i] = Body(i)
      BY <2>a
    <3>4. QED
      BY <3>1, <3>2, <3>3
  <2> USE DEF g
  <2> USE DEF Body
  <2>3. \A i \in 1..(k + 1) : i # 1 => i - 1 \in 1..k
    OBVIOUS
  <2>4. \A i \in 1..(k + 1) : i # 1 => g[i - 1] = f[i - 1]
    BY <2>2, <2>3
  <2>5. g = [i \in 1..(k + 1) |-> IF i = 1 THEN ss[i] ELSE g[i - 1] \o ss[i]]
    BY <2>4
  <2>6. Flat(ss, g, k + 1)
    BY <2>5 DEF Flat
  <2> HIDE DEF g
  <2>7. QED
    BY <2>6
<1> HIDE DEF Made
<1>3. n \in Made
  <2>1. \A k \in 0..n : k \in Made
    BY <1>1, <1>2, Along
  <2>2. QED
    BY <2>1
<1>4. QED
  BY <1>3 DEF Made

\* Sequences flattened hold what each of them holds.
LEMMA FlattenIs ==
  ASSUME NEW T, NEW ss \in Seq(Seq(T))
  PROVE  /\ FlattenSeq(ss) \in Seq(T)
         /\ ToSet(FlattenSeq(ss)) = UNION {ToSet(ss[i]) : i \in DOMAIN ss}
<1> DEFINE n == Len(ss)
<1>1. n \in Nat /\ DOMAIN ss = 1..n /\ \A i \in 1..n : ss[i] \in Seq(T)
  OBVIOUS
<1>2. CASE n = 0
  <2>1. FlattenSeq(ss) = ss /\ ss = <<>>
    BY <1>2 DEF FlattenSeq
  <2>2. QED
    BY <2>1 DEF ToSet
<1>3. CASE n # 0
  <2> DEFINE F == CHOOSE f : Flat(ss, f, n)
  <2>4. Flat(ss, F, n)
    BY <1>1, FlatExists
  <2>5. FlattenSeq(ss) = F[n]
    BY <1>3 DEF FlattenSeq, Flat
  <2> HIDE DEF F
  <2>6. \A i \in 1..n : F[i] = IF i = 1 THEN ss[i] ELSE F[i - 1] \o ss[i]
    BY <2>4 DEF Flat
  <2> DEFINE Has(k) == \A x : x \in ToSet(F[k]) <=> \E i \in 1..k : x \in ToSet(ss[i])
             Right == {k \in 0..n : k # 0 => F[k] \in Seq(T) /\ Has(k)}
  <2>7. 0 \in Right
    BY <1>1
  <2>8. \A k \in 0..(n - 1) : k \in Right => k + 1 \in Right
    <3> SUFFICES ASSUME NEW k \in 0..(n - 1), k \in Right PROVE k + 1 \in Right
      OBVIOUS
    <3>1. k + 1 \in 1..n /\ (k + 1) - 1 = k /\ ss[k + 1] \in Seq(T)
      BY <1>1
    <3>2. CASE k = 0
      <4>1. F[1] = ss[1] /\ 1 \in 1..n
        BY <2>6, <3>1, <3>2
      <4>2. 1..1 = {1}
        OBVIOUS
      <4>3. Has(1)
        BY <4>1, <4>2
      <4>4. 1 \in Right
        BY <1>1, <4>1, <4>3
      <4>5. QED
        BY <3>2, <4>4
    <3>3. CASE k # 0
      <4>1. F[k + 1] = F[k] \o ss[k + 1]
        <5>1. k + 1 # 1
          BY <3>3
        <5>2. QED
          BY <2>6, <3>1, <5>1
      <4>2. F[k + 1] \in Seq(T) /\ ToSet(F[k + 1]) = ToSet(F[k]) \cup ToSet(ss[k + 1])
        BY <3>1, <3>3, <4>1, ConcatIs
      <4>3. 1..(k + 1) = (1..k) \cup {k + 1}
        BY <1>1
      <4>4. Has(k)
        BY <3>3
      <4>5. Has(k + 1)
        BY <4>2, <4>3, <4>4
      <4> HIDE DEF Has
      <4>6. QED
        BY <3>1, <4>2, <4>5
    <3>4. QED
      BY <3>2, <3>3
  <2> HIDE DEF Right
  <2>9. n \in Right
    <3>1. \A k \in 0..n : k \in Right
      BY <1>1, <2>7, <2>8, Along
    <3>2. QED
      BY <1>1, <3>1
  <2>10. F[n] \in Seq(T) /\ Has(n)
    BY <1>3, <2>9 DEF Right
  <2>11. QED
    BY <1>1, <2>5, <2>10
<1>4. QED
  BY <1>2, <1>3

\* What is picked are the elements at the places.
LEMMA PickedIs ==
  ASSUME NEW T, NEW s \in Seq(T), NEW places
  PROVE  /\ Picked(s, places) \in Seq(T)
         /\ \A x : x \in ToSet(Picked(s, places)) <=> \E i \in DOMAIN s : i \in places /\ s[i] = x
<1> DEFINE ss == [i \in DOMAIN s |-> IF i \in places THEN <<s[i]>> ELSE <<>>]
<1>1. Len(s) \in Nat /\ DOMAIN s = 1..Len(s) /\ \A i \in 1..Len(s) : s[i] \in T
  OBVIOUS
<1>2. \A i \in DOMAIN s : ss[i] \in Seq(T)
  BY <1>1
<1>3. ss \in Seq(Seq(T)) /\ DOMAIN ss = DOMAIN s
  BY <1>1, <1>2
<1>4. \A i \in DOMAIN s : \A x : x \in ToSet(ss[i]) <=> i \in places /\ s[i] = x
  BY DEF ToSet
<1> HIDE DEF ss
<1>5. FlattenSeq(ss) \in Seq(T) /\ ToSet(FlattenSeq(ss)) = UNION {ToSet(ss[i]) : i \in DOMAIN ss}
  BY <1>3, FlattenIs
<1>6. Picked(s, places) = FlattenSeq(ss)
  BY DEF Picked, ss
<1>7. QED
  BY <1>3, <1>4, <1>5, <1>6

-----------------------------------------------------------------------------
(***************************************************************************)
(* The matching of a record on disk is the API's.                          *)
(***************************************************************************)

\* f has the verdicts on a version after each of the first k events.
Walked(events, v, f, k) ==
  f = [n \in 0..k |-> IF n = 0 THEN FALSE ELSE Boundary(v, f[n - 1], events[n])]

\* The walk over a range's events is defined.
LEMMA WalkExists ==
  ASSUME NEW events, NEW v, NEW m \in Nat
  PROVE  \E f : Walked(events, v, f, m)
<1> DEFINE Made == {k \in 0..m : \E f : Walked(events, v, f, k)}
<1>1. 0 \in Made
  <2> DEFINE f == [n \in 0..0 |-> FALSE]
  <2>1. Walked(events, v, f, 0)
    BY DEF Walked
  <2> HIDE DEF f
  <2>2. QED
    BY <2>1
<1>2. \A k \in 0..(m - 1) : k \in Made => k + 1 \in Made
  <2> SUFFICES ASSUME NEW k \in 0..(m - 1), k \in Made PROVE k + 1 \in Made
    OBVIOUS
  <2>1. PICK f : Walked(events, v, f, k)
    OBVIOUS
  <2> DEFINE Body(n) == IF n = 0 THEN FALSE ELSE Boundary(v, f[n - 1], events[n])
             g == [n \in 0..(k + 1) |-> Body(n)]
  <2>2. f = [n \in 0..k |-> Body(n)]
    BY <2>1, Zenon DEF Walked
  <2> HIDE DEF Body
  <2>3. \A n \in 0..k : g[n] = f[n]
    <3>1. 0..k \subseteq 0..(k + 1)
      OBVIOUS
    <3>2. \A n \in 0..(k + 1) : g[n] = Body(n)
      OBVIOUS
    <3>3. \A n \in 0..k : f[n] = Body(n)
      BY <2>2
    <3>4. QED
      BY <3>1, <3>2, <3>3
  <2>4. \A n \in 0..(k + 1) : n # 0 => n - 1 \in 0..k
    OBVIOUS
  <2>5. \A n \in 0..(k + 1) : Body(n) = IF n = 0 THEN FALSE ELSE Boundary(v, g[n - 1], events[n])
    BY <2>3, <2>4 DEF Body
  <2>6. g = [n \in 0..(k + 1) |-> IF n = 0 THEN FALSE ELSE Boundary(v, g[n - 1], events[n])]
    BY <2>5
  <2>7. Walked(events, v, g, k + 1)
    BY <2>6 DEF Walked
  <2> HIDE DEF g
  <2>8. QED
    BY <2>7
<1> HIDE DEF Made
<1>3. m \in Made
  <2>1. \A k \in 0..m : k \in Made
    BY <1>1, <1>2, Along
  <2>2. QED
    BY <2>1
<1>4. QED
  BY <1>3 DEF Made

\* An event opens an interval at or below a version, or closes one at or below it.
Opens(e, v) == e.kind = "introduced" /\ (e.at = Zero \/ v >= e.at)
Closes(e, v) == e.kind # "introduced" /\ (IF e.kind = "last_affected" THEN v > e.at ELSE v >= e.at)

\* An event opens the interval, closes it, or leaves the verdict alone.
LEMMA BoundaryIs ==
  ASSUME NEW v \in Nat, NEW a \in BOOLEAN, NEW e, IsEvent(e)
  PROVE  Boundary(v, a, e) = (Opens(e, v) \/ (a /\ ~Closes(e, v)))
<1>1. CASE e.kind = "introduced"
  <2>1. v - e.at >= 0 <=> v >= e.at
    BY DEF IsEvent
  <2>2. QED
    BY <1>1, <2>1 DEF Boundary, Opens, Closes, Comparator
<1>2. CASE e.kind = "last_affected"
  <2>1. v - e.at <= 0 <=> ~(v > e.at)
    BY DEF IsEvent
  <2>2. QED
    BY <1>2, <2>1 DEF Boundary, Opens, Closes, Comparator
<1>3. CASE e.kind \in {"fixed", "limit"}
  <2>1. v - e.at < 0 <=> ~(v >= e.at)
    BY DEF IsEvent
  <2>2. QED
    BY <1>3, <2>1 DEF Boundary, Opens, Closes, Comparator
<1>4. QED
  BY <1>1, <1>2, <1>3 DEF IsEvent

\* After k events a version is inside if one of them opens an interval for it that
\* none of those after it closes.
Open(events, v, k) ==
  \E i \in 1..k : Opens(events[i], v) /\ \A j \in 1..k : j > i => ~Closes(events[j], v)

\* One more event of a range.
LEMMA OpenNext ==
  ASSUME NEW events, NEW v, NEW k \in Nat
  PROVE  Open(events, v, k + 1) <=> Opens(events[k + 1], v) \/ (Open(events, v, k) /\ ~Closes(events[k + 1], v))
<1>1. 1..(k + 1) = (1..k) \cup {k + 1} /\ \A i \in 1..k : k + 1 > i /\ ~(i > k + 1)
  OBVIOUS
<1>2. ~(k + 1 > k + 1)
  OBVIOUS
<1>3. ASSUME Open(events, v, k + 1)
      PROVE  Opens(events[k + 1], v) \/ (Open(events, v, k) /\ ~Closes(events[k + 1], v))
  BY <1>1, <1>3 DEF Open
<1>4. ASSUME Opens(events[k + 1], v)
      PROVE  Open(events, v, k + 1)
  BY <1>1, <1>2, <1>4 DEF Open
<1>5. ASSUME Open(events, v, k), ~Closes(events[k + 1], v)
      PROVE  Open(events, v, k + 1)
  BY <1>1, <1>5 DEF Open
<1>6. QED
  BY <1>3, <1>4, <1>5

\* The verdict of the walk is that some event opens what none after it closes.
LEMMA WalkIsOpen ==
  ASSUME NEW events, NEW v \in Nat, NEW m \in Nat, \A i \in 1..m : IsEvent(events[i]),
         NEW f, Walked(events, v, f, m)
  PROVE  f[m] = Open(events, v, m)
<1> DEFINE Right == {k \in 0..m : f[k] = Open(events, v, k)}
<1>1. \A n \in 0..m : f[n] = IF n = 0 THEN FALSE ELSE Boundary(v, f[n - 1], events[n])
  BY DEF Walked
<1>2. 0 \in Right
  <2>1. 0 \in 0..m
    OBVIOUS
  <2>2. f[0] = FALSE
    BY <1>1, <2>1, Zenon
  <2>3. Open(events, v, 0) = FALSE
    BY DEF Open
  <2>4. QED
    BY <2>1, <2>2, <2>3, Zenon
<1>3. \A k \in 0..(m - 1) : k \in Right => k + 1 \in Right
  <2> SUFFICES ASSUME NEW k \in 0..(m - 1), k \in Right PROVE k + 1 \in Right
    OBVIOUS
  <2>1. k + 1 \in 0..m /\ k + 1 \in 1..m /\ k + 1 # 0 /\ (k + 1) - 1 = k
    OBVIOUS
  <2>2. f[k + 1] = Boundary(v, f[k], events[k + 1])
    BY <1>1, <2>1
  <2>3. f[k] = Open(events, v, k) /\ Open(events, v, k) \in BOOLEAN
    BY DEF Open
  <2>4. Boundary(v, f[k], events[k + 1]) = (Opens(events[k + 1], v) \/ (f[k] /\ ~Closes(events[k + 1], v)))
    BY <2>1, <2>3, BoundaryIs
  <2>5. Open(events, v, k + 1) = (Opens(events[k + 1], v) \/ (Open(events, v, k) /\ ~Closes(events[k + 1], v)))
    <3>1. Open(events, v, k + 1) \in BOOLEAN
      BY DEF Open
    <3>2. QED
      BY <3>1, OpenNext
  <2>6. f[k + 1] = Open(events, v, k + 1)
    BY <2>2, <2>3, <2>4, <2>5
  <2>7. QED
    BY <2>1, <2>6
<1> HIDE DEF Right
<1>4. \A k \in 0..m : k \in Right
  BY <1>2, <1>3, Along
<1>5. QED
  BY <1>4 DEF Right

\* The places and the elements of a sequence.
LEMMA InSequence ==
  ASSUME NEW s, IsSequence(s)
  PROVE  Len(s) \in Nat /\ DOMAIN s = 1..Len(s) /\ \A i \in 1..Len(s) : s[i] \in ToSet(s)
BY DEF IsSequence

\* A range is matched exactly when the version is inside one of its intervals.
LEMMA RangeIs ==
  ASSUME NEW r, IsRange(r), NEW v \in Nat
  PROVE  MatchRange(r, v).hit = Inside(r, v)
<1> DEFINE m == Len(r.events)
           f == CHOOSE g : Walked(r.events, v, g, m)
<1>1. m \in Nat /\ DOMAIN r.events = 1..m /\ \A i \in 1..m : IsEvent(r.events[i])
  BY InSequence DEF IsRange
<1>2. Walked(r.events, v, f, m)
  BY <1>1, WalkExists
<1>3. MatchRange(r, v).hit = f[m]
  BY DEF MatchRange, Walked
<1> HIDE DEF f
<1>4. f[m] = Open(r.events, v, m)
  BY <1>1, <1>2, WalkIsOpen
<1>5. \A j \in 1..m : (r.events[j].kind # "introduced" /\
         LET c == Comparator(v, r.events[j].at)
         IN  IF r.events[j].kind = "last_affected" THEN c > 0 ELSE c >= 0) <=> Closes(r.events[j], v)
  <2> SUFFICES ASSUME NEW j \in 1..m PROVE (r.events[j].kind # "introduced" /\
         LET c == Comparator(v, r.events[j].at)
         IN  IF r.events[j].kind = "last_affected" THEN c > 0 ELSE c >= 0) <=> Closes(r.events[j], v)
    OBVIOUS
  <2>1. r.events[j].at \in Nat
    BY <1>1 DEF IsEvent
  <2> DEFINE at == r.events[j].at
  <2> HIDE DEF at
  <2>2. at \in Nat
    BY <2>1 DEF at
  <2>3. (v - at > 0 <=> v > at) /\ (v - at >= 0 <=> v >= at)
    BY <2>2
  <2>4. QED
    BY <2>3 DEF at, Closes, Comparator
<1>6. \A i \in 1..m : Closed(r, v, i) <=> \E j \in 1..m : j > i /\ Closes(r.events[j], v)
  BY <1>1, <1>5 DEF Closed
<1>7. \A i \in 1..m : (r.events[i].kind = "introduced" /\ (r.events[i].at = Zero \/ Comparator(v, r.events[i].at) >= 0))
         <=> Opens(r.events[i], v)
  <2> SUFFICES ASSUME NEW i \in 1..m
               PROVE (r.events[i].kind = "introduced" /\ (r.events[i].at = Zero \/ Comparator(v, r.events[i].at) >= 0))
                        <=> Opens(r.events[i], v)
    OBVIOUS
  <2> DEFINE at == r.events[i].at
  <2>1. at \in Nat
    BY <1>1 DEF IsEvent
  <2> HIDE DEF at
  <2>2. v - at >= 0 <=> v >= at
    BY <2>1
  <2>3. QED
    BY <2>2 DEF at, Opens, Comparator
<1>8. Inside(r, v) = Open(r.events, v, m)
  BY <1>1, <1>6, <1>7 DEF Inside, Open
<1>9. QED
  BY <1>3, <1>4, <1>8

\* A block is matched when it lists the version or a range of it holds it.
LEMMA BlockIs ==
  ASSUME NEW a, IsBlock(a), NEW v \in Nat
  PROVE  MatchAffected(a, v).hit <=>
           v \in a.versions \/ \E i \in DOMAIN a.ranges : a.ranges[i].type # "GIT" /\ Inside(a.ranges[i], v)
<1>1. \A i \in DOMAIN a.ranges : MatchRange(a.ranges[i], v).hit = Inside(a.ranges[i], v)
  BY InSequence, RangeIs DEF IsBlock
<1>2. QED
  BY <1>1 DEF MatchAffected

\* The scanner's verdict on a record is the API's.
LEMMA MatchIs ==
  ASSUME NEW e, IsEntry(e), NEW p, p.version \in Nat, ecosystem.family # ""
  PROVE  Match(e, ecosystem, p).hit <=> Affects(e, p.name, p.version)
<1>1. \A i \in DOMAIN e.affected : IsBlock(e.affected[i])
  BY InSequence DEF IsEntry
<1>2. \A i \in DOMAIN e.affected : MatchAffected(e.affected[i], p.version).hit <=>
        p.version \in e.affected[i].versions
        \/ \E k \in DOMAIN e.affected[i].ranges :
             e.affected[i].ranges[k].type # "GIT" /\ Inside(e.affected[i].ranges[k], p.version)
  BY <1>1, BlockIs
<1>3. \A i \in DOMAIN e.affected : EcosystemMatches(e.affected[i].eco, ecosystem) <=>
        /\ e.affected[i].eco.family = ecosystem.family
        /\ {e.affected[i].eco.version, ecosystem.version} \cap {""} # {}
           \/ e.affected[i].eco.version = ecosystem.version
  BY DEF EcosystemMatches
<1>4. QED
  BY <1>2, <1>3 DEF Match, Affects

-----------------------------------------------------------------------------
(***************************************************************************)
(* The merge.                                                              *)
(***************************************************************************)

\* f has the rows after each of the first k that are added.
Merged(rs, more, f, k) ==
  f = [n \in 0..k |-> IF n = 0 THEN rs ELSE Add(f[n - 1], more[n])]

\* The merge of a prefix is defined.
LEMMA MergeExists ==
  ASSUME NEW rs, NEW more, NEW m \in Nat
  PROVE  \E f : Merged(rs, more, f, m)
<1> DEFINE Made == {k \in 0..m : \E f : Merged(rs, more, f, k)}
<1>1. 0 \in Made
  <2> DEFINE f == [n \in 0..0 |-> rs]
  <2>1. Merged(rs, more, f, 0)
    BY DEF Merged
  <2> HIDE DEF f
  <2>2. QED
    BY <2>1
<1>2. \A k \in 0..(m - 1) : k \in Made => k + 1 \in Made
  <2> SUFFICES ASSUME NEW k \in 0..(m - 1), k \in Made PROVE k + 1 \in Made
    OBVIOUS
  <2>1. PICK f : Merged(rs, more, f, k)
    OBVIOUS
  <2> DEFINE Body(n) == IF n = 0 THEN rs ELSE Add(f[n - 1], more[n])
             g == [n \in 0..(k + 1) |-> Body(n)]
  <2>2. f = [n \in 0..k |-> Body(n)]
    BY <2>1, Zenon DEF Merged
  <2> HIDE DEF Body
  <2>3. \A n \in 0..k : g[n] = f[n]
    <3>1. 0..k \subseteq 0..(k + 1)
      OBVIOUS
    <3>2. \A n \in 0..(k + 1) : g[n] = Body(n)
      OBVIOUS
    <3>3. \A n \in 0..k : f[n] = Body(n)
      BY <2>2
    <3>4. QED
      BY <3>1, <3>2, <3>3
  <2>4. \A n \in 0..(k + 1) : n # 0 => n - 1 \in 0..k
    OBVIOUS
  <2>5. \A n \in 0..(k + 1) : Body(n) = IF n = 0 THEN rs ELSE Add(g[n - 1], more[n])
    BY <2>3, <2>4 DEF Body
  <2>6. g = [n \in 0..(k + 1) |-> IF n = 0 THEN rs ELSE Add(g[n - 1], more[n])]
    BY <2>5
  <2>7. Merged(rs, more, g, k + 1)
    BY <2>6 DEF Merged
  <2> HIDE DEF g
  <2>8. QED
    BY <2>7
<1> HIDE DEF Made
<1>3. m \in Made
  <2>1. \A k \in 0..m : k \in Made
    BY <1>1, <1>2, Along
  <2>2. QED
    BY <2>1
<1>4. QED
  BY <1>3 DEF Made

\* Rows are added one by one.
LEMMA AddedOneByOne ==
  ASSUME NEW rs, NEW more, Len(more) \in Nat
  PROVE  \E f : /\ f[0] = rs /\ f[Len(more)] = AddAll(rs, more)
                /\ \A k \in 0..(Len(more) - 1) : f[k + 1] = Add(f[k], more[k + 1])
<1> DEFINE m == Len(more)
           f == CHOOSE g : Merged(rs, more, g, m)
<1>1. Merged(rs, more, f, m)
  BY MergeExists
<1>2. AddAll(rs, more) = f[m]
  BY DEF AddAll, Merged
<1> HIDE DEF f
<1>3. \A n \in 0..m : f[n] = IF n = 0 THEN rs ELSE Add(f[n - 1], more[n])
  BY <1>1 DEF Merged
<1>4. f[0] = rs
  BY <1>3
<1>5. \A k \in 0..(m - 1) : f[k + 1] = Add(f[k], more[k + 1])
  <2> SUFFICES ASSUME NEW k \in 0..(m - 1) PROVE f[k + 1] = Add(f[k], more[k + 1])
    OBVIOUS
  <2>1. k + 1 \in 0..m /\ k + 1 # 0 /\ (k + 1) - 1 = k
    OBVIOUS
  <2>2. QED
    BY <1>3, <2>1
<1>6. QED
  BY <1>2, <1>4, <1>5

\* A row as the feeds make them, about a package.
IsRow(r) ==
  /\ r = [package |-> r.package, id |-> r.id, installed |-> r.installed, fixed |-> r.fixed,
          severity |-> r.severity, sources |-> r.sources]
  /\ r.package # ""

\* A row with what another feed adds to it, field by field.
LEMMA JoinOf ==
  ASSUME NEW p, NEW id, NEW i, NEW f, NEW s, NEW so, NEW v
  PROVE  Join([package |-> p, id |-> id, installed |-> i, fixed |-> f, severity |-> s, sources |-> so], v) =
           [package |-> p, id |-> id, installed |-> FirstOf(i, v.installed), fixed |-> FirstOf(f, v.fixed),
            severity |-> IF s = "unknown" THEN v.severity ELSE s, sources |-> so \cup v.sources]
<1> DEFINE r == [package |-> p, id |-> id, installed |-> i, fixed |-> f, severity |-> s, sources |-> so]
           new == [package |-> p, id |-> id, installed |-> FirstOf(i, v.installed), fixed |-> FirstOf(f, v.fixed),
                   severity |-> IF s = "unknown" THEN v.severity ELSE s, sources |-> so \cup v.sources]
           fields == {"package", "id", "installed", "fixed", "severity", "sources"}
<1>1. /\ r.package = p /\ r.id = id /\ r.installed = i /\ r.fixed = f /\ r.severity = s /\ r.sources = so
      /\ DOMAIN r = fields
  OBVIOUS
<1>2. /\ new.package = p /\ new.id = id /\ new.installed = FirstOf(i, v.installed) /\ new.fixed = FirstOf(f, v.fixed)
      /\ new.severity = (IF s = "unknown" THEN v.severity ELSE s) /\ new.sources = so \cup v.sources
      /\ DOMAIN new = fields /\ new = [x \in fields |-> new[x]]
  OBVIOUS
<1> HIDE DEF r, new
<1>3. /\ DOMAIN Join(r, v) = DOMAIN r /\ Join(r, v) = [x \in DOMAIN r |-> Join(r, v)[x]]
      /\ Join(r, v).package = r.package /\ Join(r, v).id = r.id
  BY <1>1 DEF Join
<1>4. /\ Join(r, v).installed = FirstOf(r.installed, v.installed)
      /\ Join(r, v).fixed = FirstOf(r.fixed, v.fixed)
      /\ Join(r, v).severity = (IF r.severity = "unknown" THEN v.severity ELSE r.severity)
      /\ Join(r, v).sources = r.sources \cup v.sources
  BY <1>1 DEF Join
<1> DEFINE j == Join(r, v)
<1> HIDE DEF j
<1>5. \A x \in fields : j[x] = new[x]
  BY <1>1, <1>2, <1>3, <1>4 DEF j
<1>6. j = [x \in fields |-> j[x]]
  BY <1>1, <1>3 DEF j
<1>7. j = new
  BY <1>2, <1>5, <1>6
<1>8. QED
  BY <1>7 DEF j, new, r

\* A joined row is still the row of its flaw, with both names and the first grade.
LEMMA JoinIs ==
  ASSUME NEW r, IsRow(r), NEW v
  PROVE  /\ IsRow(Join(r, v)) /\ OneFlaw(Join(r, v), r)
         /\ Join(r, v).sources = r.sources \cup v.sources
         /\ Join(r, v).severity = (IF r.severity = "unknown" THEN v.severity ELSE r.severity)
         /\ Join(r, v).installed = FirstOf(r.installed, v.installed)
<1> DEFINE new == [package |-> r.package, id |-> r.id, installed |-> FirstOf(r.installed, v.installed),
                   fixed |-> FirstOf(r.fixed, v.fixed),
                   severity |-> IF r.severity = "unknown" THEN v.severity ELSE r.severity,
                   sources |-> r.sources \cup v.sources]
<1> DEFINE old == [package |-> r.package, id |-> r.id, installed |-> r.installed, fixed |-> r.fixed,
                   severity |-> r.severity, sources |-> r.sources]
<1>0. Join(old, v) = new
  BY JoinOf
<1>1. Join(r, v) = new
  <2>1. r = old
    BY DEF IsRow
  <2> HIDE DEF old, new
  <2>2. QED
    BY <1>0, <2>1
<1> HIDE DEF old
<1>2. /\ new.package = r.package /\ new.id = r.id /\ new.sources = r.sources \cup v.sources
      /\ new.severity = (IF r.severity = "unknown" THEN v.severity ELSE r.severity)
      /\ new.installed = FirstOf(r.installed, v.installed) /\ new.fixed = FirstOf(r.fixed, v.fixed)
  OBVIOUS
<1>3. new = [package |-> new.package, id |-> new.id, installed |-> new.installed, fixed |-> new.fixed,
             severity |-> new.severity, sources |-> new.sources]
  OBVIOUS
<1> HIDE DEF new
<1>4. QED
  BY <1>1, <1>2, <1>3 DEF IsRow, OneFlaw

\* What the first n of g say of a flaw, and the first grade among it.
Saying(g, n, r) == {i \in 1..n : OneFlaw(g[i], r)}
Grading(g, n, r) == {i \in Saying(g, n, r) : g[i].severity # "unknown"}
GradeOf(g, n, r) == IF Grading(g, n, r) = {} THEN "unknown" ELSE g[Min(Grading(g, n, r))].severity

\* The rows are the first n of g: one to a flaw, with all its sources and its first grade.
MergeOf(rs, g, n) ==
  /\ \A r, s \in rs : OneFlaw(r, s) => r = s
  /\ \A i \in 1..n : \E r \in rs : OneFlaw(r, g[i])
  /\ \A r \in rs : /\ IsRow(r)
                   /\ Saying(g, n, r) # {}
                   /\ r.sources = UNION {g[i].sources : i \in Saying(g, n, r)}
                   /\ r.severity = GradeOf(g, n, r)

\* To be about the same flaw is an equivalence.
LEMMA FlawsAlike ==
  ASSUME NEW a, NEW b, NEW c
  PROVE  (OneFlaw(a, b) <=> OneFlaw(b, a)) /\ (OneFlaw(a, b) /\ OneFlaw(b, c) => OneFlaw(a, c)) /\ OneFlaw(a, a)
BY DEF OneFlaw

\* One more of g.
LEMMA SayingNext ==
  ASSUME NEW g, NEW n \in Nat, NEW r
  PROVE  Saying(g, n + 1, r) = Saying(g, n, r) \cup (IF OneFlaw(g[n + 1], r) THEN {n + 1} ELSE {})
<1>1. 1..(n + 1) = (1..n) \cup {n + 1}
  OBVIOUS
<1>2. QED
  BY <1>1 DEF Saying

\* One more thing said changes the first grade only where there was none.
LEMMA GradeNext ==
  ASSUME NEW g, NEW n \in Nat, NEW r
  PROVE  GradeOf(g, n + 1, r) =
           IF GradeOf(g, n, r) = "unknown" /\ OneFlaw(g[n + 1], r) THEN g[n + 1].severity ELSE GradeOf(g, n, r)
<1> DEFINE now == Grading(g, n, r)
           then == Grading(g, n + 1, r)
<1>1. now \subseteq 1..n /\ now \subseteq Nat /\ \A i \in now : g[i].severity # "unknown"
  BY DEF Grading, Saying
<1>2. then = now \cup (IF OneFlaw(g[n + 1], r) /\ g[n + 1].severity # "unknown" THEN {n + 1} ELSE {})
  BY SayingNext DEF Grading
<1> HIDE DEF now, then
<1>3. GradeOf(g, n, r) = IF now = {} THEN "unknown" ELSE g[Min(now)].severity
  BY DEF GradeOf, now
<1>4. GradeOf(g, n + 1, r) = IF then = {} THEN "unknown" ELSE g[Min(then)].severity
  BY DEF GradeOf, then
<1>5. CASE now = {}
  <2>1. CASE OneFlaw(g[n + 1], r) /\ g[n + 1].severity # "unknown"
    <3>1. then = {n + 1}
      BY <1>2, <1>5, <2>1
    <3>2. Min(then) = n + 1
      BY <3>1, LeastOf
    <3>3. QED
      BY <1>3, <1>4, <1>5, <2>1, <3>1, <3>2
  <2>2. CASE ~(OneFlaw(g[n + 1], r) /\ g[n + 1].severity # "unknown")
    <3>1. then = {}
      BY <1>2, <1>5, <2>2
    <3>2. QED
      BY <1>3, <1>4, <1>5, <2>2, <3>1
  <2>3. QED
    BY <2>1, <2>2
<1>6. CASE now # {}
  <2>1. Min(now) \in now /\ \A i \in now : Min(now) <= i
    BY <1>1, <1>6, LeastOf
  <2>2. then \subseteq Nat /\ then # {} /\ now \subseteq then
    BY <1>1, <1>2, <1>6
  <2>3. Min(then) \in then /\ \A i \in then : Min(then) <= i
    BY <2>2, LeastOf
  <2>4. Min(then) <= Min(now) /\ Min(now) \in 1..n
    BY <1>1, <2>1, <2>2, <2>3
  <2>5. Min(then) \in now
    BY <1>2, <2>3, <2>4
  <2>6. Min(then) = Min(now)
    <3>1. Min(then) \in 1..n /\ Min(now) <= Min(then)
      BY <1>1, <2>1, <2>5
    <3>2. QED
      BY <2>4, <3>1
  <2>7. g[Min(now)].severity # "unknown"
    BY <1>1, <2>1
  <2>8. QED
    BY <1>3, <1>4, <1>6, <2>2, <2>6, <2>7
<1>7. QED
  BY <1>5, <1>6

\* Of two sequences, one after the other, each element is one of theirs.
LEMMA Append2Is ==
  ASSUME NEW s, NEW t, IsSequence(s), IsSequence(t)
  PROVE  /\ IsSequence(s \o t) /\ ToSet(s \o t) = ToSet(s) \cup ToSet(t)
         /\ Len(s \o t) = Len(s) + Len(t)
         /\ \A i \in 1..Len(s) : (s \o t)[i] = s[i]
         /\ \A i \in 1..Len(t) : (s \o t)[Len(s) + i] = t[i]
<1> DEFINE T == ToSet(s) \cup ToSet(t)
<1>1. s \in Seq(ToSet(s)) /\ t \in Seq(ToSet(t))
  BY DEF IsSequence
<1>2. ToSet(s) \subseteq T /\ ToSet(t) \subseteq T
  OBVIOUS
<1> HIDE DEF T
<1>3. s \in Seq(T) /\ t \in Seq(T)
  BY <1>1, <1>2
<1>4. s \o t \in Seq(T) /\ ToSet(s \o t) = ToSet(s) \cup ToSet(t)
  BY <1>3, ConcatIs
<1>5. T = ToSet(s \o t)
  BY <1>4 DEF T
<1>6. IsSequence(s \o t)
  BY <1>4, <1>5 DEF IsSequence
<1>7. QED
  BY <1>3, <1>4, <1>6

\* Rows of one flaw are spoken of alike.
LEMMA SameFlaw ==
  ASSUME NEW g, NEW n, NEW a, NEW b, OneFlaw(a, b)
  PROVE  Saying(g, n, a) = Saying(g, n, b) /\ GradeOf(g, n, a) = GradeOf(g, n, b)
<1>1. \A x : OneFlaw(x, a) <=> OneFlaw(x, b)
  BY DEF OneFlaw
<1>2. Saying(g, n, a) = Saying(g, n, b)
  BY <1>1 DEF Saying
<1>3. Grading(g, n, a) = Grading(g, n, b)
  BY <1>2 DEF Grading
<1>4. QED
  BY <1>2, <1>3 DEF GradeOf

\* A row is added beside those of other flaws, or joined to the one of its own.
LEMMA AddIs ==
  ASSUME NEW rs, NEW v, v.package # "", \A r, s \in rs : OneFlaw(r, s) => r = s
  PROVE  \/ (\A r \in rs : ~OneFlaw(r, v)) /\ Add(rs, v) = rs \cup {v}
         \/ \E o \in rs : OneFlaw(o, v) /\ Add(rs, v) = (rs \ {o}) \cup {Join(o, v)}
<1> DEFINE same == {r \in rs : OneFlaw(r, v)}
<1>1. CASE same = {}
  BY <1>1 DEF Add
<1>2. CASE same # {}
  <2>1. PICK o \in rs : OneFlaw(o, v)
    BY <1>2
  <2>2. \A r \in same : r = o
    BY <2>1, FlawsAlike
  <2>3. same = {o}
    BY <2>1, <2>2
  <2> HIDE DEF same
  <2>4. Add(rs, v) = (rs \ same) \cup {Join(r, v) : r \in same}
    BY <1>2 DEF Add, same
  <2>5. Add(rs, v) = (rs \ {o}) \cup {Join(o, v)}
    BY <2>3, <2>4
  <2>6. QED
    BY <2>1, <2>5
<1>3. QED
  BY <1>1, <1>2

\* One row of a merge.
RowOf(r, g, n) ==
  /\ IsRow(r)
  /\ Saying(g, n, r) # {}
  /\ r.sources = UNION {g[i].sources : i \in Saying(g, n, r)}
  /\ r.severity = GradeOf(g, n, r)

\* The row of one flaw is not touched by what is said of another.
LEMMA RowKept ==
  ASSUME NEW g, NEW n \in Nat, NEW r, RowOf(r, g, n), ~OneFlaw(g[n + 1], r)
  PROVE  RowOf(r, g, n + 1)
<1>1. Saying(g, n + 1, r) = Saying(g, n, r)
  BY SayingNext
<1>2. GradeOf(g, n + 1, r) = GradeOf(g, n, r)
  BY GradeNext
<1>3. QED
  BY <1>1, <1>2 DEF RowOf

\* The first that is said of a flaw is its row.
LEMMA RowNew ==
  ASSUME NEW g, NEW n \in Nat, IsRow(g[n + 1]), Saying(g, n, g[n + 1]) = {}
  PROVE  RowOf(g[n + 1], g, n + 1)
<1> DEFINE v == g[n + 1]
<1>1. OneFlaw(v, v)
  BY FlawsAlike
<1>2. Saying(g, n + 1, v) = {n + 1}
  BY <1>1, SayingNext
<1>3. GradeOf(g, n, v) = "unknown"
  BY DEF GradeOf, Grading
<1>4. GradeOf(g, n + 1, v) = v.severity
  BY <1>1, <1>3, GradeNext
<1>5. QED
  BY <1>2, <1>4 DEF RowOf

\* What more is said of a flaw is joined to its row.
LEMMA RowJoined ==
  ASSUME NEW g, NEW n \in Nat, NEW r, RowOf(r, g, n), OneFlaw(r, g[n + 1])
  PROVE  RowOf(Join(r, g[n + 1]), g, n + 1)
<1> DEFINE v == g[n + 1]
           j == Join(r, v)
<1>1. /\ IsRow(j) /\ OneFlaw(j, r) /\ j.sources = r.sources \cup v.sources
      /\ j.severity = (IF r.severity = "unknown" THEN v.severity ELSE r.severity)
  BY JoinIs DEF RowOf
<1>2. OneFlaw(v, r)
  BY FlawsAlike
<1>3. Saying(g, n + 1, j) = Saying(g, n + 1, r) /\ GradeOf(g, n + 1, j) = GradeOf(g, n + 1, r)
  BY <1>1, SameFlaw
<1>4. Saying(g, n + 1, r) = Saying(g, n, r) \cup {n + 1}
  BY <1>2, SayingNext
<1>5. GradeOf(g, n + 1, r) = IF GradeOf(g, n, r) = "unknown" THEN v.severity ELSE GradeOf(g, n, r)
  BY <1>2, GradeNext
<1> HIDE DEF j
<1>6. j.sources = UNION {g[i].sources : i \in Saying(g, n + 1, j)}
  BY <1>1, <1>3, <1>4 DEF RowOf
<1>7. j.severity = GradeOf(g, n + 1, j)
  BY <1>1, <1>3, <1>5 DEF RowOf
<1>8. RowOf(j, g, n + 1)
  BY <1>1, <1>3, <1>4, <1>6, <1>7 DEF RowOf
<1>9. QED
  BY <1>8 DEF j

\* One more row is merged.
LEMMA MergeNext ==
  ASSUME NEW rs, NEW g, NEW n \in Nat, MergeOf(rs, g, n), IsRow(g[n + 1])
  PROVE  MergeOf(Add(rs, g[n + 1]), g, n + 1)
<1> DEFINE v == g[n + 1]
<1>1. \A i \in 1..(n + 1) : i \in 1..n \/ i = n + 1
  OBVIOUS
<1>2. \A r \in rs : RowOf(r, g, n)
  BY DEF MergeOf, RowOf
<1>3. v.package # "" /\ \A r, s \in rs : OneFlaw(r, s) => r = s
  BY DEF MergeOf, IsRow
<1>4. CASE (\A r \in rs : ~OneFlaw(r, v)) /\ Add(rs, v) = rs \cup {v}
  <2>1. \A r \in rs : ~OneFlaw(v, r)
    BY <1>4, FlawsAlike
  <2>2. \A r, s \in rs \cup {v} : OneFlaw(r, s) => r = s
    BY <1>3, <1>4, <2>1
  <2>3. \A i \in 1..(n + 1) : \E r \in rs \cup {v} : OneFlaw(r, g[i])
    BY <1>1, FlawsAlike DEF MergeOf
  <2>4. Saying(g, n, v) = {}
    <3> SUFFICES ASSUME NEW i \in 1..n, OneFlaw(g[i], v) PROVE FALSE
      BY DEF Saying
    <3>1. PICK r \in rs : OneFlaw(r, g[i])
      BY DEF MergeOf
    <3>2. QED
      BY <1>4, <3>1, FlawsAlike
  <2>5. \A r \in rs \cup {v} : RowOf(r, g, n + 1)
    BY <1>2, <2>1, <2>4, RowKept, RowNew
  <2>6. QED
    BY <1>4, <2>2, <2>3, <2>5 DEF MergeOf, RowOf
<1>5. CASE \E o \in rs : OneFlaw(o, v) /\ Add(rs, v) = (rs \ {o}) \cup {Join(o, v)}
  <2>1. PICK o \in rs : OneFlaw(o, v) /\ Add(rs, v) = (rs \ {o}) \cup {Join(o, v)}
    BY <1>5
  <2> DEFINE j == Join(o, v)
             new == (rs \ {o}) \cup {j}
  <2>2. RowOf(j, g, n + 1) /\ OneFlaw(j, o)
    <3>1. RowOf(o, g, n) /\ IsRow(o)
      BY <1>2, <2>1 DEF RowOf
    <3>2. OneFlaw(o, g[n + 1])
      BY <2>1
    <3>3. RowOf(Join(o, g[n + 1]), g, n + 1)
      BY <3>1, <3>2, RowJoined, Zenon
    <3>4. OneFlaw(Join(o, g[n + 1]), o)
      BY <3>1, JoinIs, Zenon
    <3>5. QED
      BY <3>3, <3>4
  <2> HIDE DEF j
  <2>3. \A r \in rs \ {o} : ~OneFlaw(r, o) /\ ~OneFlaw(v, r)
    BY <1>3, <2>1, FlawsAlike
  <2>4. \A r \in rs \ {o} : ~OneFlaw(r, j) /\ ~OneFlaw(j, r)
    BY <2>2, <2>3, FlawsAlike
  <2>5. \A r, s \in new : OneFlaw(r, s) => r = s
    BY <1>3, <2>4
  <2>6. \A i \in 1..(n + 1) : \E r \in new : OneFlaw(r, g[i])
    <3> SUFFICES ASSUME NEW i \in 1..(n + 1) PROVE \E r \in new : OneFlaw(r, g[i])
      OBVIOUS
    <3>1. PICK r \in rs : OneFlaw(r, g[i])
      BY <1>1, <2>1 DEF MergeOf
    <3>2. CASE r = o
      BY <2>2, <3>1, <3>2, FlawsAlike
    <3>3. CASE r # o
      BY <3>1, <3>3
    <3>4. QED
      BY <3>2, <3>3
  <2>7. \A r \in new : RowOf(r, g, n + 1)
    BY <1>2, <2>2, <2>3, RowKept
  <2>8. Add(rs, v) = new
    BY <2>1 DEF j
  <2>9. QED
    BY <2>5, <2>6, <2>7, <2>8 DEF MergeOf, RowOf
<1> HIDE DEF v
<1>6. \/ (\A r \in rs : ~OneFlaw(r, v)) /\ Add(rs, v) = rs \cup {v}
      \/ \E o \in rs : OneFlaw(o, v) /\ Add(rs, v) = (rs \ {o}) \cup {Join(o, v)}
  BY <1>3, AddIs
<1>7. QED
  BY <1>4, <1>5, <1>6 DEF v

\* Of what is merged only the first n matter.
LEMMA MergeSame ==
  ASSUME NEW rs, NEW g, NEW h, NEW n \in Nat, \A i \in 1..n : g[i] = h[i], MergeOf(rs, g, n)
  PROVE  MergeOf(rs, h, n)
<1>1. \A r : Saying(g, n, r) = Saying(h, n, r)
  BY DEF Saying
<1>2. \A r : Grading(g, n, r) = Grading(h, n, r) /\ Grading(h, n, r) \subseteq 1..n
  BY <1>1 DEF Grading, Saying
<1>3. \A r : GradeOf(g, n, r) = GradeOf(h, n, r)
  <2> SUFFICES ASSUME NEW r PROVE GradeOf(g, n, r) = GradeOf(h, n, r)
    OBVIOUS
  <2>1. CASE Grading(h, n, r) = {}
    BY <1>2, <2>1 DEF GradeOf
  <2>2. CASE Grading(h, n, r) # {}
    <3>1. Grading(h, n, r) \subseteq Nat
      BY <1>2
    <3>2. Min(Grading(h, n, r)) \in 1..n
      BY <1>2, <2>2, <3>1, LeastOf
    <3>3. QED
      BY <1>2, <2>2, <3>2 DEF GradeOf
  <2>3. QED
    BY <2>1, <2>2
<1>4. \A r : UNION {g[i].sources : i \in Saying(g, n, r)} = UNION {h[i].sources : i \in Saying(h, n, r)}
  <2> SUFFICES ASSUME NEW r
               PROVE UNION {g[i].sources : i \in Saying(g, n, r)} = UNION {h[i].sources : i \in Saying(h, n, r)}
    OBVIOUS
  <2>1. \A i \in Saying(h, n, r) : g[i].sources = h[i].sources
    BY DEF Saying
  <2>2. QED
    BY <1>1, <2>1
<1>5. QED
  BY <1>1, <1>3, <1>4 DEF MergeOf

\* All of them are merged.
LEMMA MergeAll ==
  ASSUME NEW rs, NEW g, NEW more, IsSequence(g), IsSequence(more), MergeOf(rs, g, Len(g)),
         \A v \in ToSet(more) : IsRow(v)
  PROVE  MergeOf(AddAll(rs, more), g \o more, Len(g) + Len(more))
<1> DEFINE all == g \o more
<1>1. Len(g) \in Nat /\ Len(more) \in Nat /\ \A i \in 1..Len(more) : more[i] \in ToSet(more)
  BY InSequence
<1>2. (\A i \in 1..Len(g) : all[i] = g[i]) /\ (\A i \in 1..Len(more) : all[Len(g) + i] = more[i])
  BY Append2Is
<1> HIDE DEF all
<1>3. PICK f : /\ f[0] = rs /\ f[Len(more)] = AddAll(rs, more)
               /\ \A k \in 0..(Len(more) - 1) : f[k + 1] = Add(f[k], more[k + 1])
  BY <1>1, AddedOneByOne
<1> DEFINE Right == {k \in 0..Len(more) : MergeOf(f[k], all, Len(g) + k)}
<1>4. 0 \in Right
  <2>1. MergeOf(rs, all, Len(g))
    BY <1>1, <1>2, MergeSame
  <2>2. Len(g) + 0 = Len(g) /\ 0 \in 0..Len(more)
    BY <1>1
  <2>3. QED
    BY <1>3, <2>1, <2>2
<1>5. \A k \in 0..(Len(more) - 1) : k \in Right => k + 1 \in Right
  <2> SUFFICES ASSUME NEW k \in 0..(Len(more) - 1), k \in Right PROVE k + 1 \in Right
    OBVIOUS
  <2> DEFINE n == Len(g) + k
  <2>1. k + 1 \in 1..Len(more) /\ k + 1 \in 0..Len(more) /\ n \in Nat /\ n + 1 = Len(g) + (k + 1)
    BY <1>1
  <2>2. all[n + 1] = more[k + 1] /\ IsRow(all[n + 1])
    BY <1>1, <1>2, <2>1
  <2>3. f[k + 1] = Add(f[k], all[n + 1])
    BY <1>3, <2>2
  <2>4. MergeOf(f[k], all, n)
    OBVIOUS
  <2> HIDE DEF n
  <2>5. MergeOf(f[k + 1], all, n + 1)
    BY <2>1, <2>2, <2>3, <2>4, MergeNext
  <2>6. QED
    BY <2>1, <2>5
<1>6. Len(more) \in Right
  <2> HIDE DEF Right
  <2>1. \A k \in 0..Len(more) : k \in Right
    BY <1>1, <1>4, <1>5, Along
  <2>2. QED
    BY <1>1, <2>1
<1>7. QED
  BY <1>3, <1>6 DEF all

-----------------------------------------------------------------------------
(***************************************************************************)
(* The shape of the state.                                                 *)
(***************************************************************************)

\* A function on the first numbers is a sequence of its values.
LEMMA MapIs ==
  ASSUME NEW n \in Nat, NEW f, f = [i \in 1..n |-> f[i]]
  PROVE  IsSequence(f) /\ Len(f) = n /\ DOMAIN f = 1..n /\ \A x : x \in ToSet(f) <=> \E i \in 1..n : f[i] = x
<1>1. DOMAIN f = 1..n
  BY Zenon
<1>2. \A x : x \in ToSet(f) <=> \E i \in 1..n : f[i] = x
  BY <1>1 DEF ToSet
<1>3. f \in [1..n -> ToSet(f)]
  BY <1>1, <1>2
<1>4. f \in Seq(ToSet(f)) /\ Len(f) = n
  BY <1>3
<1>5. QED
  BY <1>1, <1>2, <1>4 DEF IsSequence

\* What is picked of a sequence is one of its elements.
LEMMA PickIs ==
  ASSUME NEW s, IsSequence(s), NEW places
  PROVE  /\ IsSequence(Picked(s, places)) /\ ToSet(Picked(s, places)) \subseteq ToSet(s)
         /\ \A x : x \in ToSet(Picked(s, places)) <=> \E i \in DOMAIN s : i \in places /\ s[i] = x
<1>1. s \in Seq(ToSet(s))
  BY DEF IsSequence
<1>2. \A x : x \in ToSet(Picked(s, places)) <=> \E i \in DOMAIN s : i \in places /\ s[i] = x
  BY <1>1, PickedIs
<1>3. Picked(s, places) \in Seq(ToSet(s))
  BY <1>1, PickedIs
<1>4. ToSet(Picked(s, places)) \subseteq ToSet(s)
  BY <1>2 DEF ToSet
<1>5. \A i \in DOMAIN Picked(s, places) : Picked(s, places)[i] \in ToSet(Picked(s, places))
  BY DEF ToSet
<1>6. Picked(s, places) \in Seq(ToSet(Picked(s, places)))
  <2> DEFINE q == Picked(s, places)
  <2> HIDE DEF q
  <2>1. q \in Seq(ToSet(s)) => q \in [1..Len(q) -> ToSet(s)] /\ Len(q) \in Nat /\ DOMAIN q = 1..Len(q)
    OBVIOUS
  <2>2. (\A i \in DOMAIN q : q[i] \in ToSet(q)) /\ q \in Seq(ToSet(s)) => q \in [1..Len(q) -> ToSet(q)]
    BY <2>1
  <2>3. (\A i \in DOMAIN q : q[i] \in ToSet(q)) /\ q \in Seq(ToSet(s)) => q \in Seq(ToSet(q))
    BY <2>1, <2>2
  <2>4. QED
    BY <1>3, <1>5, <2>3 DEF q
<1>7. QED
  BY <1>2, <1>4, <1>6 DEF IsSequence

\* The notes there are.
Notes == {"failed", "feed", "db", "dbEcosystem", "api", "apiEcosystem", "cap", "lookup"}
Steps == {"updates", "security", "rpm", "installed", "feed", "versions", "offline", "online", "batch",
          "cap", "lookup", "filter", "done"}

\* A version of a package, or none: it is not installed.
Version == Nat \cup {NoVersion}

WorldOK ==
  /\ setup \in Setups /\ host \in [DOMAIN Repo -> Version]
  /\ past \subseteq (DOMAIN Repo) \X Version /\ \A n \in DOMAIN Repo : <<n, host[n]>> \in past
  /\ ecosystem.family = "" => ecosystem = NoEcosystem
  /\ pc \in Steps /\ told \subseteq Notes

\* Packages the host has had in this audit.
ArePackages(ps) ==
  /\ IsSequence(ps)
  /\ \A p \in ToSet(ps) : p.name \in DOMAIN Repo /\ <<p.name, p.version>> \in past /\ p.version # NoVersion

\* The steps at which the packages are known.
Listed == {"feed", "versions", "offline", "online", "batch", "cap", "lookup", "filter"}

PackagesOK ==
  /\ packages = Unread \/ ArePackages(packages)
  /\ pc \in Listed \/ Ended => ArePackages(packages)

\* An ecosystem without a family is no ecosystem.
LEMMA OsvIs ==
  ASSUME NEW os, NEW m
  PROVE  Ecosystem(m, os).family = "" => Ecosystem(m, os) = NoEcosystem
BY DEF Ecosystem, OsvEcosystem, NoEcosystem, Eco

\* The world and the packages as a run begins.
LEMMA WorldInit ==
  Init => WorldOK /\ PackagesOK
<1> SUFFICES ASSUME Init PROVE WorldOK /\ PackagesOK
  OBVIOUS
<1>1. setup \in Setups /\ host \in [DOMAIN Repo -> Version] /\ packages = Unread /\ told = {}
      /\ pc \in {"updates", "installed"} /\ past = {<<n, host[n]>> : n \in DOMAIN host}
  BY HostsTyped DEF Init, Version
<1>2. past \subseteq (DOMAIN Repo) \X Version /\ \A n \in DOMAIN Repo : <<n, host[n]>> \in past
  BY <1>1
<1>3. ecosystem.family = "" => ecosystem = NoEcosystem
  <2>1. CASE setup.override # NoEcosystem
    BY <2>1, SetupsTyped DEF Init
  <2>2. CASE setup.override = NoEcosystem
    BY <2>2, OsvIs DEF Init
  <2>3. QED
    BY <2>1, <2>2
<1>4. WorldOK
  BY <1>1, <1>2, <1>3 DEF WorldOK, Steps
<1>5. PackagesOK
  BY <1>1 DEF PackagesOK, Listed, Ended
<1>6. QED
  BY <1>4, <1>5

\* What a step leaves alone, and what only grows.
LEMMA Grows ==
  ASSUME WorldOK, [Next]_vars
  PROVE  setup' = setup /\ manager' = manager /\ ecosystem' = ecosystem /\ past \subseteq past' /\ told \subseteq told'
<1>1. CASE Upgrade
  BY <1>1 DEF Upgrade, run
<1>2. CASE ReadUpdates
  BY <1>2 DEF ReadUpdates, world, run
<1>2a. CASE MarkSecurity
  BY <1>2a DEF MarkSecurity, world, run
<1>2b. CASE FillInstalled
  BY <1>2b DEF FillInstalled, world, run
<1>3. CASE ListInstalled
  BY <1>3 DEF ListInstalled, world, run
<1>4. CASE ReadFeed
  BY <1>4 DEF ReadFeed, world, run
<1>5. CASE FillVersions
  BY <1>5 DEF FillVersions, world, run
<1>6. CASE ReadDataset
  BY <1>6 DEF ReadDataset, world, run
<1>7. CASE AskAPI
  BY <1>7 DEF AskAPI, world, run
<1>8. CASE Batch
  BY <1>8 DEF Batch, world, run
<1>9. CASE Cap
  BY <1>9 DEF Cap, world, run
<1>10. CASE Lookup
  BY <1>10 DEF Lookup, world, run
<1>11. CASE Looked
  BY <1>11 DEF Looked, world, run
<1>12. CASE Filter
  BY <1>12 DEF Filter, world, run
<1>13. CASE UNCHANGED vars
  BY <1>13 DEF vars
<1>14. QED
  BY <1>1, <1>2, <1>2a, <1>2b, <1>3, <1>4, <1>5, <1>6, <1>7, <1>8, <1>9, <1>10, <1>11, <1>12, <1>13 DEF Next

\* What an upgrade installs is a package of the repositories.
LEMMA UpgradedIs ==
  ASSUME NEW h, DOMAIN h = DOMAIN Repo
  PROVE  DistUpgrade(h, Repo) \subseteq DOMAIN Repo
<1>1. Upgradable(h, Repo) \subseteq DOMAIN Repo
  BY DEF Upgradable, Present
<1>2. Brought(h, Repo) \subseteq DOMAIN Repo
  BY <1>1, HostsTyped DEF Brought
<1>3. QED
  BY <1>1, <1>2 DEF DistUpgrade

\* A step keeps the run, the host and the notes in their shape.
LEMMA WorldNext ==
  ASSUME WorldOK, [Next]_vars
  PROVE  WorldOK'
<1>1. CASE Upgrade
  <2>1. PICK n \in DistUpgrade(host, Repo) :
          /\ host' = [host EXCEPT ![n] = Repo[n].version]
          /\ past' = past \cup {<<n, Repo[n].version>>}
          /\ UNCHANGED <<run, pc, told>>
    BY <1>1 DEF Upgrade
  <2>2. n \in DOMAIN Repo /\ Repo[n].version \in Version
    BY UpgradedIs, HostsTyped DEF WorldOK, Version
  <2>3. host' \in [DOMAIN Repo -> Version] /\ past' \subseteq (DOMAIN Repo) \X Version
    <3>1. host \in [DOMAIN Repo -> Version] /\ past \subseteq (DOMAIN Repo) \X Version
      BY DEF WorldOK
    <3>2. host' \in [DOMAIN Repo -> Version]
      BY <2>1, <2>2, <3>1
    <3>3. <<n, Repo[n].version>> \in (DOMAIN Repo) \X Version
      BY <2>2
    <3>4. QED
      BY <2>1, <3>1, <3>2, <3>3
  <2>4. \A m \in DOMAIN Repo : <<m, host'[m]>> \in past'
    <3> SUFFICES ASSUME NEW m \in DOMAIN Repo PROVE <<m, host'[m]>> \in past'
      OBVIOUS
    <3>1. host'[m] = IF m = n THEN Repo[n].version ELSE host[m]
      BY <2>1 DEF WorldOK
    <3>2. <<m, host[m]>> \in past
      BY DEF WorldOK
    <3>3. QED
      BY <2>1, <3>1, <3>2
  <2>5. QED
    BY <2>1, <2>3, <2>4 DEF WorldOK, run
<1>2. CASE host' = host /\ past' = past
  <2>1. pc' \in Steps /\ told' \subseteq Notes
    <3>1. CASE Upgrade
      BY <3>1 DEF Upgrade, WorldOK
    <3>2. CASE ReadUpdates
      BY <3>2 DEF ReadUpdates, After, WorldOK, Steps
    <3>2a. CASE MarkSecurity
      BY <3>2a DEF MarkSecurity, WorldOK, Steps
    <3>2b. CASE FillInstalled
      BY <3>2b DEF FillInstalled, After, WorldOK, Steps
    <3>3. CASE ListInstalled
      BY <3>3 DEF ListInstalled, WorldOK, Steps, Notes
    <3>4. CASE ReadFeed
      BY <3>4 DEF ReadFeed, WorldOK, Steps, Notes
    <3>5. CASE FillVersions
      BY <3>5 DEF FillVersions, WorldOK, Steps, Notes
    <3>6. CASE ReadDataset
      BY <3>6 DEF ReadDataset, WorldOK, Steps, Notes
    <3>7. CASE AskAPI
      BY <3>7 DEF AskAPI, WorldOK, Steps, Notes
    <3>8. CASE Batch
      BY <3>8 DEF Batch, WorldOK, Steps, Notes
    <3>9. CASE Cap
      BY <3>9 DEF Cap, WorldOK, Steps, Notes
    <3>10. CASE Lookup
      BY <3>10 DEF Lookup, WorldOK, Steps, Notes
    <3>11. CASE Looked
      BY <3>11 DEF Looked, WorldOK, Steps, Notes
    <3>12. CASE Filter
      BY <3>12 DEF Filter, WorldOK, Steps, Notes
    <3>13. CASE UNCHANGED vars
      BY <3>13 DEF vars, WorldOK
    <3>14. QED
      BY <3>1, <3>2, <3>2a, <3>2b, <3>3, <3>4, <3>5, <3>6, <3>7, <3>8, <3>9, <3>10, <3>11, <3>12, <3>13 DEF Next
  <2>2. setup' = setup /\ ecosystem' = ecosystem
    BY Grows
  <2>3. QED
    BY <1>2, <2>1, <2>2 DEF WorldOK
<1>3. ~Upgrade => host' = host /\ past' = past
  BY DEF Next, ReadUpdates, MarkSecurity, FillInstalled, ListInstalled, ReadFeed, FillVersions, ReadDataset,
         AskAPI, Batch, Cap, Lookup,
         Looked, Filter, vars, world
<1>4. QED
  BY <1>1, <1>2, <1>3

\* The version of a package in a list is one the list has, if it has any.
LEMMA VersionInIs ==
  ASSUME NEW ps, NEW name
  PROVE  /\ VersionIn(ps, name) = NoVersion \/ \E p \in ps : p.name = name /\ p.version = VersionIn(ps, name)
         /\ (\E p \in ps : p.name = name) => \E p \in ps : p.name = name /\ p.version = VersionIn(ps, name)
<1> DEFINE found == {p \in ps : p.name = name}
<1>1. found # {} => (CHOOSE p \in found : TRUE) \in found
  OBVIOUS
<1>2. QED
  BY <1>1 DEF VersionIn

\* The packages are read as they are listed.
LEMMA ListedIs ==
  ASSUME WorldOK, ListInstalled
  PROVE  \/ packages' = packages /\ pc' = "done" /\ "failed" \in told'
         \/ ArePackages(packages') /\ pc' = "feed"
<1>1. CASE packages' = packages /\ pc' = "done" /\ "failed" \in told'
  BY <1>1, Zenon
<1>2. CASE pc' = "feed" /\ packages' = LET listed == [i \in DOMAIN Names |->
                                 [name |-> Names[i], version |-> VersionIn(Installed(host), Names[i])]]
                          IN  Picked(listed, {i \in DOMAIN listed : listed[i].version # NoVersion})
  <2> DEFINE listed == [i \in DOMAIN Names |->
                         [name |-> Names[i], version |-> VersionIn(Installed(host), Names[i])]]
             places == {i \in DOMAIN listed : listed[i].version # NoVersion}
  <2>1. Len(Names) \in Nat /\ DOMAIN Names = 1..Len(Names) /\ \A i \in 1..Len(Names) : Names[i] \in DOMAIN Repo
    BY HostsTyped, InSequence
  <2>2. \A i \in DOMAIN Names : listed[i].name = Names[i] /\ listed[i].version = VersionIn(Installed(host), Names[i])
    OBVIOUS
  <2>3. listed = [i \in 1..Len(Names) |-> listed[i]]
    BY <2>1
  <2>4. packages' = Picked(listed, places)
    BY <1>2
  <2> HIDE DEF listed, places
  <2>5. IsSequence(listed) /\ DOMAIN listed = DOMAIN Names
    BY <2>1, <2>3, MapIs
  <2>6. IsSequence(packages') /\ \A p \in ToSet(packages') : \E i \in DOMAIN listed : i \in places /\ listed[i] = p
    BY <2>4, <2>5, PickIs
  <2>7. ASSUME NEW p \in ToSet(packages')
        PROVE  p.name \in DOMAIN Repo /\ <<p.name, p.version>> \in past /\ p.version # NoVersion
    <3>1. PICK i \in DOMAIN Names : i \in places /\ listed[i] = p
      BY <2>5, <2>6
    <3>2. p.name = Names[i] /\ p.version = VersionIn(Installed(host), p.name) /\ p.version # NoVersion
      BY <2>2, <3>1 DEF places
    <3>3. PICK q \in Installed(host) : q.name = p.name /\ q.version = p.version
      BY <3>2, VersionInIs
    <3>4. q.version = host[q.name] /\ q.name \in DOMAIN Repo
      <4>1. PICK n \in DOMAIN host : q = [name |-> n, version |-> host[n]]
        BY DEF Installed, Present
      <4>2. QED
        BY <4>1 DEF WorldOK
    <3>5. QED
      BY <3>2, <3>3, <3>4 DEF WorldOK
  <2>8. past' = past
    BY DEF ListInstalled, world
  <2>9. QED
    BY <1>2, <2>6, <2>7, <2>8 DEF ArePackages
<1>3. QED
  BY <1>1, <1>2 DEF ListInstalled

\* A step reads the packages once, or leaves them.
LEMMA PackagesNext ==
  ASSUME WorldOK, PackagesOK, [Next]_vars
  PROVE  PackagesOK'
<1>1. past \subseteq past' /\ setup' = setup /\ told \subseteq told'
  BY Grows
<1>2. ArePackages(packages) /\ packages' = packages => ArePackages(packages)'
  BY <1>1 DEF ArePackages
<1>3. CASE ListInstalled
  <2>1. CASE ArePackages(packages') /\ pc' = "feed"
    <3>1. past' = past
      BY <1>3 DEF ListInstalled, world
    <3>2. ArePackages(packages)'
      BY <2>1, <3>1 DEF ArePackages
    <3>3. QED
      BY <3>2 DEF PackagesOK
  <2>2. CASE packages' = packages /\ pc' = "done" /\ "failed" \in told'
    BY <1>2, <2>2 DEF PackagesOK, Listed, Ended
  <2>3. QED
    BY <1>3, <2>1, <2>2, ListedIs
<1>4. CASE ~ListInstalled
  <2>1. packages' = packages
    BY <1>4 DEF Next, Upgrade, ReadUpdates, MarkSecurity, FillInstalled, ReadFeed, FillVersions, ReadDataset,
             AskAPI, Batch, Cap,
           Lookup, Looked, Filter, vars
  <2>2. pc' \in Listed \/ Ended' => pc \in Listed \/ Ended
    <3>1. CASE Upgrade \/ UNCHANGED vars
      BY <1>1, <3>1 DEF Upgrade, vars, Listed, Ended
    <3>2. CASE ReadUpdates
      BY <1>1, <3>2 DEF ReadUpdates, After, Listed, Ended
    <3>2a. CASE MarkSecurity
      BY <1>1, <3>2a DEF MarkSecurity, Listed, Ended
    <3>2b. CASE FillInstalled
      BY <1>1, <3>2b DEF FillInstalled, After, Listed, Ended
    <3>3. CASE ReadFeed \/ FillVersions \/ ReadDataset \/ AskAPI \/ Batch \/ Cap \/ Lookup \/ Looked \/ Filter
      BY <3>3 DEF ReadFeed, FillVersions, ReadDataset, AskAPI, Batch, Cap, Lookup, Looked, Filter, Listed
    <3>4. QED
      BY <1>4, <3>1, <3>2, <3>2a, <3>2b, <3>3 DEF Next
  <2>3. QED
    BY <1>2, <2>1, <2>2 DEF PackagesOK
<1>5. QED
  BY <1>3, <1>4

-----------------------------------------------------------------------------
(***************************************************************************)
(* The query.                                                              *)
(***************************************************************************)

Ids == {e.id.name : e \in ToSet(Published)}

\* What the API answered is about packages that were asked about.
HitsOK ==
  \A id \in DOMAIN hits :
    /\ IsSequence(hits[id])
    /\ \A p \in ToSet(hits[id]) : p \in ToSet(packages) /\ Affects(Detail(id), p.name, p.version)

QueryOK ==
  /\ IsSequence(order) /\ ToSet(order) \subseteq DOMAIN hits /\ DOMAIN hits \subseteq Ids
  /\ HitsOK
  /\ next \in Nat
  /\ pc \in {"updates", "security", "rpm", "installed", "feed", "versions", "offline", "online"} =>
       next = 0 /\ order = <<>> /\ DOMAIN hits = {}
  /\ pc = "batch" => next < Len(packages)
  /\ pc = "cap" => next = 0
  /\ pc \in {"lookup", "filter", "done"} => next <= Len(order)

\* A record has the detail of its identifier.
LEMMA DetailIs ==
  /\ \A e \in ToSet(Published) : Detail(e.id.name) = e
  /\ \A id \in Ids : Detail(id) \in ToSet(Published) /\ Detail(id).id.name = id
<1>1. \A id \in Ids : Detail(id) \in ToSet(Published) /\ Detail(id).id.name = id
  BY DEF Ids, Detail
<1>2. \A e \in ToSet(Published) : Detail(e.id.name) = e
  <2> SUFFICES ASSUME NEW e \in ToSet(Published) PROVE Detail(e.id.name) = e
    OBVIOUS
  <2>1. e.id.name \in Ids
    BY DEF Ids
  <2>2. QED
    BY <1>1, <2>1, RecordsTyped
<1>3. QED
  BY <1>1, <1>2

\* The identifiers of the records that affect a package.
LEMMA AnswersIs ==
  ASSUME NEW p
  PROVE  /\ Answers(p) \in Seq(Ids)
         /\ \A id : id \in ToSet(Answers(p)) <=>
              \E e \in ToSet(Published) : Affects(e, p.name, p.version) /\ e.id.name = id
<1> DEFINE places == {i \in DOMAIN Published : Affects(Published[i], p.name, p.version)}
           of == Picked(Published, places)
           names == [i \in DOMAIN of |-> of[i].id.name]
<1>1. /\ IsSequence(of) /\ ToSet(of) \subseteq ToSet(Published)
      /\ \A x : x \in ToSet(of) <=> \E i \in DOMAIN Published : i \in places /\ Published[i] = x
  BY RecordsTyped, PickIs
<1>2. \A e : e \in ToSet(of) <=> e \in ToSet(Published) /\ Affects(e, p.name, p.version)
  BY <1>1 DEF ToSet
<1> HIDE DEF of
<1>3. Len(of) \in Nat /\ DOMAIN of = 1..Len(of) /\ \A i \in 1..Len(of) : of[i] \in ToSet(of)
  BY <1>1, InSequence
<1>4. names = [i \in 1..Len(of) |-> names[i]] /\ \A i \in 1..Len(of) : names[i] = of[i].id.name
  BY <1>3
<1>5. Answers(p) = names
  BY DEF Answers, of
<1> HIDE DEF names
<1>6. Len(names) = Len(of) /\ IsSequence(names) /\ \A x : x \in ToSet(names) <=> \E i \in 1..Len(of) : names[i] = x
  BY <1>3, <1>4, MapIs
<1>7. \A x : x \in ToSet(names) <=> \E e \in ToSet(of) : e.id.name = x
  <2>1. \A e \in ToSet(of) : \E i \in 1..Len(of) : of[i] = e
    BY <1>3 DEF ToSet
  <2>2. QED
    BY <1>3, <1>4, <1>6, <2>1
<1>8. ToSet(names) \subseteq Ids
  BY <1>2, <1>7 DEF Ids
<1>9. names \in Seq(Ids)
  BY <1>6, <1>8 DEF IsSequence
<1>10. QED
  BY <1>2, <1>5, <1>7, <1>9

\* Each of the answers that is not seen yet is unseen once at least.
LEMMA UnseenIs ==
  ASSUME NEW seen, NEW answered, IsSequence(seen), IsSequence(answered)
  PROVE  /\ IsSequence(seen \o Unseen(seen, answered))
         /\ ToSet(seen \o Unseen(seen, answered)) = ToSet(seen) \cup ToSet(answered)
<1> DEFINE places == {i \in DOMAIN answered :
                        answered[i] \notin ToSet(seen) /\ \A j \in 1..(i - 1) : answered[j] # answered[i]}
           new == Picked(answered, places)
<1>1. Unseen(seen, answered) = new
  BY DEF Unseen
<1>2. /\ IsSequence(new) /\ ToSet(new) \subseteq ToSet(answered)
      /\ \A x : x \in ToSet(new) <=> \E i \in DOMAIN answered : i \in places /\ answered[i] = x
  BY PickIs
<1> HIDE DEF new
<1>3. ASSUME NEW x \in ToSet(answered), x \notin ToSet(seen)
      PROVE  x \in ToSet(new)
  <2> DEFINE at == {i \in DOMAIN answered : answered[i] = x}
  <2>1. at # {} /\ at \subseteq Nat /\ DOMAIN answered = 1..Len(answered) /\ Len(answered) \in Nat
    BY InSequence DEF ToSet
  <2>2. Min(at) \in at /\ \A n \in at : Min(at) <= n
    BY <2>1, LeastOf
  <2> DEFINE m == Min(at)
  <2> HIDE DEF m
  <2>3. m \in at /\ \A n \in at : m <= n
    BY <2>2 DEF m
  <2>4. m \in 1..Len(answered) /\ answered[m] = x
    BY <2>1, <2>3
  <2>5. \A j \in 1..(m - 1) : answered[j] # x
    <3> SUFFICES ASSUME NEW j \in 1..(m - 1), answered[j] = x PROVE FALSE
      OBVIOUS
    <3>1. j \in DOMAIN answered /\ ~(m <= j)
      BY <2>1, <2>4
    <3>2. QED
      BY <2>3, <3>1
  <2>6. m \in places
    BY <1>3, <2>1, <2>4, <2>5
  <2>7. QED
    BY <1>2, <2>1, <2>4, <2>6
<1>4. IsSequence(seen \o new) /\ ToSet(seen \o new) = ToSet(seen) \cup ToSet(new)
  BY <1>2, Append2Is
<1>5. ToSet(seen) \cup ToSet(new) = ToSet(seen) \cup ToSet(answered)
  BY <1>2, <1>3
<1>6. QED
  BY <1>1, <1>4, <1>5

\* The packages of one request.
LEMMA ChunkIs ==
  ASSUME ArePackages(packages), next \in Nat, next < Len(packages)
  PROVE  /\ IsSequence(Chunk) /\ ToSet(Chunk) \subseteq ToSet(packages)
         /\ \A x : x \in ToSet(Chunk) <=> \E i \in (next + 1)..ChunkEnd : packages[i] = x
         /\ ChunkEnd \in Nat /\ next < ChunkEnd /\ ChunkEnd <= Len(packages)
         /\ next + BatchLimit >= Len(packages) => ChunkEnd = Len(packages)
         /\ ~(next + BatchLimit >= Len(packages)) => ChunkEnd = next + BatchLimit
<1>1. Len(packages) \in Nat /\ DOMAIN packages = 1..Len(packages)
  BY InSequence DEF ArePackages
<1>2. BatchLimit \in Nat /\ BatchLimit > 0
  BY BatchLimitAssumption
<1>3. /\ ChunkEnd \in Nat /\ next < ChunkEnd /\ ChunkEnd <= Len(packages)
      /\ next + BatchLimit >= Len(packages) => ChunkEnd = Len(packages)
      /\ ~(next + BatchLimit >= Len(packages)) => ChunkEnd = next + BatchLimit
  <2> DEFINE len == Len(packages)
             end == IF next + BatchLimit > len THEN len ELSE next + BatchLimit
  <2>1. len \in Nat /\ next \in Nat /\ next < len /\ BatchLimit \in Nat /\ BatchLimit > 0
    BY <1>1, <1>2
  <2>2. ChunkEnd = end
    BY DEF ChunkEnd
  <2> HIDE DEF len
  <2>3. /\ end \in Nat /\ next < end /\ end <= len
        /\ next + BatchLimit >= len => end = len
        /\ ~(next + BatchLimit >= len) => end = next + BatchLimit
    BY <2>1
  <2>4. QED
    BY <2>2, <2>3 DEF len
<1> DEFINE m == next + 1
           n == ChunkEnd
<1>4. packages \in Seq(ToSet(packages)) /\ m \in 1..Len(packages) /\ n \in 1..Len(packages) /\ m <= n
  <2>1. packages \in Seq(ToSet(packages))
    BY DEF ArePackages, IsSequence
  <2> DEFINE end == ChunkEnd
             len == Len(packages)
  <2>2. end \in Nat /\ next \in Nat /\ next < end /\ end <= len /\ len \in Nat
    BY <1>1, <1>3
  <2> HIDE DEF end, len
  <2>3. next + 1 \in 1..len /\ end \in 1..len /\ next + 1 <= end
    BY <2>2
  <2>4. QED
    BY <2>1, <2>3 DEF end, len
<1> HIDE DEF m, n
<1> DEFINE sub == SubSeq(packages, m, n)
<1>5. sub \in Seq(ToSet(packages)) /\ Len(sub) = n - m + 1 /\ \A i \in 1..(n - m + 1) : sub[i] = packages[m + i - 1]
  BY <1>1, <1>4
<1> HIDE DEF sub
<1>6. n - m + 1 \in Nat /\ DOMAIN sub = 1..(n - m + 1)
  BY <1>1, <1>4, <1>5
<1>7. sub = [i \in 1..(n - m + 1) |-> sub[i]]
  BY <1>5, <1>6
<1>8. IsSequence(sub) /\ \A x : x \in ToSet(sub) <=> \E i \in 1..(n - m + 1) : sub[i] = x
  BY <1>6, <1>7, MapIs
<1>9. \A x : x \in ToSet(sub) <=> \E i \in m..n : packages[i] = x
  <2> SUFFICES ASSUME NEW x PROVE (\E i \in 1..(n - m + 1) : sub[i] = x) <=> \E i \in m..n : packages[i] = x
    BY <1>8
  <2>1. ASSUME NEW i \in 1..(n - m + 1), sub[i] = x PROVE \E k \in m..n : packages[k] = x
    <3>1. m + i - 1 \in m..n
      BY <1>4
    <3>2. QED
      BY <1>5, <2>1, <3>1
  <2>2. ASSUME NEW k \in m..n, packages[k] = x PROVE \E i \in 1..(n - m + 1) : sub[i] = x
    <3> DEFINE i == k - m + 1
    <3>1. i \in 1..(n - m + 1) /\ m + i - 1 = k
      BY <1>4
    <3> HIDE DEF i
    <3>2. sub[i] = x
      BY <1>5, <2>2, <3>1
    <3>3. QED
      BY <3>1, <3>2
  <2>3. QED
    BY <2>1, <2>2
<1>10. ToSet(sub) \subseteq ToSet(packages)
  <2>1. m..n \subseteq DOMAIN packages
    BY <1>1, <1>4
  <2>2. QED
    BY <1>9, <2>1 DEF ToSet
<1>11. Chunk = sub
  BY DEF Chunk, sub, m, n
<1>12. QED
  BY <1>3, <1>8, <1>9, <1>10, <1>11 DEF m, n

\* What a batch does: it fails as a whole, or adds its answers to those before.
Failed ==
  pc' = "filter" /\ told' = told \cup {"api"} /\ order' = <<>> /\ DOMAIN hits' = {} /\ next' = 0

Asked(id) == {p \in ToSet(Chunk) : id \in ToSet(Answers(p))}

Succeeded ==
  /\ told' = told /\ IsSequence(order') /\ DOMAIN hits' = ToSet(order')
  /\ \A id : id \in ToSet(order') <=> id \in ToSet(order) \/ Asked(id) # {}
  /\ \A id \in DOMAIN hits' :
       /\ IsSequence(hits'[id])
       /\ ToSet(hits'[id]) = (IF id \in DOMAIN hits THEN ToSet(hits[id]) ELSE {}) \cup Asked(id)
  /\ \/ next + BatchLimit >= Len(packages) /\ pc' = "cap" /\ next' = 0
     \/ ~(next + BatchLimit >= Len(packages)) /\ pc' = "batch" /\ next' = next + BatchLimit

\* A batch fails as a whole, or what it asked about is added to what is known.
LEMMA BatchIs ==
  ASSUME PackagesOK, QueryOK, Batch
  PROVE  Failed \/ Succeeded
<1> DEFINE each == [i \in DOMAIN Chunk |-> Answers(Chunk[i])]
           answered == FlattenSeq(each)
           ids == order \o Unseen(order, answered)
           about(id) == Picked(Chunk, {i \in DOMAIN Chunk : id \in ToSet(Answers(Chunk[i]))})
           before(id) == IF id \in DOMAIN hits THEN hits[id] ELSE <<>>
<1>1. /\ pc = "batch" /\ ArePackages(packages) /\ next \in Nat /\ next < Len(packages) /\ IsSequence(order) /\ HitsOK
  BY DEF Batch, PackagesOK, QueryOK, Listed
<1>2. IsSequence(Chunk)
  BY <1>1, ChunkIs
<1>3. Len(Chunk) \in Nat /\ DOMAIN Chunk = 1..Len(Chunk) /\ \A i \in 1..Len(Chunk) : Chunk[i] \in ToSet(Chunk)
  BY <1>2, InSequence
<1>4. \A i \in DOMAIN Chunk : each[i] = Answers(Chunk[i]) /\ each[i] \in Seq(Ids)
  BY AnswersIs
<1>5. DOMAIN each = DOMAIN Chunk /\ each \in Seq(Seq(Ids))
  <2>1. each = [i \in 1..Len(Chunk) |-> each[i]] /\ DOMAIN each = DOMAIN Chunk
    BY <1>3
  <2> HIDE DEF each
  <2>2. each \in [1..Len(Chunk) -> Seq(Ids)]
    BY <1>3, <1>4, <2>1
  <2>3. QED
    BY <1>3, <2>1, <2>2
<1> HIDE DEF each
<1>6. answered \in Seq(Ids) /\ ToSet(answered) = UNION {ToSet(each[i]) : i \in DOMAIN each}
  BY <1>5, FlattenIs
<1> HIDE DEF answered
<1>7. IsSequence(answered)
  <2>1. answered = [i \in 1..Len(answered) |-> answered[i]] /\ Len(answered) \in Nat
    BY <1>6
  <2>2. QED
    BY <2>1, MapIs
<1>8. IsSequence(ids) /\ ToSet(ids) = ToSet(order) \cup ToSet(answered)
  BY <1>1, <1>7, UnseenIs
<1>9. \A id : id \in ToSet(answered) <=> Asked(id) # {}
  <2>1. \A id : id \in ToSet(answered) <=> \E i \in DOMAIN Chunk : id \in ToSet(Answers(Chunk[i]))
    BY <1>4, <1>5, <1>6
  <2>2. \A x : x \in ToSet(Chunk) <=> \E i \in DOMAIN Chunk : Chunk[i] = x
    BY DEF ToSet
  <2>3. QED
    BY <2>1, <2>2 DEF Asked
<1>10. \A id : IsSequence(about(id)) /\ ToSet(about(id)) = Asked(id)
  <2> SUFFICES ASSUME NEW id PROVE IsSequence(about(id)) /\ ToSet(about(id)) = Asked(id)
    OBVIOUS
  <2> DEFINE places == {i \in DOMAIN Chunk : id \in ToSet(Answers(Chunk[i]))}
  <2>1. /\ IsSequence(Picked(Chunk, places))
        /\ \A x : x \in ToSet(Picked(Chunk, places)) <=> \E i \in DOMAIN Chunk : i \in places /\ Chunk[i] = x
    BY <1>2, PickIs
  <2>2. \A x : x \in ToSet(Chunk) <=> \E i \in DOMAIN Chunk : Chunk[i] = x
    BY DEF ToSet
  <2>3. \A x : x \in ToSet(Picked(Chunk, places)) <=> x \in Asked(id)
    BY <2>1, <2>2 DEF Asked
  <2>4. QED
    BY <2>1, <2>3
<1>11. \A id : IsSequence(before(id)) /\ ToSet(before(id)) = IF id \in DOMAIN hits THEN ToSet(hits[id]) ELSE {}
  <2>1. IsSequence(<<>>) /\ ToSet(<<>>) = {}
    BY DEF IsSequence, ToSet
  <2>2. \A id \in DOMAIN hits : IsSequence(hits[id])
    BY <1>1 DEF HitsOK
  <2>3. QED
    BY <2>1, <2>2
<1> HIDE DEF about, before
<1>12. \A id : /\ IsSequence(before(id) \o about(id))
               /\ ToSet(before(id) \o about(id)) =
                    (IF id \in DOMAIN hits THEN ToSet(hits[id]) ELSE {}) \cup Asked(id)
  BY <1>10, <1>11, Append2Is
<1> HIDE DEF ids
<1>13. CASE /\ order' = ids
            /\ hits' = [id \in ToSet(ids) |-> before(id) \o about(id)]
            /\ IF next + BatchLimit >= Len(packages)
               THEN pc' = "cap" /\ next' = 0
               ELSE pc' = "batch" /\ next' = next + BatchLimit
            /\ told' = told
  <2>1. DOMAIN hits' = ToSet(order') /\ \A id \in ToSet(order') : hits'[id] = before(id) \o about(id)
    BY <1>13
  <2>2. \A id : id \in ToSet(order') <=> id \in ToSet(order) \/ Asked(id) # {}
    BY <1>8, <1>9, <1>13
  <2>3. \A id \in DOMAIN hits' :
       /\ IsSequence(hits'[id])
       /\ ToSet(hits'[id]) = (IF id \in DOMAIN hits THEN ToSet(hits[id]) ELSE {}) \cup Asked(id)
    BY <1>12, <2>1
  <2>4. IsSequence(order')
    BY <1>8, <1>13
  <2>5. \/ next + BatchLimit >= Len(packages) /\ pc' = "cap" /\ next' = 0
        \/ ~(next + BatchLimit >= Len(packages)) /\ pc' = "batch" /\ next' = next + BatchLimit
    BY <1>13
  <2>6. QED
    BY <1>13, <2>1, <2>2, <2>3, <2>4, <2>5 DEF Succeeded
<1>14. CASE /\ pc' = "filter" /\ told' = told \cup {"api"}
            /\ order' = <<>> /\ hits' = [n \in {} |-> <<>>] /\ next' = 0
  BY <1>14 DEF Failed
<1>15. QED
  BY <1>13, <1>14 DEF Batch, ids, about, before, answered, each

\* Nothing is asked as a run begins.
LEMMA QueryInit ==
  Init => QueryOK
<1>1. IsSequence(<<>>) /\ ToSet(<<>>) = {}
  BY DEF IsSequence, ToSet
<1>2. ASSUME Init PROVE QueryOK
  BY <1>1, <1>2 DEF Init, QueryOK, HitsOK
<1>3. QED
  BY <1>2

\* A step keeps the query in its shape.
LEMMA QueryNext ==
  ASSUME WorldOK, PackagesOK, QueryOK, [Next]_vars
  PROVE  QueryOK'
<1>1. ecosystem' = ecosystem
  BY Grows
<1>2. CASE Batch
  <2>1. packages' = packages /\ pc = "batch" /\ ArePackages(packages)
    BY <1>2 DEF Batch, PackagesOK, Listed
  <2>2. CASE Failed
    <3>1. IsSequence(<<>>) /\ ToSet(<<>>) = {} /\ Len(<<>>) = 0
      BY DEF IsSequence, ToSet
    <3>2. QED
      BY <2>2, <3>1 DEF Failed, QueryOK, HitsOK
  <2>3. CASE Succeeded
    <3>1. \A id : \A p \in Asked(id) : p \in ToSet(packages) /\ id \in Ids /\ Affects(Detail(id), p.name, p.version)
      <4> SUFFICES ASSUME NEW id, NEW p \in Asked(id)
                   PROVE p \in ToSet(packages) /\ id \in Ids /\ Affects(Detail(id), p.name, p.version)
        OBVIOUS
      <4>1. p \in ToSet(packages)
        BY <2>1, ChunkIs DEF Asked, QueryOK
      <4>2. PICK e \in ToSet(Published) : Affects(e, p.name, p.version) /\ e.id.name = id
        BY AnswersIs DEF Asked
      <4>3. QED
        BY <4>1, <4>2, DetailIs DEF Ids
    <3>2. DOMAIN hits' \subseteq Ids
      <4>1. \A id \in ToSet(order') : id \in ToSet(order) \/ Asked(id) # {}
        BY <2>3 DEF Succeeded
      <4>2. \A id : Asked(id) # {} => id \in Ids
        BY <3>1
      <4>3. QED
        BY <2>3, <4>1, <4>2 DEF Succeeded, QueryOK
    <3>3. HitsOK'
      <4> SUFFICES ASSUME NEW id \in DOMAIN hits'
                   PROVE /\ IsSequence(hits'[id])
                         /\ \A p \in ToSet(hits'[id]) : p \in ToSet(packages) /\ Affects(Detail(id), p.name, p.version)
        BY <1>1, <2>1 DEF HitsOK, Affects
      <4>1. /\ IsSequence(hits'[id])
            /\ ToSet(hits'[id]) = (IF id \in DOMAIN hits THEN ToSet(hits[id]) ELSE {}) \cup Asked(id)
        BY <2>3 DEF Succeeded
      <4>2. id \in DOMAIN hits =>
              \A p \in ToSet(hits[id]) : p \in ToSet(packages) /\ Affects(Detail(id), p.name, p.version)
        BY DEF QueryOK, HitsOK
      <4>3. QED
        BY <3>1, <4>1, <4>2
    <3>4. next' \in Nat /\ (pc' = "batch" => next' < Len(packages)) /\ (pc' = "cap" => next' = 0) /\ pc' \in {"batch", "cap"}
      <4>1. Len(packages) \in Nat /\ BatchLimit \in Nat /\ next \in Nat
        BY <2>1, InSequence, BatchLimitAssumption DEF ArePackages, QueryOK
      <4>2. QED
        BY <2>3, <4>1 DEF Succeeded
    <3>5. QED
      BY <2>1, <2>3, <3>2, <3>3, <3>4 DEF QueryOK, Succeeded
  <2>4. QED
    BY <1>2, <2>2, <2>3, BatchIs
<1>3. CASE Cap
  <2>1. packages' = packages /\ hits' = hits /\ next' = 0 /\ pc' = "lookup"
    BY <1>3 DEF Cap, QueryOK
  <2>2. HitsOK'
    BY <1>1, <2>1 DEF HitsOK, QueryOK, Affects
  <2>3. CASE order' = order
    <3>1. Len(order) \in Nat
      BY InSequence DEF QueryOK
    <3>2. QED
      BY <2>1, <2>2, <2>3, <3>1 DEF QueryOK
  <2>4. CASE setup.cap > 0 /\ Len(order) > setup.cap /\ order' = SubSeq(order, 1, setup.cap)
    <3> DEFINE cap == setup.cap
    <3>1. cap \in Nat /\ Len(order) \in Nat /\ order \in Seq(ToSet(order))
      BY InSequence, SetupsTyped DEF QueryOK, WorldOK, IsSequence
    <3>2. cap > 0 /\ Len(order) > cap /\ order' = SubSeq(order, 1, cap)
      BY <2>4
    <3> HIDE DEF cap
    <3>3. Len(order') = cap /\ order' \in Seq(ToSet(order)) /\ \A i \in 1..cap : order'[i] = order[i]
      BY <3>1, <3>2
    <3>4. order' = [i \in 1..cap |-> order'[i]]
      BY <3>1, <3>3
    <3>5. IsSequence(order') /\ \A x : x \in ToSet(order') <=> \E i \in 1..cap : order'[i] = x
      BY <3>1, <3>4, MapIs
    <3>6. ToSet(order') \subseteq ToSet(order)
      <4>1. 1..cap \subseteq DOMAIN order
        BY <3>1, <3>2
      <4>2. QED
        BY <3>3, <3>5, <4>1 DEF ToSet
    <3>7. next' <= Len(order')
      BY <2>1, <3>1, <3>3
    <3>8. QED
      BY <2>1, <2>2, <3>5, <3>6, <3>7 DEF QueryOK
  <2>5. QED
    BY <1>3, <2>3, <2>4 DEF Cap
<1>4. CASE Lookup
  <2>1. packages' = packages /\ hits' = hits /\ order' = order /\ pc' = pc /\ pc = "lookup" /\ next < Len(order) /\ next' = next + 1
    BY <1>4 DEF Lookup
  <2>2. HitsOK'
    BY <1>1, <2>1 DEF HitsOK, QueryOK, Affects
  <2>3. next' \in Nat /\ next' <= Len(order)
    <3>1. Len(order) \in Nat /\ next \in Nat
      BY InSequence DEF QueryOK
    <3>2. QED
      BY <2>1, <3>1
  <2>4. QED
    BY <2>1, <2>2, <2>3 DEF QueryOK
<1>5. CASE ~Batch /\ ~Cap /\ ~Lookup
  <2>1. next' = next /\ order' = order /\ hits' = hits
    BY <1>5 DEF Next, Upgrade, ReadUpdates, MarkSecurity, FillInstalled, ListInstalled, ReadFeed, FillVersions,
             ReadDataset, AskAPI, Looked, Filter,
           vars, query
  <2>2. HitsOK'
    <3>1. CASE packages' = packages
      BY <1>1, <2>1, <3>1 DEF HitsOK, QueryOK, Affects
    <3>2. CASE ListInstalled
      <4>1. DOMAIN hits' = {}
        BY <2>1, <3>2 DEF ListInstalled, QueryOK
      <4>2. QED
        BY <4>1 DEF HitsOK
    <3>3. packages' = packages \/ ListInstalled
      BY <1>5 DEF Next, Upgrade, ReadUpdates, MarkSecurity, FillInstalled, ReadFeed, FillVersions, ReadDataset,
               AskAPI, Looked, Filter, vars
    <3>4. QED
      BY <3>1, <3>2, <3>3
  <2>3. /\ pc' \in {"updates", "security", "rpm", "installed", "feed", "versions", "offline", "online"} =>
             next = 0 /\ order = <<>> /\ DOMAIN hits = {}
        /\ pc' = "batch" => next < Len(packages')
        /\ pc' = "cap" => next = 0
        /\ pc' \in {"lookup", "filter", "done"} => next <= Len(order)
    <3>0. Len(<<>>) = 0 /\ 0 <= 0
      OBVIOUS
    <3>1. CASE Upgrade \/ UNCHANGED vars
      BY <3>1 DEF Upgrade, vars, QueryOK
    <3>2. CASE ReadUpdates \/ MarkSecurity \/ FillInstalled \/ ListInstalled \/ ReadFeed \/ FillVersions \/ ReadDataset
      BY <3>0, <3>2 DEF ReadUpdates, MarkSecurity, FillInstalled, After, ListInstalled, ReadFeed, FillVersions,
               ReadDataset, QueryOK
    <3>3. CASE AskAPI
      <4>1. ArePackages(packages)
        BY <3>3 DEF AskAPI, PackagesOK, Listed
      <4>2. Len(packages) \in Nat /\ (packages # <<>> => Len(packages) > 0)
        <5>1. Len(packages) \in Nat /\ packages \in Seq(ToSet(packages))
          BY <4>1, InSequence DEF ArePackages, IsSequence
        <5>2. QED
          BY <5>1
      <4>3. pc' = "filter" \/ (pc' = "batch" /\ packages # <<>>)
        BY <3>3 DEF AskAPI
      <4>4. next = 0 /\ order = <<>> /\ DOMAIN hits = {} /\ packages' = packages
        BY <3>3 DEF AskAPI, QueryOK
      <4>5. QED
        BY <3>0, <4>2, <4>3, <4>4
    <3>4. CASE Looked \/ Filter
      BY <3>4 DEF Looked, Filter, QueryOK
    <3>5. QED
      BY <1>5, <3>1, <3>2, <3>3, <3>4 DEF Next
  <2>4. QED
    BY <2>1, <2>2, <2>3 DEF QueryOK
<1>6. QED
  BY <1>2, <1>3, <1>4, <1>5

Shape == WorldOK /\ PackagesOK /\ QueryOK

\* The shape is the type invariant, and more.
LEMMA ShapeIsType ==
  Shape => TypeOK
<1> SUFFICES ASSUME Shape PROVE TypeOK
  OBVIOUS
<1>1. packages # Unread => ArePackages(packages)
  BY DEF Shape, PackagesOK
<1>2. packages # Unread => Len(packages) \in Nat
  BY <1>1, InSequence DEF ArePackages
<1>3. Len(order) \in Nat /\ next \in Nat
  BY InSequence DEF Shape, QueryOK
<1>4. packages # Unread => next \in 0..(Len(packages) + Len(order))
  <2>1. next = 0 \/ next < Len(packages) \/ next <= Len(order)
    BY DEF Shape, QueryOK, WorldOK, Steps
  <2>2. QED
    BY <1>2, <1>3, <2>1
<1>5. packages # Unread => \A p \in ToSet(packages) : <<p.name, p.version>> \in past
  BY <1>1 DEF ArePackages
<1>6. ToSet(order) \subseteq DOMAIN hits /\ DOMAIN hits \subseteq {e.id.name : e \in ToSet(Published)}
  BY DEF Shape, QueryOK, Ids
<1>7. QED
  BY <1>4, <1>5, <1>6 DEF TypeOK, Shape, WorldOK, Steps, Notes

\* The shape is inductive.
LEMMA ShapeHolds ==
  Spec => []Shape
<1>1. Init => Shape
  BY WorldInit, QueryInit DEF Shape
<1>2. Shape /\ [Next]_vars => Shape'
  BY WorldNext, PackagesNext, QueryNext DEF Shape
<1>3. QED
  BY <1>1, <1>2, PTL DEF Spec

\* The state keeps its shape: the packages the auditor reads are ones the host had in
\* this audit, and the query holds answers about packages of that list and records of
\* the API, whatever requests fail and whatever is upgraded meanwhile
\* (app/audit/audit.go installed, app/vuln/online.go).
THEOREM TypeCorrect ==
  Spec => []TypeOK
BY ShapeHolds, ShapeIsType, PTL

-----------------------------------------------------------------------------
(***************************************************************************)
(* No row is made up.                                                      *)
(***************************************************************************)

\* What RowWasTrue says of a row.
TrueRow(r) ==
  /\ r.installed = NoVersion \/ r.installed \in Had(r.package) \/ FeedVersion(r)
  /\ \/ r.sources = {"distro-metadata"}
     \/ \E e \in ToSet(Dataset) \cup ToSet(Published) : \E v \in Had(r.package) :
          /\ PrimaryId(e) = r.id /\ Affects(e, r.package, v)
          /\ v = r.installed \/ "distro-metadata" \in r.sources
  /\ "distro-metadata" \in r.sources =>
       \/ r.id = "" /\ r.package \in DOMAIN Repo /\ Repo[r.package].security
       \/ \E l \in ToSet(Tracker) :
            /\ r.package \in {l.package, l.patch} /\ r.id \in {l.cve, l.advisory, l.patch}
            /\ \E v \in Had(l.package) : Comparator(v, l.fixed) < 0

GoodRow(r) == IsRow(r) /\ TrueRow(r)
GoodRows(s) == IsSequence(s) /\ \A r \in ToSet(s) : GoodRow(r)

\* A version the host had is a version of the package.
LEMMA HadIs ==
  ASSUME WorldOK, NEW n
  PROVE  /\ Had(n) \subseteq Nat /\ \A v : v \in Had(n) <=> <<n, v>> \in past /\ v # NoVersion
         /\ n \in DOMAIN Repo /\ host[n] # NoVersion => host[n] \in Had(n)
         /\ NoVersion \notin Had(n)
<1>1. \A g \in past : g = <<g[1], g[2]>> /\ g[2] \in Version
  <2>1. \A g \in (DOMAIN Repo) \X Version : g = <<g[1], g[2]>> /\ g[2] \in Version
    OBVIOUS
  <2>2. QED
    BY <2>1 DEF WorldOK
<1>2. \A v : v \in Had(n) => <<n, v>> \in past /\ v \in Nat /\ v # NoVersion
  BY <1>1 DEF Had, Version
<1>3. ASSUME NEW v, <<n, v>> \in past, v # NoVersion PROVE v \in Had(n)
  <2>1. <<n, v>>[1] = n /\ <<n, v>>[2] = v
    OBVIOUS
  <2>2. <<n, v>> \in {g \in past : g[1] = n}
    BY <1>3, <2>1
  <2>3. QED
    BY <1>3, <2>1, <2>2 DEF Had
<1>4. QED
  BY <1>2, <1>3 DEF WorldOK

\* A row that was true stays so.
LEMMA TrueStays ==
  ASSUME WorldOK, [Next]_vars, NEW r, TrueRow(r)
  PROVE  TrueRow(r)'
<1>1. past \subseteq past' /\ ecosystem' = ecosystem /\ manager' = manager
  BY Grows
<1>2. \A n : Had(n) \subseteq Had(n)'
  BY <1>1 DEF Had
<1>3. \A e, n, v : Affects(e, n, v) => Affects(e, n, v)'
  BY <1>1 DEF Affects
<1>4. r.installed = NoVersion \/ r.installed \in Had(r.package)' \/ FeedVersion(r)'
  BY <1>1, <1>2 DEF TrueRow, FeedVersion
<1>5. \/ r.sources = {"distro-metadata"}
      \/ \E e \in ToSet(Dataset) \cup ToSet(Published) : \E v \in Had(r.package)' :
          /\ PrimaryId(e) = r.id /\ Affects(e, r.package, v)'
          /\ v = r.installed \/ "distro-metadata" \in r.sources
  BY <1>2, <1>3 DEF TrueRow
<1>6. "distro-metadata" \in r.sources =>
       \/ r.id = "" /\ r.package \in DOMAIN Repo /\ Repo[r.package].security
       \/ \E l \in ToSet(Tracker) :
            /\ r.package \in {l.package, l.patch} /\ r.id \in {l.cve, l.advisory, l.patch}
            /\ \E v \in Had(l.package)' : Comparator(v, l.fixed) < 0
  <2>1. \A l : Had(l.package) \subseteq Had(l.package)'
    BY <1>2
  <2>2. QED
    BY <2>1 DEF TrueRow
<1>7. QED
  BY <1>4, <1>5, <1>6 DEF TrueRow

\* A row of the distribution's feed, field by field.
LEMMA DistroRowIs ==
  ASSUME NEW p, NEW id, NEW s, NEW f
  PROVE  /\ DistroRow(p, id, s, f).package = p /\ DistroRow(p, id, s, f).id = id
         /\ DistroRow(p, id, s, f).installed = NoVersion
         /\ DistroRow(p, id, s, f).sources = {"distro-metadata"}
BY DEF DistroRow

\* A row of the distribution's feed is a row.
LEMMA DistroRowIsRow ==
  ASSUME NEW p, NEW id, NEW s, NEW f, p # ""
  PROVE  IsRow(DistroRow(p, id, s, f))
BY DEF DistroRow, IsRow

\* The lines of the feed that are pending.
LEMMA PendingIs ==
  /\ IsSequence(Pending(host, Tracker))
  /\ \A l : l \in ToSet(Pending(host, Tracker)) <=>
       /\ l \in ToSet(Tracker) /\ l.package \in Present(host)
       /\ Comparator(host[l.package], l.fixed) < 0
<1> DEFINE places == {i \in DOMAIN Tracker : /\ Tracker[i].package \in Present(host)
                                            /\ Comparator(host[Tracker[i].package], Tracker[i].fixed) < 0}
<1>1. /\ IsSequence(Picked(Tracker, places))
      /\ \A x : x \in ToSet(Picked(Tracker, places)) <=> \E i \in DOMAIN Tracker : i \in places /\ Tracker[i] = x
  BY FeedTyped, PickIs
<1>2. Pending(host, Tracker) = Picked(Tracker, places)
  BY DEF Pending
<1>3. \A l : l \in ToSet(Tracker) <=> \E i \in DOMAIN Tracker : Tracker[i] = l
  BY DEF ToSet
<1>4. QED
  BY <1>1, <1>2, <1>3

\* A row whose version is filled in.
Filled(r, w) == [r EXCEPT !.installed = w]

\* A row with its version filled in is the row of the same flaw.
LEMMA InstalledIs ==
  ASSUME NEW r, IsRow(r), NEW w
  PROVE  /\ IsRow(Filled(r, w)) /\ OneFlaw(Filled(r, w), r)
         /\ Filled(r, w).sources = r.sources /\ Filled(r, w).installed = w
<1> DEFINE q == [r EXCEPT !.installed = w]
<1> DEFINE fields == {"package", "id", "installed", "fixed", "severity", "sources"}
           old == [package |-> r.package, id |-> r.id, installed |-> r.installed, fixed |-> r.fixed,
                   severity |-> r.severity, sources |-> r.sources]
<1>1. DOMAIN r = fields
  <2>1. DOMAIN old = fields
    OBVIOUS
  <2>2. r = old
    BY DEF IsRow
  <2> HIDE DEF old
  <2>3. QED
    BY <2>1, <2>2
<1>2. /\ DOMAIN q = DOMAIN r /\ q = [x \in DOMAIN r |-> q[x]]
      /\ q.package = r.package /\ q.id = r.id
  BY <1>1
<1>3. q.fixed = r.fixed /\ q.severity = r.severity /\ q.sources = r.sources /\ q.installed = w
  BY <1>1
<1> DEFINE new == [package |-> q.package, id |-> q.id, installed |-> q.installed, fixed |-> q.fixed,
                   severity |-> q.severity, sources |-> q.sources]
<1>4. /\ new.package = q.package /\ new.id = q.id /\ new.installed = q.installed /\ new.fixed = q.fixed
      /\ new.severity = q.severity /\ new.sources = q.sources
      /\ DOMAIN new = fields /\ new = [x \in fields |-> new[x]]
  OBVIOUS
<1> HIDE DEF new
<1>5. \A x \in fields : q[x] = new[x]
  BY <1>4
<1>6. q = new
  BY <1>1, <1>2, <1>4, <1>5
<1> HIDE DEF q
<1>7. IsRow(q)
  BY <1>2, <1>6 DEF IsRow, new
<1>8. Filled(r, w) = q
  BY DEF Filled, q
<1>9. QED
  BY <1>2, <1>3, <1>7, <1>8 DEF OneFlaw

\* A true row of the distribution's feed, about this flaw of this package.
FeedRow(r, p, id) == GoodRow(r) /\ r.sources = {"distro-metadata"} /\ r.package = p /\ r.id = id

\* A row a feed makes of a pending line is true, without a version or with the one
\* arch-audit takes for affected.
LEMMA LineIsGood ==
  ASSUME WorldOK, NEW l \in ToSet(Pending(host, Tracker)), NEW p \in {l.package, l.patch},
         NEW id \in {l.cve, l.advisory, l.patch}, NEW s, NEW f
  PROVE  /\ FeedRow(DistroRow(p, id, s, f), p, id)
         /\ manager = "pacman" /\ p = l.package => FeedRow(Filled(DistroRow(p, id, s, f), l.affected), p, id)
<1>1. l \in ToSet(Tracker) /\ l.package \in DOMAIN Repo /\ Comparator(host[l.package], l.fixed) < 0
      /\ host[l.package] # NoVersion
  BY PendingIs DEF WorldOK, Present
<1>2. host[l.package] \in Had(l.package)
  BY <1>1, HadIs
<1>3. p # ""
  BY <1>1, FeedTyped
<1> DEFINE o == DistroRow(p, id, s, f)
           w == l.affected
           q == Filled(o, w)
<1>4. IsRow(o)
  BY <1>3, DistroRowIsRow
<1>5. o.package = p /\ o.id = id /\ o.installed = NoVersion /\ o.sources = {"distro-metadata"}
  BY DistroRowIs
<1> HIDE DEF o
<1>6. IsRow(q) /\ OneFlaw(q, o) /\ q.sources = o.sources /\ q.installed = w
  BY <1>4, InstalledIs
<1> HIDE DEF q
<1>7. FeedRow(o, p, id)
  <2>1. TrueRow(o)
    BY <1>1, <1>2, <1>5 DEF TrueRow
  <2>2. QED
    BY <1>4, <1>5, <2>1 DEF FeedRow, GoodRow
<1>8. ASSUME manager = "pacman", p = l.package PROVE FeedRow(q, p, id)
  <2>1. q.package = p /\ q.id = id /\ q.sources = {"distro-metadata"}
    BY <1>5, <1>6 DEF OneFlaw
  <2>2. FeedVersion(q)
    BY <1>1, <1>6, <1>8, <2>1 DEF FeedVersion
  <2>3. TrueRow(q)
    BY <1>1, <1>2, <2>1, <2>2 DEF TrueRow
  <2>4. QED
    BY <1>6, <2>1, <2>3 DEF FeedRow, GoodRow
<1>9. QED
  BY <1>7, <1>8 DEF o, q

\* What is known is said by one of the rows.
Tells(s, k) == \E r \in ToSet(s) : r.package = k.package /\ r.id \in k.ids

OfLine(l, byPatch) ==
  [package |-> IF byPatch THEN l.patch ELSE l.package, ids |-> {l.cve, l.advisory, l.patch}, cve |-> l.cve]

\* Rows of the distribution's feed alone.
FeedRows(s) == GoodRows(s) /\ \A r \in ToSet(s) : r.sources = {"distro-metadata"}

\* A row of each line, under the name of its package or of its patch.
RowsOf(s, lines, byPatch) ==
  /\ s = [i \in DOMAIN lines |-> s[i]]
  /\ \A i \in DOMAIN lines : \E id \in {lines[i].cve, lines[i].advisory, lines[i].patch} : \E g, f :
       LET row == DistroRow(IF byPatch THEN lines[i].patch ELSE lines[i].package, id, g, f)
       IN  \/ s[i] = row
           \/ manager = "pacman" /\ ~byPatch /\ s[i] = Filled(row, lines[i].affected)

\* A feed that makes one row of each of its lines says what they say, and no more.
LEMMA LinesAre ==
  ASSUME WorldOK, NEW byPatch \in BOOLEAN, NEW s, NEW lines,
         IsSequence(lines), ToSet(lines) \subseteq ToSet(Pending(host, Tracker)), RowsOf(s, lines, byPatch)
  PROVE  FeedRows(s) /\ \A l \in ToSet(lines) : Tells(s, OfLine(l, byPatch))
<1>1. Len(lines) \in Nat /\ DOMAIN lines = 1..Len(lines) /\ \A i \in 1..Len(lines) : lines[i] \in ToSet(lines)
  BY InSequence
<1>2. IsSequence(s) /\ \A x : x \in ToSet(s) <=> \E i \in 1..Len(lines) : s[i] = x
  <2>1. s = [i \in 1..Len(lines) |-> s[i]]
    BY <1>1 DEF RowsOf
  <2>2. QED
    BY <1>1, <2>1, MapIs
<1>3. ASSUME NEW i \in DOMAIN lines
      PROVE  GoodRow(s[i]) /\ s[i].sources = {"distro-metadata"}
             /\ s[i].package = OfLine(lines[i], byPatch).package /\ s[i].id \in OfLine(lines[i], byPatch).ids
  <2> DEFINE l == lines[i]
             p == IF byPatch THEN l.patch ELSE l.package
  <2>1. PICK id \in {l.cve, l.advisory, l.patch} : \E g, f :
          \/ s[i] = DistroRow(p, id, g, f)
          \/ manager = "pacman" /\ ~byPatch /\ s[i] = Filled(DistroRow(p, id, g, f), l.affected)
    BY DEF RowsOf
  <2>2. PICK g, f : \/ s[i] = DistroRow(p, id, g, f)
                    \/ manager = "pacman" /\ ~byPatch /\ s[i] = Filled(DistroRow(p, id, g, f), l.affected)
    BY <2>1
  <2>3. l \in ToSet(Pending(host, Tracker)) /\ p \in {l.package, l.patch}
    BY <1>1
  <2>4. OfLine(l, byPatch).package = p /\ OfLine(l, byPatch).ids = {l.cve, l.advisory, l.patch}
    BY DEF OfLine
  <2>5. ~byPatch => p = l.package
    OBVIOUS
  <2> HIDE DEF l, p
  <2>6. FeedRow(DistroRow(p, id, g, f), p, id)
    BY <2>3, LineIsGood
  <2>7. manager = "pacman" /\ ~byPatch => FeedRow(Filled(DistroRow(p, id, g, f), l.affected), p, id)
    BY <2>3, <2>5, LineIsGood
  <2>8. FeedRow(s[i], p, id)
    BY <2>2, <2>6, <2>7
  <2>9. QED
    BY <2>4, <2>8 DEF FeedRow, l
<1>4. FeedRows(s)
  BY <1>1, <1>2, <1>3 DEF GoodRows, FeedRows
<1>5. ASSUME NEW l \in ToSet(lines) PROVE Tells(s, OfLine(l, byPatch))
  <2>1. PICK i \in DOMAIN lines : lines[i] = l
    BY DEF ToSet
  <2>2. s[i] \in ToSet(s)
    BY <1>1, <1>2
  <2>3. QED
    BY <1>3, <2>1, <2>2 DEF Tells
<1>6. QED
  BY <1>4, <1>5

\* A row about what is installed.
LEMMA OriginRowIs ==
  ASSUME NEW n \in DOMAIN Repo, NEW id, NEW g, NEW f, NEW w
  PROVE  LET q == Filled(DistroRow(n, id, g, f), w)
         IN  IsRow(q) /\ q.package = n /\ q.id = id /\ q.sources = {"distro-metadata"} /\ q.installed = w
<1> DEFINE r == DistroRow(n, id, g, f)
           q == Filled(r, w)
<1>1. r.package = n /\ r.id = id /\ r.sources = {"distro-metadata"}
  BY DistroRowIs
<1>2. n # ""
  BY HostsTyped
<1>3. IsRow(r)
  BY <1>2, DistroRowIsRow
<1> HIDE DEF r
<1>4. IsRow(q) /\ OneFlaw(q, r) /\ q.sources = r.sources /\ q.installed = w
  BY <1>3, InstalledIs
<1> HIDE DEF q
<1>5. IsRow(q) /\ q.package = n /\ q.id = id /\ q.sources = {"distro-metadata"} /\ q.installed = w
  BY <1>1, <1>4 DEF OneFlaw
<1>6. QED
  BY <1>5 DEF q, r

\* The archives' word: one row for each pending update of a security archive.
LEMMA OriginIs ==
  ASSUME WorldOK, NEW s, s = SecurityOriginFindings(host, Repo, Names)
  PROVE  /\ FeedRows(s)
         /\ \A n \in DistUpgrade(host, Repo) :
              Repo[n].security => Tells(s, [package |-> n, ids |-> {""}, cve |-> ""])
<1> DEFINE places == {i \in DOMAIN Names : Names[i] \in DistUpgrade(host, Repo) /\ Repo[Names[i]].security}
           secure == Picked(Names, places)
<1>1. /\ IsSequence(secure)
      /\ \A x : x \in ToSet(secure) <=> \E i \in DOMAIN Names : i \in places /\ Names[i] = x
  BY HostsTyped, PickIs
<1>2. \A n : n \in ToSet(secure) <=> n \in DOMAIN Repo /\ n \in DistUpgrade(host, Repo) /\ Repo[n].security
  <2>1. \A x : x \in DOMAIN Repo <=> \E i \in DOMAIN Names : Names[i] = x
    BY HostsTyped DEF ToSet
  <2>2. QED
    BY <1>1, <2>1
<1>3. s = [i \in DOMAIN secure |-> [DistroRow(secure[i], "", "unknown", Repo[secure[i]].version)
                                       EXCEPT !.installed = host[secure[i]]]]
  BY DEF SecurityOriginFindings
<1> HIDE DEF secure
<1>4. Len(secure) \in Nat /\ DOMAIN secure = 1..Len(secure) /\ \A i \in 1..Len(secure) : secure[i] \in ToSet(secure)
  BY <1>1, InSequence
<1>5. s = [i \in 1..Len(secure) |-> s[i]]
  BY <1>3, <1>4
<1>6. IsSequence(s) /\ \A x : x \in ToSet(s) <=> \E i \in 1..Len(secure) : s[i] = x
  BY <1>4, <1>5, MapIs
<1>7. ASSUME NEW i \in 1..Len(secure)
      PROVE  /\ GoodRow(s[i]) /\ s[i].sources = {"distro-metadata"}
             /\ s[i].package = secure[i] /\ s[i].id = ""
  <2> DEFINE n == secure[i]
             blank == ""
             ungraded == "unknown"
             f == Repo[n].version
             w == host[n]
  <2>1. n \in DOMAIN Repo /\ Repo[n].security
    BY <1>2, <1>4
  <2>2. s[i] = Filled(DistroRow(n, blank, ungraded, f), w)
    BY <1>3, <1>4 DEF Filled
  <2> HIDE DEF n, blank, ungraded, f, w
  <2>3. /\ IsRow(s[i]) /\ s[i].package = n /\ s[i].id = blank /\ s[i].sources = {"distro-metadata"}
        /\ s[i].installed = w
    BY <2>1, <2>2, OriginRowIs
  <2>4. /\ IsRow(s[i]) /\ s[i].package = n /\ s[i].id = "" /\ s[i].sources = {"distro-metadata"}
        /\ s[i].installed = host[n]
    BY <2>3 DEF blank, w
  <2>5. host[n] = NoVersion \/ host[n] \in Had(n)
    BY <2>1, HadIs
  <2>6. TrueRow(s[i])
    BY <2>1, <2>4, <2>5 DEF TrueRow
  <2>7. QED
    BY <2>4, <2>6 DEF GoodRow, n
<1>8. FeedRows(s)
  <2>1. ASSUME NEW r \in ToSet(s) PROVE GoodRow(r) /\ r.sources = {"distro-metadata"}
    <3>1. PICK i \in 1..Len(secure) : s[i] = r
      BY <1>6
    <3>2. GoodRow(s[i]) /\ s[i].sources = {"distro-metadata"}
      BY <1>7
    <3>3. QED
      BY <3>1, <3>2
  <2>2. QED
    BY <1>6, <2>1 DEF GoodRows, FeedRows
<1>9. ASSUME NEW n \in DistUpgrade(host, Repo), Repo[n].security
      PROVE  Tells(s, [package |-> n, ids |-> {""}, cve |-> ""])
  <2>1. n \in ToSet(secure)
    BY <1>2, <1>9, UpgradedIs DEF WorldOK
  <2>2. PICK i \in 1..Len(secure) : secure[i] = n
    BY <1>4, <2>1 DEF ToSet
  <2>3. s[i] \in ToSet(s)
    BY <1>6
  <2>4. QED
    BY <1>7, <2>2, <2>3 DEF Tells
<1>10. QED
  BY <1>8, <1>9

\* The feeds, one by one.
LEMMA DebsecanIs ==
  ASSUME WorldOK, NEW lines, lines = Pending(host, Tracker)
  PROVE  /\ FeedRows(Debsecan(lines))
         /\ \A l \in ToSet(lines) : l.cve = "" \/ Tells(Debsecan(lines), OfLine(l, FALSE))
<1> DEFINE places == {i \in DOMAIN lines : lines[i].cve # ""}
           numbered == Picked(lines, places)
           s == Debsecan(lines)
<1>0. IsSequence(lines)
  BY PendingIs
<1>2. s = [i \in DOMAIN numbered |->
            DistroRow(numbered[i].package, numbered[i].cve, UrgencyToSeverity(numbered[i].grade), NoVersion)]
  BY DEF Debsecan
<1>a. \A i \in DOMAIN lines : lines[i].cve = "" \/ i \in places
  OBVIOUS
<1> HIDE DEF s, places
<1>1. /\ IsSequence(numbered) /\ ToSet(numbered) \subseteq ToSet(lines)
      /\ \A x : x \in ToSet(numbered) <=> \E i \in DOMAIN lines : i \in places /\ lines[i] = x
  BY <1>0, PickIs
<1> HIDE DEF numbered
<1>3. \A l \in ToSet(lines) : l.cve = "" \/ l \in ToSet(numbered)
  BY <1>a, <1>1 DEF ToSet
<1>4. s = [i \in DOMAIN numbered |-> s[i]]
  BY <1>2
<1>5. ASSUME NEW i \in DOMAIN numbered
      PROVE  \E id \in {numbered[i].cve, numbered[i].advisory, numbered[i].patch} : \E g, f :
               s[i] = DistroRow(IF FALSE THEN numbered[i].patch ELSE numbered[i].package, id, g, f)
  BY <1>2
<1>6. RowsOf(s, numbered, FALSE)
  BY <1>4, <1>5 DEF RowsOf
<1>7. FeedRows(s) /\ \A l \in ToSet(numbered) : Tells(s, OfLine(l, FALSE))
  BY <1>0, <1>1, <1>6, LinesAre
<1>8. QED
  BY <1>3, <1>7 DEF s

\* dnf's rows, with the CVE or with the advisory for a name.
LEMMA UpdateinfoIs ==
  ASSUME WorldOK, NEW lines, lines = Pending(host, Tracker), NEW withCve \in BOOLEAN
  PROVE  /\ FeedRows(ParseUpdateinfo(lines, withCve))
         /\ \A l \in ToSet(lines) : Tells(ParseUpdateinfo(lines, withCve), OfLine(l, FALSE))
<1> DEFINE s == ParseUpdateinfo(lines, withCve)
<1>1. s = [i \in DOMAIN lines |-> s[i]]
  BY DEF ParseUpdateinfo
<1>2. ASSUME NEW i \in DOMAIN lines
      PROVE  \E id \in {lines[i].cve, lines[i].advisory, lines[i].patch} : \E g, f :
               s[i] = DistroRow(IF FALSE THEN lines[i].patch ELSE lines[i].package, id, g, f)
  <2> DEFINE id == IF withCve /\ lines[i].cve # "" THEN lines[i].cve ELSE lines[i].advisory
  <2>1. s[i] = DistroRow(lines[i].package, id, ParseSeverity(lines[i].grade), NoVersion)
    BY DEF ParseUpdateinfo
  <2>2. id \in {lines[i].cve, lines[i].advisory, lines[i].patch}
    OBVIOUS
  <2> HIDE DEF s, id
  <2>3. QED
    BY <2>1, <2>2
<1> HIDE DEF s
<1>3. RowsOf(s, lines, FALSE)
  BY <1>1, <1>2 DEF RowsOf
<1>4. FeedRows(s) /\ \A l \in ToSet(lines) : Tells(s, OfLine(l, FALSE))
  BY <1>3, PendingIs, LinesAre
<1>5. QED
  BY <1>4 DEF s

\* zypper's rows, under the name of the patch.
LEMMA ZypperIs ==
  ASSUME WorldOK, NEW lines, lines = Pending(host, Tracker), NEW ok, ok["feed"]
  PROVE  LET a == ZypperAdvisories(lines, ok)
         IN  FeedRows(a.rows) /\ \A l \in ToSet(lines) : Tells(a.rows, OfLine(l, TRUE))
<1> DEFINE s == ZypperAdvisories(lines, ok).rows
<1>0. s = [i \in DOMAIN lines |->
            DistroRow(lines[i].patch, IF lines[i].cve # "" THEN lines[i].cve ELSE lines[i].patch,
                      ParseSeverity(lines[i].grade), NoVersion)]
  BY DEF ZypperAdvisories, Answer
<1> HIDE DEF s
<1>1. s = [i \in DOMAIN lines |-> s[i]]
  BY <1>0
<1>2. ASSUME NEW i \in DOMAIN lines
      PROVE  \E id \in {lines[i].cve, lines[i].advisory, lines[i].patch} : \E g, f :
               s[i] = DistroRow(IF TRUE THEN lines[i].patch ELSE lines[i].package, id, g, f)
  <2> DEFINE id == IF lines[i].cve # "" THEN lines[i].cve ELSE lines[i].patch
  <2>1. s[i] = DistroRow(lines[i].patch, id, ParseSeverity(lines[i].grade), NoVersion)
    BY <1>0
  <2>2. id \in {lines[i].cve, lines[i].advisory, lines[i].patch}
    OBVIOUS
  <2> HIDE DEF id
  <2>3. QED
    BY <2>1, <2>2
<1>3. RowsOf(s, lines, TRUE)
  BY <1>1, <1>2 DEF RowsOf
<1>4. FeedRows(s) /\ \A l \in ToSet(lines) : Tells(s, OfLine(l, TRUE))
  BY <1>3, PendingIs, LinesAre
<1>5. QED
  BY <1>4 DEF s

\* arch-audit's rows.
LEMMA PacmanIs ==
  ASSUME WorldOK, manager = "pacman", NEW lines, lines = Pending(host, Tracker), NEW ok, ok["feed"]
  PROVE  LET a == PacmanAdvisories(lines, TRUE, TRUE, ok)
         IN  FeedRows(a.rows) /\ \A l \in ToSet(lines) : Tells(a.rows, OfLine(l, FALSE))
<1> DEFINE s == PacmanAdvisories(lines, TRUE, TRUE, ok).rows
<1>0. s = [i \in DOMAIN lines |->
            Filled(DistroRow(lines[i].package,
                             IF lines[i].advisory # "" THEN lines[i].advisory ELSE lines[i].cve,
                             ParseSeverity(lines[i].grade), lines[i].fixed), lines[i].affected)]
  BY DEF PacmanAdvisories, Answer, Filled
<1> HIDE DEF s
<1>1. s = [i \in DOMAIN lines |-> s[i]]
  BY <1>0
<1>2. ASSUME NEW i \in DOMAIN lines
      PROVE  \E id \in {lines[i].cve, lines[i].advisory, lines[i].patch} : \E g, f :
               s[i] = Filled(DistroRow(IF FALSE THEN lines[i].patch ELSE lines[i].package, id, g, f), lines[i].affected)
  <2> DEFINE id == IF lines[i].advisory # "" THEN lines[i].advisory ELSE lines[i].cve
  <2>1. s[i] = Filled(DistroRow(lines[i].package, id, ParseSeverity(lines[i].grade), lines[i].fixed),
                      lines[i].affected)
    BY <1>0
  <2>2. id \in {lines[i].cve, lines[i].advisory, lines[i].patch}
    OBVIOUS
  <2> HIDE DEF id
  <2>3. QED
    BY <2>1, <2>2
<1>3. RowsOf(s, lines, FALSE)
  BY <1>1, <1>2 DEF RowsOf
<1>4. FeedRows(s) /\ \A l \in ToSet(lines) : Tells(s, OfLine(l, FALSE))
  BY <1>3, PendingIs, LinesAre
<1>5. QED
  BY <1>4 DEF s

\* No rows are good rows.
LEMMA NoRows ==
  FeedRows(<<>>)
BY DEF FeedRows, GoodRows, IsSequence, ToSet

\* A feed says all the distribution knows, or says that it failed, or could not be heard.
LEMMA AdvisoriesAre ==
  ASSUME WorldOK, NEW ok,
         NEW a, a = Advisories(manager, host, Repo, Tracker, Names, setup.tools, setup.online, ok)
  PROVE  FeedRows(a.rows) /\ (a.err = "none" /\ ~DnfUnheard(ok) => \A k \in KnownNow : Tells(a.rows, k) \/ Unnumbered(k))
<1> DEFINE lines == Pending(host, Tracker)
           origin == SecurityOriginFindings(host, Repo, Names)
<1>1. CASE manager = "apt-get"
  <2> DEFINE there == "debsecan" \in setup.tools
  <2>1. a = AptAdvisories(lines, origin, there, setup.online, ok)
    BY <1>1 DEF Advisories
  <2>2. FeedRows(origin)
    BY OriginIs
  <2>3. CASE ~there
    <3>1. a = IF ok["list"] THEN Answer(origin, "none") ELSE Answer(<<>>, "failed")
      BY <2>1, <2>3 DEF AptAdvisories
    <3>2. KnownNow = {[package |-> n, ids |-> {""}, cve |-> ""] :
                        n \in {m \in DistUpgrade(host, Repo) : Repo[m].security}}
      BY <1>1, <2>3 DEF KnownNow
    <3>3. \A k \in KnownNow : Tells(origin, k)
      BY <3>2, OriginIs
    <3> HIDE DEF origin
    <3>4. (a.rows = origin /\ a.err = "none") \/ (a.rows = <<>> /\ a.err = "failed")
      BY <3>1 DEF Answer
    <3>5. QED
      BY <2>2, <3>3, <3>4, NoRows
  <2>4. CASE there /\ ~(setup.online /\ ok["feed"])
    <3> HIDE DEF origin, lines
    <3>1. (a.rows = origin \/ a.rows = <<>>) /\ a.err # "none"
      BY <2>1, <2>4 DEF AptAdvisories, Answer
    <3>2. QED
      BY <2>2, <3>1, NoRows
  <2>5. CASE there /\ setup.online /\ ok["feed"]
    <3>1. a.rows = Debsecan(lines)
      BY <2>1, <2>5 DEF AptAdvisories, Answer
    <3>2. FeedRows(a.rows) /\ \A l \in ToSet(lines) : l.cve = "" \/ Tells(a.rows, OfLine(l, FALSE))
      BY <3>1, DebsecanIs
    <3>3. \A k \in KnownNow : \E l \in ToSet(lines) : k = OfLine(l, FALSE)
      BY <1>1, <2>5 DEF KnownNow, OfLine
    <3>4. \A l : OfLine(l, FALSE).cve = l.cve
      BY DEF OfLine
    <3>5. QED
      BY <1>1, <2>5, <3>2, <3>3, <3>4 DEF Unnumbered
  <2>6. QED
    BY <2>3, <2>4, <2>5
<1>2. CASE manager \in {"dnf", "yum"}
  <2>1. a = DnfAdvisories(lines, ok)
    BY <1>2 DEF Advisories
  <2>2. \A k \in KnownNow : \E l \in ToSet(lines) : k = OfLine(l, FALSE)
    BY <1>2 DEF KnownNow, OfLine
  <2>3. CASE ok["feed"]
    <3>1. a.rows = ParseUpdateinfo(lines, TRUE) \/ (a.rows = <<>> /\ a.err = "failed")
      <4> DEFINE found == ParseUpdateinfo(lines, TRUE)
      <4>1. a = IF found = <<>> /\ ~ok["list"] THEN Answer(<<>>, "failed") ELSE Answer(found, "none")
        BY <2>1, <2>3 DEF DnfAdvisories
      <4> HIDE DEF found
      <4>2. a.rows = found \/ (a.rows = <<>> /\ a.err = "failed")
        BY <4>1 DEF Answer
      <4>3. QED
        BY <4>2 DEF found
    <3>2. QED
      BY <2>2, <3>1, UpdateinfoIs, NoRows
  <2>4. CASE ~ok["feed"] /\ ok["retry"]
    <3>1. a.rows = ParseUpdateinfo(lines, FALSE) \/ (a.rows = <<>> /\ a.err = "failed")
      <4> DEFINE found == ParseUpdateinfo(lines, FALSE)
      <4>1. a = IF found = <<>> /\ ~ok["list"] THEN Answer(<<>>, "failed") ELSE Answer(found, "none")
        BY <2>1, <2>4 DEF DnfAdvisories
      <4> HIDE DEF found
      <4>2. a.rows = found \/ (a.rows = <<>> /\ a.err = "failed")
        BY <4>1 DEF Answer
      <4>3. QED
        BY <4>2 DEF found
    <3>2. QED
      BY <2>2, <3>1, UpdateinfoIs, NoRows
  <2>5. CASE ~ok["feed"] /\ ~ok["retry"]
    <3>1. a.rows = <<>> /\ (~ok["list"] => a.err = "failed")
      BY <2>1, <2>5 DEF DnfAdvisories, Answer
    <3>2. ok["list"] => DnfUnheard(ok)
      BY <1>2, <2>5 DEF DnfUnheard
    <3>3. QED
      BY <3>1, <3>2, NoRows
  <2>6. QED
    BY <2>3, <2>4, <2>5
<1>3. CASE manager = "zypper"
  <2>1. a = ZypperAdvisories(lines, ok)
    BY <1>3 DEF Advisories
  <2>2. \A k \in KnownNow : \E l \in ToSet(lines) : k = OfLine(l, TRUE)
    BY <1>3 DEF KnownNow, OfLine
  <2>3. CASE ok["feed"]
    <3>1. FeedRows(a.rows) /\ \A l \in ToSet(lines) : Tells(a.rows, OfLine(l, TRUE))
      BY <2>1, <2>3, ZypperIs
    <3>2. QED
      BY <2>2, <3>1
  <2>4. CASE ~ok["feed"]
    <3>1. a.rows = <<>> /\ a.err = "failed"
      BY <2>1, <2>4 DEF ZypperAdvisories, Answer
    <3>2. QED
      BY <3>1, NoRows
  <2>5. QED
    BY <2>3, <2>4
<1>4. CASE manager = "pacman"
  <2> DEFINE there == "arch-audit" \in setup.tools
  <2>1. a = PacmanAdvisories(lines, there, setup.online, ok)
    BY <1>4 DEF Advisories
  <2>2. \A k \in KnownNow : \E l \in ToSet(lines) : k = OfLine(l, FALSE)
    BY <1>4 DEF KnownNow, OfLine
  <2>3. CASE there /\ setup.online /\ ok["feed"]
    <3>1. a.rows = PacmanAdvisories(lines, TRUE, TRUE, ok).rows
      BY <2>1, <2>3 DEF PacmanAdvisories
    <3>2. FeedRows(a.rows) /\ \A l \in ToSet(lines) : Tells(a.rows, OfLine(l, FALSE))
      BY <1>4, <2>3, <3>1, PacmanIs
    <3>3. QED
      BY <2>2, <3>2
  <2>4. CASE ~(there /\ setup.online /\ ok["feed"])
    <3>1. a.rows = <<>> /\ a.err # "none"
      <4>1. a \in {Answer(<<>>, "missing"), Answer(<<>>, "network"), Answer(<<>>, "failed")}
        BY <2>1, <2>4 DEF PacmanAdvisories
      <4>2. QED
        BY <4>1 DEF Answer
    <3>2. QED
      BY <3>1, NoRows
  <2>5. QED
    BY <2>3, <2>4
<1>5. CASE manager \notin {"apt-get", "dnf", "yum", "zypper", "pacman"}
  <2>1. a = ApkAdvisories
    BY <1>5 DEF Advisories
  <2>2. a.rows = <<>> /\ a.err = "missing"
    BY <2>1 DEF ApkAdvisories, Answer
  <2>3. QED
    BY <2>2, NoRows
<1>6. QED
  BY <1>1, <1>2, <1>3, <1>4, <1>5

\* A row of the feed with a version the package had is true.
LEMMA FillIs ==
  ASSUME WorldOK, NEW r, GoodRow(r), r.sources = {"distro-metadata"},
         NEW v, v \in {NoVersion, r.installed} \/ v \in Had(r.package)
  PROVE  GoodRow(Filled(r, v)) /\ OneFlaw(Filled(r, v), r)
<1> DEFINE q == Filled(r, v)
<1>1. IsRow(r) /\ TrueRow(r)
  BY DEF GoodRow
<1>2. IsRow(q) /\ OneFlaw(q, r) /\ q.sources = r.sources /\ q.installed = v
  BY <1>1, InstalledIs
<1> HIDE DEF q
<1>3. q.package = r.package /\ q.id = r.id
  BY <1>2 DEF OneFlaw
<1>4. q.installed = NoVersion \/ q.installed \in Had(q.package) \/ FeedVersion(q)
  BY <1>1, <1>2, <1>3 DEF TrueRow, FeedVersion
<1>5. TrueRow(q)
  BY <1>1, <1>2, <1>3, <1>4 DEF TrueRow
<1>6. QED
  BY <1>2, <1>5 DEF GoodRow, q

\* The version of a package of the host is one it had.
LEMMA InstalledWas ==
  ASSUME WorldOK, NEW n
  PROVE  /\ VersionIn(Installed(host), n) = NoVersion \/ VersionIn(Installed(host), n) \in Had(n)
         /\ n \in Present(host) => VersionIn(Installed(host), n) = host[n]
<1> DEFINE v == VersionIn(Installed(host), n)
<1>1. \A p \in Installed(host) : p.name \in Present(host) /\ p.version = host[p.name]
  BY DEF Installed
<1>2. v = NoVersion \/ \E p \in Installed(host) : p.name = n /\ p.version = v
  BY VersionInIs
<1>3. n \in Present(host) => \E p \in Installed(host) : p.name = n /\ p.version = v
  <2>1. ASSUME n \in Present(host) PROVE \E p \in Installed(host) : p.name = n
    <3> DEFINE p == [name |-> n, version |-> host[n]]
    <3>1. p \in Installed(host) /\ p.name = n
      BY <2>1 DEF Installed
    <3>2. QED
      BY <3>1
  <2>2. QED
    BY <2>1, VersionInIs
<1> HIDE DEF v
<1>4. n \in Present(host) => host[n] \in Had(n)
  BY HadIs DEF Present, WorldOK
<1>5. QED
  BY <1>1, <1>2, <1>3, <1>4 DEF v

\* The rows of the feed, with their versions: true, and all of them.
LEMMA FilledIs ==
  ASSUME WorldOK, PackagesOK, FeedRows(feed), FillVersions
  PROVE  \E filled : /\ rows' = AddAll(rows, filled) /\ given' = given \o filled /\ GoodRows(filled)
                     /\ \A k : Tells(feed, k) => Tells(filled, k)
<1>1. ArePackages(packages)
  BY DEF FillVersions, PackagesOK, Listed
<1> DEFINE own(ok, r) == IF ok /\ manager # "zypper" /\ r.id # ""
                         THEN VersionIn(Installed(host), r.package) ELSE NoVersion
           with(ok, r) == FirstOf(FirstOf(own(ok, r), r.installed), VersionIn(ToSet(packages), r.package))
           filled(ok) == [i \in DOMAIN feed |->
                           [feed[i] EXCEPT !.installed =
                              FirstOf(FirstOf(own(ok, feed[i]), @),
                                      VersionIn(ToSet(packages), feed[i].package))]]
<1>2. PICK ok \in BOOLEAN : rows' = AddAll(rows, filled(ok)) /\ given' = given \o filled(ok)
  BY DEF FillVersions
<1>3. \A r : with(ok, r) \in {NoVersion, r.installed} \/ with(ok, r) \in Had(r.package)
  <2> SUFFICES ASSUME NEW r PROVE with(ok, r) \in {NoVersion, r.installed} \/ with(ok, r) \in Had(r.package)
    OBVIOUS
  <2> DEFINE n == r.package
             listed == VersionIn(ToSet(packages), n)
  <2>1. own(ok, r) = NoVersion \/ own(ok, r) \in Had(n)
    BY InstalledWas
  <2>2. listed = NoVersion \/ listed \in Had(n)
    <3>1. ASSUME NEW p \in ToSet(packages), p.name = n PROVE p.version \in Had(n)
      BY <1>1, <3>1, HadIs DEF ArePackages
    <3>2. QED
      BY <3>1, VersionInIs
  <2>3. QED
    BY <2>1, <2>2 DEF FirstOf
<1>4. /\ Len(feed) \in Nat /\ DOMAIN feed = 1..Len(feed)
      /\ \A i \in 1..Len(feed) : feed[i] \in ToSet(feed) /\ GoodRow(feed[i]) /\ feed[i].sources = {"distro-metadata"}
  BY InSequence DEF FeedRows, GoodRows
<1> DEFINE s == filled(ok)
<1>5. s = [i \in 1..Len(feed) |-> s[i]]
  BY <1>4
<1>6. \A i \in 1..Len(feed) : s[i] = Filled(feed[i], with(ok, feed[i]))
  BY <1>4 DEF Filled
<1>a. s = filled(ok)
  OBVIOUS
<1> HIDE DEF s, with
<1>7. IsSequence(s) /\ \A x : x \in ToSet(s) <=> \E i \in 1..Len(feed) : s[i] = x
  BY <1>4, <1>5, MapIs
<1>8. ASSUME NEW i \in 1..Len(feed) PROVE GoodRow(s[i]) /\ OneFlaw(s[i], feed[i])
  BY <1>3, <1>4, <1>6, FillIs
<1>9. GoodRows(s)
  BY <1>7, <1>8 DEF GoodRows
<1>10. ASSUME NEW k, Tells(feed, k) PROVE Tells(s, k)
  <2>1. PICK r \in ToSet(feed) : r.package = k.package /\ r.id \in k.ids
    BY <1>10 DEF Tells
  <2>2. PICK i \in 1..Len(feed) : feed[i] = r
    BY <1>4 DEF ToSet
  <2>3. s[i] \in ToSet(s) /\ OneFlaw(s[i], r)
    BY <1>7, <1>8, <2>2
  <2>4. QED
    BY <2>1, <2>3 DEF Tells, OneFlaw
<1>11. rows' = AddAll(rows, s) /\ given' = given \o s
  BY <1>2, <1>a
<1>12. QED
  BY <1>9, <1>10, <1>11

\* A row made of a record that affects a package of the list is true.
LEMMA EntryRowIs ==
  ASSUME WorldOK, PackagesOK, ArePackages(packages), NEW e \in ToSet(Dataset) \cup ToSet(Published),
         NEW p \in ToSet(packages), Affects(e, p.name, p.version), NEW source, source # "distro-metadata", NEW fixed
  PROVE  LET r == FromEntry(e, p, source, fixed)
         IN  GoodRow(r) /\ r.package = p.name /\ r.id = PrimaryId(e)
<1> DEFINE r == FromEntry(e, p, source, fixed)
<1>1. r.package = p.name /\ r.id = PrimaryId(e) /\ r.installed = p.version /\ r.sources = {source}
  BY DEF FromEntry
<1>2. r = [package |-> r.package, id |-> r.id, installed |-> r.installed, fixed |-> r.fixed,
           severity |-> r.severity, sources |-> r.sources]
  BY DEF FromEntry
<1> HIDE DEF r
<1>3. p.name \in DOMAIN Repo /\ p.name # "" /\ p.version \in Had(p.name)
  BY HostsTyped, HadIs DEF ArePackages
<1>4. IsRow(r)
  BY <1>1, <1>2, <1>3 DEF IsRow
<1>5. "distro-metadata" \notin r.sources
  BY <1>1
<1>6. TrueRow(r)
  BY <1>1, <1>3, <1>5 DEF TrueRow
<1>7. GoodRow(r) /\ r.package = p.name /\ r.id = PrimaryId(e)
  BY <1>1, <1>4, <1>6 DEF GoodRow
<1>8. QED
  BY <1>7 DEF r

\* What is loaded of the dataset: all that concerns the host, if all of it could be read.
LEMMA LoadedIs ==
  ASSUME NEW readable \in 0..Len(Dataset), NEW wanted
  PROVE  LET db == LoadOffline(Dataset, readable, wanted, ecosystem)
         IN  /\ IsSequence(db) /\ ToSet(db) \subseteq ToSet(Dataset)
             /\ readable = Len(Dataset) =>
                  \A e \in ToSet(Dataset) : Indexed(e, wanted, ecosystem) => e \in ToSet(db)
<1> DEFINE places == {i \in 1..readable : Indexed(Dataset[i], wanted, ecosystem)}
           db == Picked(Dataset, places)
<1>1. LoadOffline(Dataset, readable, wanted, ecosystem) = db
  BY DEF LoadOffline
<1>2. /\ IsSequence(db) /\ ToSet(db) \subseteq ToSet(Dataset)
      /\ \A x : x \in ToSet(db) <=> \E i \in DOMAIN Dataset : i \in places /\ Dataset[i] = x
  BY RecordsTyped, PickIs
<1>3. DOMAIN Dataset = 1..Len(Dataset)
  BY RecordsTyped, InSequence
<1> HIDE DEF db
<1>4. ASSUME readable = Len(Dataset), NEW e \in ToSet(Dataset), Indexed(e, wanted, ecosystem)
      PROVE  e \in ToSet(db)
  <2>1. PICK i \in DOMAIN Dataset : Dataset[i] = e
    BY DEF ToSet
  <2>2. i \in places
    BY <1>3, <1>4, <2>1
  <2>3. QED
    BY <1>2, <2>1, <2>2
<1>5. QED
  BY <1>1, <1>2, <1>4

\* The rows found for one package, and for all.
Finds(db, p) ==
  LET found == Picked(db, {i \in DOMAIN db : Match(db[i], ecosystem, p).hit})
  IN  [i \in DOMAIN found |-> FromEntry(found[i], p, "offline-db", Match(found[i], ecosystem, p).fixed)]

\* What is found in the dataset about one package.
LEMMA FindsIs ==
  ASSUME WorldOK, PackagesOK, ArePackages(packages), ecosystem # NoEcosystem,
         NEW db, IsSequence(db), ToSet(db) \subseteq ToSet(Dataset), NEW p \in ToSet(packages)
  PROVE  /\ GoodRows(Finds(db, p))
         /\ \A e \in ToSet(db) : Affects(e, p.name, p.version) =>
              \E r \in ToSet(Finds(db, p)) : r.package = p.name /\ r.id = PrimaryId(e)
<1> DEFINE places == {i \in DOMAIN db : Match(db[i], ecosystem, p).hit}
           found == Picked(db, places)
           s == Finds(db, p)
<1>1. /\ IsSequence(found) /\ ToSet(found) \subseteq ToSet(db)
      /\ \A x : x \in ToSet(found) <=> \E i \in DOMAIN db : i \in places /\ db[i] = x
  BY PickIs
<1>2. \A e \in ToSet(db) : Match(e, ecosystem, p).hit <=> Affects(e, p.name, p.version)
  <2>1. p.version \in Nat
    BY HadIs DEF ArePackages
  <2>2. ecosystem.family # ""
    BY DEF WorldOK
  <2>3. \A e \in ToSet(db) : IsEntry(e)
    BY RecordsTyped
  <2>4. QED
    BY <2>1, <2>2, <2>3, MatchIs
<1>3. \A e : e \in ToSet(found) <=> e \in ToSet(db) /\ Affects(e, p.name, p.version)
  <2>1. \A x : x \in ToSet(db) <=> \E i \in DOMAIN db : db[i] = x
    BY DEF ToSet
  <2>2. QED
    BY <1>1, <1>2, <2>1
<1>4. s = [i \in DOMAIN found |-> FromEntry(found[i], p, "offline-db", Match(found[i], ecosystem, p).fixed)]
  BY DEF Finds
<1> HIDE DEF found, s
<1>5. Len(found) \in Nat /\ DOMAIN found = 1..Len(found) /\ \A i \in 1..Len(found) : found[i] \in ToSet(found)
  BY <1>1, InSequence
<1>6. s = [i \in 1..Len(found) |-> s[i]]
  BY <1>4, <1>5
<1>7. IsSequence(s) /\ \A x : x \in ToSet(s) <=> \E i \in 1..Len(found) : s[i] = x
  BY <1>5, <1>6, MapIs
<1>8. ASSUME NEW i \in 1..Len(found)
      PROVE  GoodRow(s[i]) /\ s[i].package = p.name /\ s[i].id = PrimaryId(found[i])
  <2> DEFINE e == found[i]
             f == Match(found[i], ecosystem, p).fixed
             source == "offline-db"
  <2>1. e \in ToSet(Dataset) \cup ToSet(Published) /\ Affects(e, p.name, p.version) /\ source # "distro-metadata"
    BY <1>3, <1>5
  <2>2. s[i] = FromEntry(e, p, source, f)
    BY <1>4, <1>5
  <2> HIDE DEF e, f, source
  <2>3. GoodRow(s[i]) /\ s[i].package = p.name /\ s[i].id = PrimaryId(e)
    BY <2>1, <2>2, EntryRowIs
  <2>4. QED
    BY <2>3 DEF e
<1>9. GoodRows(s)
  BY <1>7, <1>8 DEF GoodRows
<1>10. ASSUME NEW e \in ToSet(db), Affects(e, p.name, p.version)
       PROVE  \E r \in ToSet(s) : r.package = p.name /\ r.id = PrimaryId(e)
  <2>1. PICK i \in 1..Len(found) : found[i] = e
    BY <1>3, <1>5, <1>10 DEF ToSet
  <2>2. QED
    BY <1>7, <1>8, <2>1
<1>11. QED
  BY <1>9, <1>10 DEF s

\* A sequence over some set is one over its own elements.
LEMMA SeqIsSequence ==
  ASSUME NEW T, NEW s \in Seq(T)
  PROVE  IsSequence(s)
<1>1. Len(s) \in Nat /\ s = [i \in 1..Len(s) |-> s[i]]
  OBVIOUS
<1>2. QED
  BY <1>1, MapIs

\* A flaw of a package, by the record of it.
Flaw(e, p) == [package |-> p.name, ids |-> {PrimaryId(e)}]

\* What is found in the dataset about all the packages.
LEMMA MatchedIs ==
  ASSUME WorldOK, PackagesOK, ArePackages(packages), ecosystem # NoEcosystem,
         NEW db, IsSequence(db), ToSet(db) \subseteq ToSet(Dataset)
  PROVE  LET found == MatchOffline(db, packages, ecosystem)
         IN  /\ GoodRows(found)
             /\ \A e \in ToSet(db), p \in ToSet(packages) :
                  Affects(e, p.name, p.version) => Tells(found, Flaw(e, p))
<1> DEFINE each == [i \in DOMAIN packages |-> Finds(db, packages[i])]
           found == FlattenSeq(each)
           T == UNION {ToSet(Finds(db, packages[i])) : i \in DOMAIN packages}
<1>1. MatchOffline(db, packages, ecosystem) = found
  BY DEF MatchOffline, Finds
<1>2. Len(packages) \in Nat /\ DOMAIN packages = 1..Len(packages) /\ \A i \in 1..Len(packages) : packages[i] \in ToSet(packages)
  BY InSequence DEF ArePackages
<1>3. \A i \in DOMAIN packages : each[i] = Finds(db, packages[i]) /\ GoodRows(each[i])
  BY <1>2, FindsIs
<1>4. \A i \in DOMAIN packages : ToSet(each[i]) \subseteq T
  BY <1>3
<1> HIDE DEF T
<1>5. each = [i \in 1..Len(packages) |-> each[i]] /\ DOMAIN each = 1..Len(packages)
  BY <1>2
<1> HIDE DEF each
<1>6. \A i \in 1..Len(packages) : each[i] \in Seq(T)
  <2> SUFFICES ASSUME NEW i \in 1..Len(packages) PROVE each[i] \in Seq(T)
    OBVIOUS
  <2>1. each[i] \in Seq(ToSet(each[i])) /\ ToSet(each[i]) \subseteq T
    BY <1>2, <1>3, <1>4 DEF GoodRows, IsSequence
  <2> DEFINE s == each[i]
             S == ToSet(s)
  <2>2. s \in Seq(S) /\ S \subseteq T
    BY <2>1
  <2> HIDE DEF s, S
  <2>3. s \in Seq(T)
    BY <2>2
  <2>4. QED
    BY <2>3 DEF s
<1>7. each \in [1..Len(packages) -> Seq(T)]
  BY <1>5, <1>6
<1>8. each \in Seq(Seq(T))
  BY <1>2, <1>7
<1>9. found \in Seq(T) /\ ToSet(found) = UNION {ToSet(each[i]) : i \in DOMAIN each}
  BY <1>8, FlattenIs
<1> HIDE DEF found
<1>10. IsSequence(found)
  BY <1>9, SeqIsSequence
<1>11. GoodRows(found)
  BY <1>2, <1>3, <1>5, <1>9, <1>10 DEF GoodRows
<1>12. ASSUME NEW e \in ToSet(db), NEW p \in ToSet(packages), Affects(e, p.name, p.version)
       PROVE  Tells(found, Flaw(e, p))
  <2>1. PICK i \in DOMAIN packages : packages[i] = p
    BY DEF ToSet
  <2>2. PICK r \in ToSet(each[i]) : r.package = p.name /\ r.id = PrimaryId(e)
    BY <1>3, <1>12, <2>1, FindsIs
  <2>3. r \in ToSet(found)
    BY <1>2, <1>5, <1>9, <2>1, <2>2
  <2>4. Flaw(e, p).package = p.name /\ Flaw(e, p).ids = {PrimaryId(e)}
    BY DEF Flaw
  <2>5. QED
    BY <2>2, <2>3, <2>4 DEF Tells
<1>13. QED
  BY <1>1, <1>11, <1>12

\* What the dataset holds of a package of the list is found, or a note says that it was not read.
LEMMA DatasetIs ==
  ASSUME WorldOK, PackagesOK, ReadDataset
  PROVE  \/ /\ UNCHANGED <<rows, given>>
            /\ setup.db => "dbEcosystem" \in told'
         \/ \E found : /\ rows' = AddAll(rows, found) /\ given' = given \o found /\ GoodRows(found)
                       /\ "db" \notin told' =>
                            \A e \in ToSet(Dataset), p \in ToSet(packages) :
                              Affects(e, p.name, p.version) => Tells(found, Flaw(e, p))
<1>1. ArePackages(packages)
  BY DEF ReadDataset, PackagesOK, Listed
<1>2. CASE ~setup.db
  BY <1>2 DEF ReadDataset
<1>3. CASE setup.db /\ ecosystem = NoEcosystem
  BY <1>3 DEF ReadDataset
<1>4. CASE setup.db /\ ecosystem # NoEcosystem
  <2> DEFINE db(readable) == LoadOffline(Dataset, readable, Wanted, ecosystem)
             all(readable) == MatchOffline(db(readable), packages, ecosystem)
  <2>1. PICK readable \in 0..Len(Dataset) :
          /\ rows' = AddAll(rows, all(readable)) /\ given' = given \o all(readable)
          /\ told' = IF readable < Len(Dataset) THEN told \cup {"db"} ELSE told
    BY <1>4 DEF ReadDataset
  <2> DEFINE read == db(readable)
             found == all(readable)
  <2>2. /\ IsSequence(read) /\ ToSet(read) \subseteq ToSet(Dataset)
        /\ readable = Len(Dataset) =>
             \A e \in ToSet(Dataset) : Indexed(e, Wanted, ecosystem) => e \in ToSet(read)
    BY LoadedIs
  <2>3. rows' = AddAll(rows, found) /\ given' = given \o found /\ found = MatchOffline(read, packages, ecosystem)
    BY <2>1
  <2> HIDE DEF read, found, db, all
  <2>4. /\ GoodRows(found)
        /\ \A e \in ToSet(read), p \in ToSet(packages) :
             Affects(e, p.name, p.version) => Tells(found, Flaw(e, p))
    BY <1>1, <1>4, <2>2, <2>3, MatchedIs
  <2>5. ASSUME NEW e \in ToSet(Dataset), NEW p \in ToSet(packages), Affects(e, p.name, p.version)
        PROVE  Indexed(e, Wanted, ecosystem)
    <3>1. ecosystem.family # ""
      BY <1>4 DEF WorldOK
    <3>2. p.name \in Wanted
      BY DEF Wanted
    <3>3. QED
      BY <2>5, <3>1, <3>2 DEF Affects, Indexed, EcosystemMatches
  <2>6. "db" \notin told' => readable = Len(Dataset)
    <3>1. Len(Dataset) \in Nat
      BY RecordsTyped, InSequence
    <3>2. QED
      BY <2>1, <3>1
  <2>7. QED
    BY <2>2, <2>3, <2>4, <2>5, <2>6
<1>5. QED
  BY <1>2, <1>3, <1>4

\* What a lookup fetches is put down for every package it was asked about.
LEMMA LookupIs ==
  ASSUME WorldOK, PackagesOK, QueryOK, Lookup
  PROVE  LET id == order[next + 1]
         IN  \/ UNCHANGED <<rows, given>> /\ "lookup" \in told'
             \/ \E found : /\ rows' = AddAll(rows, found) /\ given' = given \o found /\ GoodRows(found)
                           /\ \A p \in ToSet(hits[id]) : Tells(found, Flaw(Detail(id), p))
<1> DEFINE id == order[next + 1]
           found == [i \in DOMAIN hits[id] |-> FromEntry(Detail(id), hits[id][i], "osv-api", NoVersion)]
<1>1. CASE told' = told \cup {"lookup"} /\ UNCHANGED <<rows, given>>
  BY <1>1
<1>2. CASE rows' = AddAll(rows, found) /\ given' = given \o found
  <2>1. ArePackages(packages)
    BY DEF Lookup, PackagesOK, Listed
  <2>2. id \in DOMAIN hits /\ id \in Ids
    <3>1. Len(order) \in Nat /\ next \in Nat /\ next < Len(order) /\ \A i \in 1..Len(order) : order[i] \in ToSet(order)
      BY InSequence DEF Lookup, QueryOK
    <3>2. next + 1 \in 1..Len(order)
      BY <3>1
    <3>3. QED
      BY <3>1, <3>2 DEF QueryOK
  <2>3. /\ IsSequence(hits[id])
        /\ \A p \in ToSet(hits[id]) : p \in ToSet(packages) /\ Affects(Detail(id), p.name, p.version)
    BY <2>2 DEF QueryOK, HitsOK
  <2>4. Detail(id) \in ToSet(Published)
    BY <2>2, DetailIs
  <2> DEFINE asked == hits[id]
             e == Detail(id)
             source == "osv-api"
             s == found
  <2>5. s = [i \in DOMAIN asked |-> FromEntry(e, asked[i], source, NoVersion)] /\ source # "distro-metadata"
    OBVIOUS
  <2>6. IsSequence(asked) /\ \A p \in ToSet(asked) : p \in ToSet(packages) /\ Affects(e, p.name, p.version)
    BY <2>3
  <2>7. e \in ToSet(Dataset) \cup ToSet(Published)
    BY <2>4
  <2>8. rows' = AddAll(rows, s) /\ given' = given \o s
    BY <1>2
  <2> HIDE DEF asked, e, source, s
  <2>9. Len(asked) \in Nat /\ DOMAIN asked = 1..Len(asked) /\ \A i \in 1..Len(asked) : asked[i] \in ToSet(asked)
    BY <2>6, InSequence
  <2>10. s = [i \in 1..Len(asked) |-> s[i]]
    BY <2>5, <2>9
  <2>11. IsSequence(s) /\ \A x : x \in ToSet(s) <=> \E i \in 1..Len(asked) : s[i] = x
    BY <2>9, <2>10, MapIs
  <2>12. ASSUME NEW i \in 1..Len(asked)
         PROVE  GoodRow(s[i]) /\ s[i].package = asked[i].name /\ s[i].id = PrimaryId(e)
    <3> DEFINE p == asked[i]
    <3>1. p \in ToSet(packages) /\ Affects(e, p.name, p.version)
      BY <2>6, <2>9
    <3>2. s[i] = FromEntry(e, p, source, NoVersion)
      BY <2>5, <2>9
    <3> HIDE DEF p
    <3>3. GoodRow(s[i]) /\ s[i].package = p.name /\ s[i].id = PrimaryId(e)
      BY <2>1, <2>5, <2>7, <3>1, <3>2, EntryRowIs
    <3>4. QED
      BY <3>3 DEF p
  <2>13. GoodRows(s)
    BY <2>11, <2>12 DEF GoodRows
  <2>14. ASSUME NEW p \in ToSet(asked) PROVE Tells(s, Flaw(e, p))
    <3>1. PICK i \in 1..Len(asked) : asked[i] = p
      BY <2>9 DEF ToSet
    <3>2. s[i] \in ToSet(s)
      BY <2>11
    <3>3. Flaw(e, p).package = p.name /\ Flaw(e, p).ids = {PrimaryId(e)}
      BY DEF Flaw
    <3>4. QED
      BY <2>12, <3>1, <3>2, <3>3 DEF Tells
  <2>15. QED
    BY <2>8, <2>13, <2>14 DEF asked, e
<1>3. QED
  BY <1>1, <1>2 DEF Lookup

\* What two true rows of one flaw say together is true.
LEMMA JoinGood ==
  ASSUME WorldOK, NEW r, NEW v, GoodRow(r), GoodRow(v), OneFlaw(r, v)
  PROVE  GoodRow(Join(r, v))
<1> DEFINE j == Join(r, v)
<1>1. IsRow(r) /\ TrueRow(r) /\ TrueRow(v) /\ v.package = r.package /\ v.id = r.id
  BY DEF GoodRow, OneFlaw
<1>2. /\ IsRow(j) /\ OneFlaw(j, r) /\ j.sources = r.sources \cup v.sources
      /\ j.installed = FirstOf(r.installed, v.installed)
  BY <1>1, JoinIs
<1> HIDE DEF j
<1>3. j.package = r.package /\ j.id = r.id
  BY <1>2 DEF OneFlaw
<1>4. NoVersion \notin Had(r.package)
  BY HadIs
<1>5. j.installed = NoVersion \/ j.installed \in Had(j.package) \/ FeedVersion(j)
  BY <1>1, <1>2, <1>3 DEF TrueRow, FirstOf, FeedVersion
<1>6. \/ j.sources = {"distro-metadata"}
      \/ \E e \in ToSet(Dataset) \cup ToSet(Published) : \E x \in Had(j.package) :
          /\ PrimaryId(e) = j.id /\ Affects(e, j.package, x)
          /\ x = j.installed \/ "distro-metadata" \in j.sources
  <2>1. CASE r.sources = {"distro-metadata"} /\ v.sources = {"distro-metadata"}
    BY <1>2, <2>1
  <2>2. CASE r.sources # {"distro-metadata"}
    <3>1. PICK e \in ToSet(Dataset) \cup ToSet(Published) : \E x \in Had(r.package) :
            /\ PrimaryId(e) = r.id /\ Affects(e, r.package, x)
            /\ x = r.installed \/ "distro-metadata" \in r.sources
      BY <1>1, <2>2 DEF TrueRow
    <3>2. PICK x \in Had(r.package) : /\ PrimaryId(e) = r.id /\ Affects(e, r.package, x)
                                      /\ x = r.installed \/ "distro-metadata" \in r.sources
      BY <3>1
    <3>3. x = j.installed \/ "distro-metadata" \in j.sources
      BY <1>2, <1>4, <3>2 DEF FirstOf
    <3>4. QED
      BY <1>3, <3>2, <3>3
  <2>3. CASE r.sources = {"distro-metadata"} /\ v.sources # {"distro-metadata"}
    <3>1. PICK e \in ToSet(Dataset) \cup ToSet(Published) : \E x \in Had(r.package) :
            PrimaryId(e) = r.id /\ Affects(e, r.package, x)
      BY <1>1, <2>3 DEF TrueRow
    <3>2. "distro-metadata" \in j.sources
      BY <1>2, <2>3
    <3>3. QED
      BY <1>3, <3>1, <3>2
  <2>4. QED
    BY <2>1, <2>2, <2>3
<1>7. "distro-metadata" \in j.sources =>
       \/ j.id = "" /\ j.package \in DOMAIN Repo /\ Repo[j.package].security
       \/ \E l \in ToSet(Tracker) :
            /\ j.package \in {l.package, l.patch} /\ j.id \in {l.cve, l.advisory, l.patch}
            /\ \E x \in Had(l.package) : Comparator(x, l.fixed) < 0
  <2>1. "distro-metadata" \in j.sources => "distro-metadata" \in r.sources \/ "distro-metadata" \in v.sources
    BY <1>2
  <2>2. QED
    BY <1>1, <1>3, <2>1 DEF TrueRow
<1>8. TrueRow(j)
  BY <1>5, <1>6, <1>7 DEF TrueRow
<1>9. QED
  BY <1>2, <1>8 DEF GoodRow, j

\* The merge of true rows is true.
LEMMA AddGood ==
  ASSUME WorldOK, NEW rs, \A r \in rs : GoodRow(r), NEW more, GoodRows(more)
  PROVE  \A r \in AddAll(rs, more) : GoodRow(r)
<1>1. Len(more) \in Nat /\ \A i \in 1..Len(more) : GoodRow(more[i])
  BY InSequence DEF GoodRows
<1>2. PICK f : /\ f[0] = rs /\ f[Len(more)] = AddAll(rs, more)
               /\ \A k \in 0..(Len(more) - 1) : f[k + 1] = Add(f[k], more[k + 1])
  BY <1>1, AddedOneByOne
<1> DEFINE Right == {k \in 0..Len(more) : \A r \in f[k] : GoodRow(r)}
<1>3. 0 \in Right
  BY <1>1, <1>2
<1>4. \A k \in 0..(Len(more) - 1) : k \in Right => k + 1 \in Right
  <2> SUFFICES ASSUME NEW k \in 0..(Len(more) - 1), k \in Right PROVE k + 1 \in Right
    OBVIOUS
  <2> DEFINE v == more[k + 1]
  <2>1. k + 1 \in 1..Len(more) /\ k + 1 \in 0..Len(more)
    BY <1>1
  <2>2. GoodRow(v) /\ f[k + 1] = Add(f[k], v) /\ \A r \in f[k] : GoodRow(r)
    BY <1>1, <1>2, <2>1
  <2> HIDE DEF v
  <2>3. \A r \in f[k] : OneFlaw(r, v) => GoodRow(Join(r, v))
    BY <2>2, JoinGood
  <2>4. \A r \in Add(f[k], v) : r \in f[k] \/ r = v \/ \E o \in f[k] : OneFlaw(o, v) /\ r = Join(o, v)
    BY DEF Add
  <2>5. \A r \in f[k + 1] : GoodRow(r)
    BY <2>2, <2>3, <2>4
  <2>6. QED
    BY <2>1, <2>5
<1>5. Len(more) \in Right
  <2> HIDE DEF Right
  <2>1. \A k \in 0..Len(more) : k \in Right
    BY <1>1, <1>3, <1>4, Along
  <2>2. QED
    BY <1>1, <2>1
<1>6. QED
  BY <1>2, <1>5

\* What RowWasTrue says of an update.
TrueUpdate(u) ==
  \/ u.installed \in Had(u.package) /\ Newer(u.available, u.installed)
  \/ LateVersion(u) \/ WasAbsent(u)

\* A row of dnf's first command: the package was behind it then, and is not past it now.
Announced(u) ==
  /\ "installed" \in DOMAIN u /\ u.installed = NoVersion
  /\ u.package \in DOMAIN Repo /\ u.available = Repo[u.package].version
  /\ \E v \in Had(u.package) : Newer(u.available, v)
  /\ host[u.package] \in Nat /\ host[u.package] <= u.available

\* The updates are true, and while dnf completes them as its first command left them.
UpdatesTrue ==
  /\ \A u \in updates : TrueUpdate(u)
  /\ pc \in {"security", "rpm"} => manager \in {"dnf", "yum"} /\ \A u \in updates : Announced(u)

\* Of two versions the one behind the other is not newer than it.
LEMMA Behind ==
  ASSUME WorldOK, NEW n \in Upgradable(host, Repo)
  PROVE  /\ n \in DOMAIN Repo /\ host[n] \in Had(n) /\ Newer(Repo[n].version, host[n])
         /\ host[n] \in Nat /\ host[n] <= Repo[n].version
<1>1. n \in DOMAIN Repo /\ host[n] # NoVersion /\ Comparator(host[n], Repo[n].version) < 0
  BY DEF Upgradable, Present, WorldOK
<1>2. host[n] \in Nat /\ Repo[n].version \in Nat /\ host[n] \in Had(n)
  BY <1>1, HostsTyped, HadIs DEF WorldOK, Version
<1> DEFINE a == host[n]
           b == Repo[n].version
<1>3. a \in Nat /\ b \in Nat /\ a - b < 0
  BY <1>1, <1>2 DEF Comparator
<1> HIDE DEF a, b
<1>4. b - a > 0 /\ a <= b
  BY <1>3
<1>5. QED
  BY <1>1, <1>2, <1>4 DEF a, b, Newer, Comparator

\* A row of an update, field by field.
LEMMA UpdateRowIs ==
  ASSUME NEW n, NEW security
  PROVE  LET u == UpdateRow(host, Repo, n, security)
         IN  u.package = n /\ u.installed = host[n] /\ u.available = Repo[n].version
BY DEF UpdateRow

\* The rows of dnf's first command.
LEMMA CheckUpdateIs ==
  ASSUME WorldOK, manager \in {"dnf", "yum"}, NEW u \in CheckUpdate(host, Repo)
  PROVE  Announced(u)
<1>1. PICK n \in Upgradable(host, Repo) : u = [UpdateRow(host, Repo, n, FALSE) EXCEPT !.installed = NoVersion]
  BY DEF CheckUpdate
<1>2. u.package = n /\ "installed" \in DOMAIN u /\ u.installed = NoVersion /\ u.available = Repo[n].version
  BY <1>1 DEF UpdateRow
<1>3. QED
  BY <1>2, Behind DEF Announced

\* What dnf's first command announced is true, whatever the third says.
LEMMA AnnouncedIs ==
  ASSUME WorldOK, manager \in {"dnf", "yum"}, NEW u, Announced(u)
  PROVE  TrueUpdate(u)
BY DEF Announced, TrueUpdate, LateVersion

\* An update is of a version the host has, to a newer one, or of what it has not.
LEMMA UpdatesIs ==
  ASSUME WorldOK, manager \notin {"dnf", "yum"}, NEW u \in Updates(manager, host, Repo)
  PROVE  TrueUpdate(u)
<1>1. ASSUME NEW n \in Upgradable(host, Repo), NEW security, u = UpdateRow(host, Repo, n, security)
      PROVE  TrueUpdate(u)
  <2>1. u.package = n /\ u.installed = host[n] /\ u.available = Repo[n].version
    BY <1>1, UpdateRowIs
  <2>2. QED
    BY <2>1, Behind DEF TrueUpdate
<1>2. ASSUME NEW n \in Brought(host, Repo), NEW security, u = UpdateRow(host, Repo, n, security), manager = "apt-get"
      PROVE  TrueUpdate(u)
  <2>1. u.package = n /\ u.installed = host[n]
    BY <1>2, UpdateRowIs
  <2>2. n \in DOMAIN Repo /\ n \notin Present(host)
    BY UpgradedIs DEF DistUpgrade, Brought, WorldOK
  <2>3. host[n] = NoVersion /\ <<n, host[n]>> \in past
    BY <2>2 DEF Present, WorldOK
  <2>4. WasAbsent(u)
    BY <1>2, <2>1, <2>3 DEF WasAbsent
  <2>5. QED
    BY <2>4 DEF TrueUpdate
<1>3. CASE manager = "apt-get"
  <2>1. PICK n \in DistUpgrade(host, Repo) : u = UpdateRow(host, Repo, n, Repo[n].security)
    BY <1>3 DEF Updates, AptUpdates
  <2>2. QED
    BY <1>1, <1>2, <1>3, <2>1 DEF DistUpgrade
<1>4. CASE manager # "apt-get"
  <2>1. u \in PlainUpdates(host, Repo)
    BY <1>4 DEF Updates, ZypperUpdates, PacmanUpdates, ApkUpdates
  <2>2. PICK n \in Upgradable(host, Repo) : u = UpdateRow(host, Repo, n, FALSE)
    BY <2>1 DEF PlainUpdates
  <2>3. QED
    BY <1>1, <2>2
<1>5. QED
  BY <1>3, <1>4

\* Marking a row leaves its versions.
LEMMA MarkedIs ==
  ASSUME WorldOK, NEW us, NEW lines, \A u \in us : Announced(u), NEW w \in WithSecurity(us, lines)
  PROVE  Announced(w)
<1>1. PICK u \in us : w = [u EXCEPT !.security = SecurityIndex(lines, u.package).security,
                                     !.severity = SecurityIndex(lines, u.package).severity]
  BY DEF WithSecurity
<1>2. w.package = u.package /\ DOMAIN w = DOMAIN u /\ w.installed = u.installed /\ w.available = u.available
  BY <1>1
<1>3. QED
  BY <1>2 DEF Announced

\* A row that is filled in names the version of that moment: behind the update, or the
\* update itself, installed since.
LEMMA CompletedIs ==
  ASSUME WorldOK, manager \in {"dnf", "yum"}, NEW us, \A u \in us : Announced(u),
         NEW w \in WithInstalled(us, host)
  PROVE  TrueUpdate(w)
<1>1. PICK u \in us : w = [u EXCEPT !.installed = VersionIn(Installed(host), u.package)]
  BY DEF WithInstalled
<1> DEFINE n == u.package
           a == host[n]
           b == Repo[n].version
<1>2. n \in DOMAIN Repo /\ a \in Nat /\ a <= b /\ b \in Nat /\ u.available = b /\ \E v \in Had(n) : Newer(b, v)
  BY HostsTyped DEF Announced
<1>3. n \in Present(host) /\ a \in Had(n)
  <2>1. a # NoVersion
    BY <1>2 DEF NoVersion
  <2>2. n \in DOMAIN host
    BY <1>2 DEF WorldOK
  <2> HIDE DEF n
  <2>3. QED
    BY <1>2, <2>1, <2>2, HadIs DEF Present
<1>4. w.package = n /\ w.available = b /\ w.installed = a
  BY <1>1, <1>2, <1>3, InstalledWas DEF Announced
<1>5. a < b \/ a = b
  BY <1>2
<1> HIDE DEF n, a, b
<1>6. a < b => Newer(b, a)
  BY <1>2 DEF Newer, Comparator
<1>7. CASE a < b
  BY <1>3, <1>4, <1>6, <1>7 DEF TrueUpdate
<1>8. CASE a = b
  BY <1>2, <1>4, <1>8 DEF TrueUpdate, LateVersion
<1>9. QED
  BY <1>5, <1>7, <1>8

\* What was true of an update stays so, and what was announced too.
LEMMA UpdateStays ==
  ASSUME WorldOK, [Next]_vars, NEW u
  PROVE  (TrueUpdate(u) => TrueUpdate(u)') /\ (Announced(u) => Announced(u)')
<1>1. past \subseteq past' /\ manager' = manager
  BY Grows
<1>2. \A n : Had(n) \subseteq Had(n)'
  BY <1>1 DEF Had
<1>3. TrueUpdate(u) => TrueUpdate(u)'
  BY <1>1, <1>2 DEF TrueUpdate, LateVersion, WasAbsent, Newer, Comparator
<1>4. ASSUME Announced(u) PROVE Announced(u)'
  <2> DEFINE n == u.package
  <2>1. n \in DOMAIN Repo /\ Repo[n].version \in Nat /\ u.available = Repo[n].version
    BY <1>4, HostsTyped DEF Announced
  <2>2. host'[n] = host[n] \/ host'[n] = Repo[n].version
    <3>1. CASE Upgrade
      <4>1. PICK m \in DistUpgrade(host, Repo) : host' = [host EXCEPT ![m] = Repo[m].version]
        BY <3>1 DEF Upgrade
      <4>2. QED
        BY <2>1, <4>1 DEF WorldOK
    <3>2. ~Upgrade => host' = host
      BY DEF Next, ReadUpdates, MarkSecurity, FillInstalled, ListInstalled, ReadFeed, FillVersions, ReadDataset,
             AskAPI, Batch, Cap, Lookup, Looked, Filter, vars, world
    <3>3. QED
      BY <3>1, <3>2
  <2>3. host'[n] \in Nat /\ host'[n] <= u.available
    BY <1>4, <2>1, <2>2 DEF Announced
  <2>4. \E v \in Had(n)' : Newer(u.available, v)
    BY <1>2, <1>4 DEF Announced
  <2>5. QED
    BY <1>4, <2>3, <2>4 DEF Announced, Newer, Comparator
<1>5. QED
  BY <1>3, <1>4

\* A step lists the updates as the host is, completes them, or leaves them.
LEMMA UpdatesNext ==
  ASSUME WorldOK, UpdatesTrue, [Next]_vars
  PROVE  UpdatesTrue'
<1>1. \A u : (TrueUpdate(u) => TrueUpdate(u)') /\ (Announced(u) => Announced(u)')
  BY UpdateStays
<1>2. manager' = manager
  BY Grows
<1>3. CASE updates' = updates /\ (pc' \in {"security", "rpm"} => pc \in {"security", "rpm"})
  BY <1>1, <1>2, <1>3 DEF UpdatesTrue
<1>4. CASE ReadUpdates
  <2>1. CASE updates' = {}
    <3>1. pc' \in {"security", "rpm"} => manager \in {"dnf", "yum"}
      BY <1>4 DEF ReadUpdates, After
    <3>2. QED
      BY <1>2, <2>1, <3>1 DEF UpdatesTrue
  <2>2. CASE updates' = Updates(manager, host, Repo) /\ manager \in {"dnf", "yum"}
    <3>1. \A u \in updates' : Announced(u)
      BY <2>2, CheckUpdateIs DEF Updates
    <3>2. \A u \in updates' : TrueUpdate(u)
      BY <2>2, <3>1, AnnouncedIs
    <3>3. QED
      BY <1>1, <1>2, <2>2, <3>1, <3>2 DEF UpdatesTrue
  <2>3. CASE updates' = Updates(manager, host, Repo) /\ manager \notin {"dnf", "yum"}
    <3>1. \A u \in updates' : TrueUpdate(u)
      BY <2>3, UpdatesIs
    <3>2. pc' \notin {"security", "rpm"}
      BY <1>4, <2>3 DEF ReadUpdates, After
    <3>3. QED
      BY <1>1, <3>1, <3>2 DEF UpdatesTrue
  <2>4. updates' = {} \/ updates' = Updates(manager, host, Repo)
    BY <1>4 DEF ReadUpdates
  <2>5. QED
    BY <2>1, <2>2, <2>3, <2>4
<1>5. CASE MarkSecurity
  <2>1. manager \in {"dnf", "yum"} /\ \A u \in updates : Announced(u)
    BY <1>5 DEF MarkSecurity, UpdatesTrue
  <2>2. updates' = WithSecurity(updates, Pending(host, Tracker)) \/ updates' = updates
    BY <1>5 DEF MarkSecurity
  <2>3. \A u \in updates' : Announced(u)
    BY <2>1, <2>2, MarkedIs
  <2>4. \A u \in updates' : TrueUpdate(u)
    BY <2>1, <2>3, AnnouncedIs
  <2>5. QED
    BY <1>1, <1>2, <2>1, <2>3, <2>4 DEF UpdatesTrue
<1>6. CASE FillInstalled
  <2>1. manager \in {"dnf", "yum"} /\ \A u \in updates : Announced(u)
    BY <1>6 DEF FillInstalled, UpdatesTrue
  <2>2. updates' = WithInstalled(updates, host) \/ updates' = updates
    BY <1>6 DEF FillInstalled
  <2>3. \A u \in updates' : TrueUpdate(u)
    BY <2>1, <2>2, CompletedIs DEF UpdatesTrue
  <2>4. pc' \notin {"security", "rpm"}
    BY <1>6 DEF FillInstalled, After
  <2>5. QED
    BY <1>1, <2>3, <2>4 DEF UpdatesTrue
<1>7. \/ updates' = updates /\ (pc' \in {"security", "rpm"} => pc \in {"security", "rpm"})
      \/ ReadUpdates \/ MarkSecurity \/ FillInstalled
  BY DEF Next, Upgrade, ListInstalled, ReadFeed, FillVersions, ReadDataset, AskAPI, Batch, Cap, Lookup, Looked,
         Filter, vars
<1>8. QED
  BY <1>3, <1>4, <1>5, <1>6, <1>7

\* A good row stays good as the host is upgraded.
LEMMA GoodStays ==
  ASSUME WorldOK, [Next]_vars
  PROVE  /\ \A r : GoodRow(r) => GoodRow(r)'
         /\ \A s : GoodRows(s) => GoodRows(s)'
         /\ \A s : FeedRows(s) => FeedRows(s)'
<1>1. ASSUME NEW r, GoodRow(r) PROVE GoodRow(r)'
  <2>1. TrueRow(r)'
    BY <1>1, TrueStays DEF GoodRow
  <2>2. QED
    BY <1>1, <2>1 DEF GoodRow, IsRow
<1>2. ASSUME NEW s, GoodRows(s) PROVE GoodRows(s)'
  BY <1>1, <1>2 DEF GoodRows, IsSequence
<1>3. ASSUME NEW s, FeedRows(s) PROVE FeedRows(s)'
  BY <1>2, <1>3 DEF FeedRows
<1>4. QED
  BY <1>1, <1>2, <1>3

\* The steps at which nothing is merged yet.
Unmerged == {"updates", "security", "rpm", "installed", "feed", "versions"}

\* The rows are true, and the merge of what was given.
RowsOK ==
  /\ FeedRows(feed) /\ GoodRows(given) /\ \A r \in rows : GoodRow(r)
  /\ pc \in Unmerged => rows = {} /\ given = <<>>
  /\ pc # "done" => MergeOf(rows, given, Len(given))
  /\ GradeStands

\* The filtered table of a merge is what was said, under the first grades.
LEMMA FilteredIs ==
  ASSUME NEW rs, NEW g, IsSequence(g), MergeOf(rs, g, Len(g)), NEW min,
         NEW table, table = SortAndFilter(rs, min)
  PROVE  /\ \A r \in table : /\ r.severity = GradeOf(g, Len(g), r)
                             /\ r.sources = UNION {g[i].sources : i \in Saying(g, Len(g), r)}
                             /\ \A s \in table : OneFlaw(s, r) => s = r
         /\ \A i \in 1..Len(g) :
              (\E r \in table : OneFlaw(r, g[i])) <=> ~BelowFloor(GradeOf(g, Len(g), g[i]), min)
<1>1. \A r : r \in table <=> r \in rs /\ ~BelowFloor(r.severity, min)
  BY DEF SortAndFilter
<1>2. \A r \in table : /\ r.severity = GradeOf(g, Len(g), r)
                       /\ r.sources = UNION {g[i].sources : i \in Saying(g, Len(g), r)}
                       /\ \A s \in table : OneFlaw(s, r) => s = r
  BY <1>1 DEF MergeOf
<1>3. ASSUME NEW i \in 1..Len(g)
      PROVE  (\E r \in table : OneFlaw(r, g[i])) <=> ~BelowFloor(GradeOf(g, Len(g), g[i]), min)
  <2>1. PICK r \in rs : OneFlaw(r, g[i])
    BY DEF MergeOf
  <2>2. GradeOf(g, Len(g), r) = GradeOf(g, Len(g), g[i])
    BY <2>1, SameFlaw
  <2>3. r.severity = GradeOf(g, Len(g), g[i])
    BY <2>2 DEF MergeOf
  <2>4. \A s \in rs : OneFlaw(s, g[i]) => s = r
    BY <2>1, FlawsAlike DEF MergeOf
  <2>5. QED
    BY <1>1, <2>1, <2>3, <2>4
<1>4. QED
  BY <1>2, <1>3

\* GradeStands is about the whole of what was given.
LEMMA StandsIs ==
  ASSUME IsSequence(given)
  PROVE  /\ \A r : Said(r) = Saying(given, Len(given), r) /\ FirstGrade(r) = GradeOf(given, Len(given), r)
         /\ DOMAIN given = 1..Len(given)
<1>1. DOMAIN given = 1..Len(given)
  BY InSequence
<1>2. \A r : Said(r) = Saying(given, Len(given), r)
  BY <1>1 DEF Said, Saying
<1>3. \A r : {i \in Said(r) : given[i].severity # "unknown"} = Grading(given, Len(given), r)
  BY <1>2 DEF Grading
<1>4. \A r : FirstGrade(r) = GradeOf(given, Len(given), r)
  BY <1>3 DEF FirstGrade, GradeOf
<1>5. QED
  BY <1>1, <1>2, <1>4

\* There are no rows as a run begins.
LEMMA RowsInit ==
  Init => RowsOK /\ UpdatesTrue
<1> SUFFICES ASSUME Init PROVE RowsOK /\ UpdatesTrue
  OBVIOUS
<1>1. rows = {} /\ given = <<>> /\ feed = <<>> /\ updates = {} /\ pc \in {"updates", "installed"}
  BY DEF Init
<1>2. FeedRows(<<>>) /\ GoodRows(<<>>) /\ Len(<<>>) = 0
  BY NoRows DEF FeedRows
<1>3. MergeOf({}, <<>>, 0)
  BY DEF MergeOf
<1>4. GradeStands
  BY <1>1 DEF GradeStands
<1>5. QED
  BY <1>1, <1>2, <1>3, <1>4 DEF RowsOK, UpdatesTrue

\* What a step does to the table.
LEMMA RowsStep ==
  ASSUME Shape, RowsOK, [Next]_vars
  PROVE  \/ /\ UNCHANGED <<rows, given>> /\ (pc' \in Unmerged => pc \in Unmerged)
            /\ pc' = "done" => pc \in Unmerged \/ UNCHANGED vars
         \/ /\ pc \notin {"filter", "done"} /\ pc' \notin Unmerged /\ pc' # "done"
            /\ \E found : rows' = AddAll(rows, found) /\ given' = given \o found /\ GoodRows(found)
         \/ rows' = SortAndFilter(rows, setup.min) /\ given' = given /\ pc = "filter" /\ pc' = "done"
<1>1. CASE FillVersions
  <2>1. \E found : rows' = AddAll(rows, found) /\ given' = given \o found /\ GoodRows(found)
    BY <1>1, FilledIs DEF Shape, RowsOK
  <2>2. pc = "versions" /\ pc' = "offline"
    BY <1>1 DEF FillVersions
  <2>3. QED
    BY <2>1, <2>2 DEF Unmerged
<1>2. CASE ReadDataset
  <2>1. \/ UNCHANGED <<rows, given>>
        \/ \E found : rows' = AddAll(rows, found) /\ given' = given \o found /\ GoodRows(found)
    BY <1>2, DatasetIs DEF Shape
  <2>2. pc = "offline" /\ pc' = "online"
    BY <1>2 DEF ReadDataset
  <2>3. QED
    BY <2>1, <2>2 DEF Unmerged
<1>3. CASE Lookup
  <2>1. \/ UNCHANGED <<rows, given>>
        \/ \E found : rows' = AddAll(rows, found) /\ given' = given \o found /\ GoodRows(found)
    BY <1>3, LookupIs DEF Shape
  <2>2. pc = "lookup" /\ pc' = pc
    BY <1>3 DEF Lookup
  <2>3. QED
    BY <2>1, <2>2 DEF Unmerged
<1>4. CASE Filter
  BY <1>4 DEF Filter
<1>5. CASE Upgrade
  BY <1>5 DEF Upgrade, Unmerged
<1>6. CASE ReadUpdates \/ MarkSecurity \/ FillInstalled \/ ListInstalled \/ ReadFeed
  BY <1>6 DEF ReadUpdates, MarkSecurity, FillInstalled, After, ListInstalled, ReadFeed, Unmerged
<1>7. CASE AskAPI \/ Batch \/ Cap \/ Looked
  BY <1>7 DEF AskAPI, Batch, Cap, Looked, Unmerged
<1>8. CASE UNCHANGED vars
  BY <1>8 DEF vars
<1>9. QED
  BY <1>1, <1>2, <1>3, <1>4, <1>5, <1>6, <1>7, <1>8 DEF Next

\* The feed's rows, before and as they are read.
LEMMA FeedNext ==
  ASSUME WorldOK, FeedRows(feed), [Next]_vars
  PROVE  FeedRows(feed')
<1>1. CASE ReadFeed
  <2>1. PICK ok \in [Commands -> BOOLEAN] :
          feed' = Advisories(manager, host, Repo, Tracker, Names, setup.tools, setup.online, ok).rows
    BY <1>1 DEF ReadFeed
  <2>2. QED
    BY <2>1, AdvisoriesAre
<1>2. CASE feed' = feed
  BY <1>2
<1>3. feed' = feed \/ ReadFeed
  BY DEF Next, Upgrade, ReadUpdates, MarkSecurity, FillInstalled, ListInstalled, FillVersions, ReadDataset,
         AskAPI, Batch, Cap, Lookup, Looked,
         Filter, vars
<1>4. QED
  BY <1>1, <1>2, <1>3

\* A step merges, filters or leaves the rows.
LEMMA RowsNext ==
  ASSUME Shape, RowsOK, [Next]_vars
  PROVE  RowsOK'
<1>1. WorldOK /\ IsSequence(given) /\ Len(given) \in Nat
  BY InSequence DEF Shape, RowsOK, GoodRows
<1>2. /\ \A r : GoodRow(r) => GoodRow(r)'
      /\ \A s : GoodRows(s) => GoodRows(s)'
      /\ \A s : FeedRows(s) => FeedRows(s)'
  BY <1>1, GoodStays
<1>3. FeedRows(feed')
  BY <1>1, FeedNext DEF RowsOK
<1>4. FeedRows(feed)'
  BY <1>2, <1>3
<1>5. CASE /\ UNCHANGED <<rows, given>> /\ (pc' \in Unmerged => pc \in Unmerged)
           /\ pc' = "done" => pc \in Unmerged \/ UNCHANGED vars
  <2>1. GoodRows(given)' /\ \A r \in rows' : GoodRow(r)'
    BY <1>2, <1>5 DEF RowsOK
  <2>2. pc' \in Unmerged => rows' = {} /\ given' = <<>>
    BY <1>5 DEF RowsOK
  <2>3. pc' # "done" => MergeOf(rows', given', Len(given'))
    <3>1. CASE pc # "done"
      BY <1>5, <3>1 DEF RowsOK
    <3>2. CASE pc = "done"
      <4>1. pc' = "done"
        BY <3>2 DEF Next, Upgrade, ReadUpdates, MarkSecurity, FillInstalled, ListInstalled, ReadFeed,
                 FillVersions, ReadDataset, AskAPI, Batch,
               Cap, Lookup, Looked, Filter, vars
      <4>2. QED
        BY <4>1
    <3>3. QED
      BY <3>1, <3>2
  <2>4. GradeStands'
    <3>1. CASE UNCHANGED vars
      <4>1. UNCHANGED <<rows, given, pc, setup>> /\ GradeStands
        BY <3>1 DEF vars, RowsOK
      <4>2. \A r : Said(r)' = Said(r)
        BY <4>1 DEF Said
      <4>3. \A r : FirstGrade(r)' = FirstGrade(r)
        BY <4>1, <4>2 DEF FirstGrade
      <4>4. QED
        BY <4>1, <4>2, <4>3 DEF GradeStands
    <3>2. CASE pc \in Unmerged
      <4>1. rows' = {} /\ given' = <<>>
        BY <1>5, <3>2 DEF RowsOK
      <4>2. QED
        BY <4>1 DEF GradeStands
    <3>3. CASE pc' # "done"
      BY <3>3 DEF GradeStands
    <3>4. QED
      BY <1>5, <3>1, <3>2, <3>3
  <2>5. QED
    BY <1>4, <2>1, <2>2, <2>3, <2>4 DEF RowsOK
<1>6. CASE /\ pc \notin {"filter", "done"} /\ pc' \notin Unmerged /\ pc' # "done"
           /\ \E found : rows' = AddAll(rows, found) /\ given' = given \o found /\ GoodRows(found)
  <2>1. PICK found : rows' = AddAll(rows, found) /\ given' = given \o found /\ GoodRows(found)
    BY <1>6
  <2>2. \A r \in rows' : GoodRow(r)
    BY <1>1, <2>1, AddGood DEF RowsOK
  <2>3. IsSequence(given') /\ ToSet(given') = ToSet(given) \cup ToSet(found) /\ Len(given') = Len(given) + Len(found)
    BY <1>1, <2>1, Append2Is DEF GoodRows
  <2>4. GoodRows(given')
    BY <2>1, <2>3 DEF GoodRows, RowsOK
  <2>5. MergeOf(rows', given', Len(given'))
    <3>1. MergeOf(rows, given, Len(given))
      BY <1>6 DEF RowsOK
    <3>2. \A v \in ToSet(found) : IsRow(v)
      BY <2>1 DEF GoodRows, GoodRow
    <3>3. MergeOf(AddAll(rows, found), given \o found, Len(given) + Len(found))
      BY <1>1, <2>1, <3>1, <3>2, MergeAll DEF GoodRows
    <3>4. QED
      BY <2>1, <2>3, <3>3
  <2>6. GradeStands'
    BY <1>6 DEF GradeStands
  <2>7. QED
    BY <1>2, <1>4, <1>6, <2>2, <2>4, <2>5, <2>6 DEF RowsOK
<1>7. CASE rows' = SortAndFilter(rows, setup.min) /\ given' = given /\ pc = "filter" /\ pc' = "done"
  <2>1. \A r \in rows' : r \in rows
    BY <1>7 DEF SortAndFilter
  <2>2. MergeOf(rows, given, Len(given)) /\ setup' = setup
    BY <1>1, <1>7, Grows DEF RowsOK
  <2>3. /\ \A r \in rows' : /\ r.severity = GradeOf(given, Len(given), r)
                            /\ r.sources = UNION {given[i].sources : i \in Saying(given, Len(given), r)}
                            /\ \A s \in rows' : OneFlaw(s, r) => s = r
        /\ \A i \in 1..Len(given) :
              (\E r \in rows' : OneFlaw(r, given[i])) <=> ~BelowFloor(GradeOf(given, Len(given), given[i]), setup.min)
    BY <1>1, <1>7, <2>2, FilteredIs
  <2>4. /\ \A r : Said(r)' = Saying(given, Len(given), r) /\ FirstGrade(r)' = GradeOf(given, Len(given), r)
        /\ DOMAIN given' = 1..Len(given)
    <3>1. /\ \A r : Said(r) = Saying(given, Len(given), r) /\ FirstGrade(r) = GradeOf(given, Len(given), r)
          /\ DOMAIN given = 1..Len(given)
      BY <1>1, StandsIs
    <3>2. \A r : Said(r)' = Said(r)
      BY <1>7 DEF Said
    <3>3. \A r : FirstGrade(r)' = FirstGrade(r)
      BY <1>7, <3>2 DEF FirstGrade
    <3>4. QED
      BY <1>7, <3>1, <3>2, <3>3
  <2>5. GradeStands'
    <3>1. \A r \in rows' : /\ r.severity = FirstGrade(r)'
                           /\ r.sources = UNION {given'[i].sources : i \in Said(r)'}
                           /\ \A s \in rows' : OneFlaw(s, r) => s = r
      BY <1>7, <2>3, <2>4
    <3>2. \A i \in DOMAIN given' :
            (\E r \in rows' : OneFlaw(r, given'[i])) <=> ~BelowFloor(FirstGrade(given[i])', setup'.min)
      BY <1>7, <2>2, <2>3, <2>4
    <3>3. QED
      BY <3>1, <3>2 DEF GradeStands
  <2>6. QED
    BY <1>2, <1>4, <1>7, <2>1, <2>5 DEF RowsOK, Unmerged
<1>8. QED
  BY <1>5, <1>6, <1>7, RowsStep

\* The rows are true and the merge of what was given, in every state.
LEMMA RowsHold ==
  Spec => [](Shape /\ RowsOK /\ UpdatesTrue)
<1>1. Init => RowsOK /\ UpdatesTrue
  BY RowsInit
<1>2. Shape /\ RowsOK /\ UpdatesTrue /\ [Next]_vars => RowsOK' /\ UpdatesTrue'
  BY RowsNext, UpdatesNext DEF Shape
<1>3. QED
  BY <1>1, <1>2, ShapeHolds, PTL DEF Spec

\* No row is made up: the version it names was installed at some moment of the audit,
\* and a record, an advisory or an archive of this host's says so of the package, of that
\* version or of one it had, through every merge and every upgrade meanwhile
\* (app/audit/audit.go installed, app/vuln/osv.go Match, app/vuln/collect.go merger).
THEOREM RowsTrue ==
  Spec => []RowWasTrue
<1>1. RowsOK /\ UpdatesTrue => RowWasTrue
  BY DEF RowsOK, UpdatesTrue, RowWasTrue, TrueUpdate, GoodRow, TrueRow
<1>2. QED
  BY <1>1, RowsHold, PTL

\* The table is what the feeds said, one row to a flaw under the first grade anyone
\* gave it, and what is left out is exactly what that grade puts below the floor: for
\* every order in which the feeds say it, and however many batches and lookups there
\* are (app/vuln/collect.go merger and sortAndFilter).
THEOREM GradesStand ==
  Spec => []GradeStands
<1>1. RowsOK => GradeStands
  BY DEF RowsOK
<1>2. QED
  BY <1>1, RowsHold, PTL

(***************************************************************************)
(* What each feed owes the table                                           *)
(***************************************************************************)
\* What was said stays said.
LEMMA GivenGrows ==
  ASSUME Shape, RowsOK, [Next]_vars
  PROVE  \A k : Tells(given, k) => Tells(given', k)
<1>1. CASE given' = given
  BY <1>1
<1>2. CASE \E found : given' = given \o found /\ GoodRows(found)
  <2>1. PICK found : given' = given \o found /\ GoodRows(found)
    BY <1>2
  <2>2. ToSet(given) \subseteq ToSet(given')
    BY <2>1, Append2Is DEF RowsOK, GoodRows
  <2>3. QED
    BY <2>2 DEF Tells
<1>3. QED
  BY <1>1, <1>2, RowsStep

\* What the distribution knew is in its rows, and once they are merged in what was given.
FeedOwes ==
  /\ pc \in {"updates", "security", "rpm", "installed", "feed"} => known = {}
  /\ "feed" \in told \/ \A k \in known :
       Unnumbered(k) \/ IF pc = "versions" THEN Tells(feed, k) ELSE Tells(given, k)

\* The feed's rows are given as they are filled in, and nothing given is lost.
LEMMA FeedOwesNext ==
  ASSUME Shape, RowsOK, FeedOwes, [Next]_vars
  PROVE  FeedOwes'
<1>0. \A k : Unnumbered(k)' <=> Unnumbered(k)
  BY Grows DEF Unnumbered, Shape
<1>1. WorldOK /\ PackagesOK /\ told \subseteq told'
  BY Grows DEF Shape
<1>2. CASE ReadFeed
  <2>1. PICK ok \in [Commands -> BOOLEAN] :
          LET a == Advisories(manager, host, Repo, Tracker, Names, setup.tools, setup.online, ok)
          IN  /\ feed' = a.rows
              /\ told' = IF a.err # "none" THEN told \cup {"feed"} ELSE told
              /\ known' = IF DnfUnheard(ok) THEN {} ELSE KnownNow
    BY <1>2 DEF ReadFeed
  <2> DEFINE a == Advisories(manager, host, Repo, Tracker, Names, setup.tools, setup.online, ok)
  <2>2. a.err = "none" /\ ~DnfUnheard(ok) => \A k \in KnownNow : Tells(a.rows, k) \/ Unnumbered(k)
    BY <1>1, AdvisoriesAre
  <2>3. "feed" \in told' \/ \A k \in known' : Tells(feed', k) \/ Unnumbered(k)
    BY <2>1, <2>2
  <2>4. pc' = "versions"
    BY <1>2 DEF ReadFeed
  <2>5. QED
    BY <1>0, <2>3, <2>4 DEF FeedOwes
<1>3. CASE FillVersions
  <2>1. PICK filled : given' = given \o filled /\ GoodRows(filled) /\ \A k : Tells(feed, k) => Tells(filled, k)
    BY <1>1, <1>3, FilledIs DEF RowsOK
  <2>2. ToSet(filled) \subseteq ToSet(given')
    BY <2>1, Append2Is DEF RowsOK, GoodRows
  <2>3. \A k : Tells(feed, k) => Tells(given', k)
    BY <2>1, <2>2 DEF Tells
  <2>4. pc = "versions" /\ pc' = "offline" /\ known' = known
    BY <1>3 DEF FillVersions
  <2>5. QED
    BY <1>0, <1>1, <2>3, <2>4 DEF FeedOwes
<1>4. CASE ~ReadFeed /\ ~FillVersions
  <2>1. /\ known' = known /\ feed' = feed
        /\ pc' = "versions" <=> pc = "versions"
        /\ pc' \in {"updates", "security", "rpm", "installed", "feed"} =>
             pc \in {"updates", "security", "rpm", "installed", "feed"}
    BY <1>4 DEF Next, Upgrade, ReadUpdates, MarkSecurity, FillInstalled, After, ListInstalled, ReadDataset,
             AskAPI, Batch, Cap, Lookup, Looked,
                Filter, vars
  <2>2. \A k : Tells(given, k) => Tells(given', k)
    BY GivenGrows
  <2>3. QED
    BY <1>0, <1>1, <2>1, <2>2 DEF FeedOwes
<1>5. QED
  BY <1>2, <1>3, <1>4

\* What a record says of a package does not depend on the step.
LEMMA AffectsStays ==
  ASSUME ecosystem' = ecosystem
  PROVE  \A e, n, v : Affects(e, n, v)' <=> Affects(e, n, v)
BY DEF Affects, Inside, Closed

\* Once the vulnerabilities are done, they were not cut short.
LEMMA EndedIs ==
  ASSUME Shape, [Next]_vars, Ended'
  PROVE  Ended \/ pc = "filter"
<1>1. setup' = setup /\ told \subseteq told'
  BY Grows DEF Shape
<1>2. "vulnerabilities" \in setup.sections /\ "failed" \notin told' /\ pc' = "done"
  BY <1>1 DEF Ended
<1>3. ~ListInstalled
  BY <1>2 DEF ListInstalled
<1>4. ~ReadUpdates /\ ~MarkSecurity /\ ~FillInstalled
  BY <1>2 DEF ReadUpdates, MarkSecurity, FillInstalled, After
<1>5. pc \in {"done", "filter"}
  BY <1>2, <1>3, <1>4 DEF Next, Upgrade, ReadFeed, FillVersions, ReadDataset, AskAPI, Batch, Cap, Lookup, Looked,
                          Filter, vars
<1>6. QED
  BY <1>1, <1>2, <1>5 DEF Ended

\* Every record of es that affects a package of the run is among what was given.
AllTold(es) ==
  \A e \in ToSet(es), p \in ToSet(packages) : Affects(e, p.name, p.version) => Tells(given, Flaw(e, p))

\* What was told of the same packages stays told.
LEMMA AllToldStays ==
  ASSUME Shape, RowsOK, [Next]_vars, packages' = packages, AllTold(Dataset) \/ AllTold(Published)
  PROVE  (AllTold(Dataset) => AllTold(Dataset)') /\ (AllTold(Published) => AllTold(Published)')
<1>1. \A e, n, v : Affects(e, n, v)' <=> Affects(e, n, v)
  BY Grows, AffectsStays DEF Shape
<1>2. \A k : Tells(given, k) => Tells(given', k)
  BY GivenGrows
<1>3. QED
  BY <1>1, <1>2 DEF AllTold

\* The dataset's records are told of once it was read, or it is told that it was not.
DatasetOwes ==
  pc \in {"online", "batch", "cap", "lookup", "filter"} \/ Ended =>
    (setup.db /\ told \cap {"db", "dbEcosystem"} = {} => AllTold(Dataset))

\* The dataset's records are told of as it is read, and stay told.
LEMMA DatasetOwesNext ==
  ASSUME Shape, RowsOK, DatasetOwes, [Next]_vars
  PROVE  DatasetOwes'
<1>1. WorldOK /\ PackagesOK /\ setup' = setup /\ ecosystem' = ecosystem /\ told \subseteq told'
  BY Grows DEF Shape
<1>2. CASE ReadDataset
  <2>1. SUFFICES ASSUME setup.db, told' \cap {"db", "dbEcosystem"} = {}
                 PROVE  AllTold(Dataset)'
    BY <1>1 DEF DatasetOwes
  <2>2. PICK found : /\ given' = given \o found /\ GoodRows(found)
                     /\ \A e \in ToSet(Dataset), p \in ToSet(packages) :
                          Affects(e, p.name, p.version) => Tells(found, Flaw(e, p))
    BY <1>1, <1>2, <2>1, DatasetIs
  <2>3. ToSet(found) \subseteq ToSet(given')
    BY <2>2, Append2Is DEF RowsOK, GoodRows
  <2>4. \A e \in ToSet(Dataset), p \in ToSet(packages) : Affects(e, p.name, p.version) => Tells(given', Flaw(e, p))
    BY <2>2, <2>3 DEF Tells
  <2>5. packages' = packages
    BY <1>2 DEF ReadDataset
  <2>6. QED
    BY <1>1, <2>4, <2>5, AffectsStays DEF AllTold
<1>3. CASE ~ReadDataset
  <2>1. SUFFICES ASSUME pc' \in {"online", "batch", "cap", "lookup", "filter"} \/ Ended',
                        setup.db, told' \cap {"db", "dbEcosystem"} = {}
                 PROVE  AllTold(Dataset)'
    BY <1>1 DEF DatasetOwes
  <2>2. pc \in {"online", "batch", "cap", "lookup", "filter"} \/ Ended
    <3>1. CASE Ended'
      BY <3>1, EndedIs
    <3>2. CASE pc' \in {"online", "batch", "cap", "lookup", "filter"}
      BY <1>3, <3>2 DEF Next, Upgrade, ReadUpdates, MarkSecurity, FillInstalled, After, ListInstalled,
               ReadFeed, FillVersions, AskAPI, Batch, Cap,
                        Lookup, Looked, Filter, vars
    <3>3. QED
      BY <2>1, <3>1, <3>2
  <2>3. packages' = packages
    BY <2>2 DEF Ended, Next, Upgrade, ReadUpdates, MarkSecurity, FillInstalled, ListInstalled, ReadFeed,
             FillVersions, ReadDataset, AskAPI, Batch,
                Cap, Lookup, Looked, Filter, vars
  <2>4. AllTold(Dataset)
    BY <1>1, <2>1, <2>2 DEF DatasetOwes
  <2>5. QED
    BY <2>3, <2>4, AllToldStays
<1>4. QED
  BY <1>2, <1>3

\* The API has named the record for the package.
Answered(ord, h, e, p) == e.id.name \in ToSet(ord) /\ p \in ToSet(h[e.id.name])

AllAnswered(ord, h) ==
  \A e \in ToSet(Published), p \in ToSet(packages) : Affects(e, p.name, p.version) => Answered(ord, h, e, p)

\* The packages asked about, the advisories fetched, and at the end every record, or a
\* note says what is missing.
ApiOwes ==
  /\ pc = "batch" => \A i \in 1..next : \A e \in ToSet(Published) :
                       Affects(e, packages[i].name, packages[i].version) => Answered(order, hits, e, packages[i])
  /\ pc = "cap" => AllAnswered(order, hits)
  /\ pc = "lookup" => "cap" \in told \/ AllAnswered(order, hits)
  /\ pc = "lookup" => \/ "lookup" \in told
                      \/ \A j \in 1..next : \A p \in ToSet(hits[order[j]]) : Tells(given, Flaw(Detail(order[j]), p))
  /\ pc = "filter" \/ Ended =>
       (setup.online /\ told \cap {"api", "apiEcosystem", "cap", "lookup"} = {} => AllTold(Published))

\* A batch that is answered accounts for its own packages and keeps the others.
LEMMA BatchAnswers ==
  ASSUME Shape, ApiOwes, Batch, Succeeded
  PROVE  /\ ChunkEnd \in Nat
         /\ pc' = "batch" => next' = ChunkEnd
         /\ pc' = "cap" => ChunkEnd = Len(packages)
         /\ \A i \in 1..ChunkEnd : \A e \in ToSet(Published) :
              Affects(e, packages[i].name, packages[i].version) => Answered(order', hits', e, packages[i])
<1>1. pc = "batch" /\ ArePackages(packages) /\ next \in Nat /\ next < Len(packages) /\ ToSet(order) \subseteq DOMAIN hits
  BY DEF Batch, Shape, PackagesOK, QueryOK, Listed
<1>2. /\ \A x : x \in ToSet(Chunk) <=> \E i \in (next + 1)..ChunkEnd : packages[i] = x
      /\ ChunkEnd \in Nat /\ next < ChunkEnd
      /\ next + BatchLimit >= Len(packages) => ChunkEnd = Len(packages)
      /\ ~(next + BatchLimit >= Len(packages)) => ChunkEnd = next + BatchLimit
  BY <1>1, ChunkIs
<1>3. /\ pc' = "batch" => next' = ChunkEnd
      /\ pc' = "cap" => ChunkEnd = Len(packages)
  BY <1>2 DEF Succeeded
<1>4. ASSUME NEW i \in 1..ChunkEnd, NEW e \in ToSet(Published), Affects(e, packages[i].name, packages[i].version)
      PROVE  Answered(order', hits', e, packages[i])
  <2> DEFINE id == e.id.name
  <2>1. CASE i \in 1..next
    <3>1. id \in ToSet(order) /\ packages[i] \in ToSet(hits[id])
      BY <1>1, <1>4, <2>1 DEF ApiOwes, Answered
    <3>2. id \in ToSet(order') /\ id \in DOMAIN hits
      BY <1>1, <3>1 DEF Succeeded
    <3>3. id \in DOMAIN hits'
      BY <3>2 DEF Succeeded
    <3>4. packages[i] \in ToSet(hits'[id])
      BY <3>1, <3>2, <3>3 DEF Succeeded
    <3>5. QED
      BY <3>2, <3>4 DEF Answered
  <2>2. CASE i \notin 1..next
    <3>1. i \in (next + 1)..ChunkEnd
      BY <1>1, <1>2, <1>4, <2>2
    <3>2. packages[i] \in ToSet(Chunk)
      BY <1>2, <3>1
    <3>3. id \in ToSet(Answers(packages[i]))
      BY <1>4, AnswersIs
    <3>4. packages[i] \in Asked(id)
      BY <3>2, <3>3 DEF Asked
    <3>5. id \in ToSet(order') /\ id \in DOMAIN hits'
      BY <3>4 DEF Succeeded
    <3>6. packages[i] \in ToSet(hits'[id])
      BY <3>4, <3>5 DEF Succeeded
    <3>7. QED
      BY <3>5, <3>6 DEF Answered
  <2>3. QED
    BY <2>1, <2>2
<1>5. QED
  BY <1>2, <1>3, <1>4

\* A batch moves what is asked about, or says that the query failed.
LEMMA ApiOwesBatch ==
  ASSUME Shape, ApiOwes, Batch
  PROVE  ApiOwes'
<1>1. packages' = packages /\ ecosystem' = ecosystem /\ pc = "batch"
  BY DEF Batch, world, run
<1>2. \A e, n, v : Affects(e, n, v)' <=> Affects(e, n, v)
  BY <1>1, AffectsStays
<1>3. Failed \/ Succeeded
  BY BatchIs DEF Shape
<1>4. CASE Failed
  BY <1>4 DEF ApiOwes, Failed, Ended
<1>5. CASE Succeeded
  <2>1. /\ ChunkEnd \in Nat
        /\ pc' = "batch" => next' = ChunkEnd
        /\ pc' = "cap" => ChunkEnd = Len(packages)
        /\ \A i \in 1..ChunkEnd : \A e \in ToSet(Published) :
             Affects(e, packages[i].name, packages[i].version) => Answered(order', hits', e, packages[i])
    BY <1>5, BatchAnswers
  <2>2. pc' \in {"batch", "cap"}
    BY <1>5 DEF Succeeded
  <2>3. CASE pc' = "batch"
    BY <1>1, <1>2, <2>1, <2>3 DEF ApiOwes, Answered, Ended
  <2>4. CASE pc' = "cap"
    <3>1. ASSUME NEW e \in ToSet(Published), NEW p \in ToSet(packages), Affects(e, p.name, p.version)
          PROVE  Answered(order', hits', e, p)
      <4>1. ArePackages(packages)
        BY <1>1 DEF Shape, PackagesOK, Listed
      <4>2. PICK i \in 1..Len(packages) : packages[i] = p
        BY <3>1, <4>1, InSequence DEF ArePackages, ToSet
      <4>3. QED
        BY <2>1, <2>4, <3>1, <4>2
    <3>2. AllAnswered(order, hits)'
      BY <1>1, <1>2, <3>1 DEF AllAnswered, Answered
    <3>3. QED
      BY <2>4, <3>2 DEF ApiOwes, Ended
  <2>5. QED
    BY <2>2, <2>3, <2>4
<1>6. QED
  BY <1>3, <1>4, <1>5

\* A lookup tells of one advisory more, or says that it failed.
LEMMA ApiOwesLookup ==
  ASSUME Shape, RowsOK, ApiOwes, Lookup
  PROVE  ApiOwes'
<1>1. /\ UNCHANGED <<setup, packages, order, hits, pc, ecosystem>> /\ pc = "lookup" /\ told \subseteq told'
      /\ next' = next + 1 /\ next \in Nat /\ WorldOK /\ PackagesOK /\ QueryOK
  BY DEF Lookup, world, run, Shape, QueryOK
<1>2. \A e, n, v : Affects(e, n, v)' <=> Affects(e, n, v)
  BY <1>1, AffectsStays
<1>3. AllAnswered(order, hits) => AllAnswered(order, hits)'
  BY <1>1, <1>2 DEF AllAnswered, Answered
<1>4. \A k : Tells(given, k) => Tells(given', k)
  BY GivenGrows DEF Next
<1>5. "lookup" \in told' \/ \A p \in ToSet(hits[order[next + 1]]) : Tells(given', Flaw(Detail(order[next + 1]), p))
  <2>1. CASE "lookup" \notin told'
    <3>1. PICK found : /\ given' = given \o found /\ GoodRows(found)
                       /\ \A p \in ToSet(hits[order[next + 1]]) : Tells(found, Flaw(Detail(order[next + 1]), p))
      BY <1>1, <2>1, LookupIs
    <3>2. ToSet(found) \subseteq ToSet(given')
      BY <3>1, Append2Is DEF RowsOK, GoodRows
    <3>3. QED
      BY <3>1, <3>2 DEF Tells
  <2>2. QED
    BY <2>1
<1>6. "lookup" \in told' \/ \A j \in 1..next' : \A p \in ToSet(hits[order[j]]) : Tells(given', Flaw(Detail(order[j]), p))
  <2>1. CASE "lookup" \notin told'
    <3>1. \A j \in 1..next : \A p \in ToSet(hits[order[j]]) : Tells(given, Flaw(Detail(order[j]), p))
      BY <1>1, <2>1 DEF ApiOwes
    <3>2. \A j \in 1..next' : j \in 1..next \/ j = next + 1
      BY <1>1
    <3>3. QED
      BY <1>4, <1>5, <2>1, <3>1, <3>2
  <2>2. QED
    BY <2>1
<1>7. QED
  BY <1>1, <1>3, <1>6 DEF ApiOwes, Ended

\* When every advisory was fetched, every record was told of.
LEMMA ApiOwesLooked ==
  ASSUME Shape, RowsOK, ApiOwes, Looked
  PROVE  ApiOwes'
<1>1. /\ UNCHANGED <<setup, packages, given, told, ecosystem>> /\ pc = "lookup" /\ pc' = "filter" /\ next = Len(order)
      /\ IsSequence(order)
  BY DEF Looked, world, run, Shape, QueryOK
<1>2. \A e, n, v : Affects(e, n, v)' <=> Affects(e, n, v)
  BY <1>1, AffectsStays
<1>3. ASSUME told \cap {"cap", "lookup"} = {}, NEW e \in ToSet(Published), NEW p \in ToSet(packages),
             Affects(e, p.name, p.version)
      PROVE  Tells(given, Flaw(e, p))
  <2>1. e.id.name \in ToSet(order) /\ p \in ToSet(hits[e.id.name])
    BY <1>1, <1>3 DEF ApiOwes, AllAnswered, Answered
  <2>2. PICK j \in 1..Len(order) : order[j] = e.id.name
    BY <1>1, <2>1, InSequence DEF ToSet
  <2>3. Tells(given, Flaw(Detail(order[j]), p))
    BY <1>1, <1>3, <2>1, <2>2 DEF ApiOwes
  <2>4. QED
    BY <2>2, <2>3, DetailIs
<1>4. told' \cap {"cap", "lookup"} = {} => AllTold(Published)'
  BY <1>1, <1>2, <1>3 DEF AllTold
<1>5. QED
  BY <1>1, <1>4 DEF ApiOwes

\* A step keeps what the API owes.
LEMMA ApiOwesNext ==
  ASSUME Shape, RowsOK, ApiOwes, [Next]_vars
  PROVE  ApiOwes'
<1>1. setup' = setup /\ ecosystem' = ecosystem /\ told \subseteq told'
  BY Grows DEF Shape
<1>2. \A e, n, v : Affects(e, n, v)' <=> Affects(e, n, v)
  BY <1>1, AffectsStays
<1>3. CASE Batch \/ Lookup \/ Looked
  BY <1>3, ApiOwesBatch, ApiOwesLookup, ApiOwesLooked
<1>4. CASE AskAPI
  <2>1. pc = "online" /\ pc' \in {"batch", "filter"} /\ next' = 0 /\ UNCHANGED <<packages, given>>
    BY <1>4 DEF AskAPI, query, Shape, QueryOK
  <2>2. CASE pc' = "batch"
    BY <2>1, <2>2 DEF ApiOwes, Ended
  <2>3. CASE pc' = "filter"
    <3>1. setup.online /\ "apiEcosystem" \notin told' => packages = <<>>
      BY <1>4, <2>3 DEF AskAPI
    <3>2. packages = <<>> => AllTold(Published)'
      BY <2>1 DEF AllTold, ToSet
    <3>3. QED
      BY <1>1, <2>3, <3>1, <3>2 DEF ApiOwes
  <2>4. QED
    BY <2>1, <2>2, <2>3
<1>5. CASE Cap
  <2>1. pc' = "lookup" /\ pc = "cap" /\ UNCHANGED <<packages, hits, next>> /\ ("cap" \in told' \/ order' = order)
    BY <1>5 DEF Cap
  <2>2. next' = 0
    BY <2>1 DEF Shape, QueryOK
  <2>3. "cap" \in told' \/ AllAnswered(order, hits)'
    BY <1>2, <2>1 DEF ApiOwes, AllAnswered, Answered
  <2>4. QED
    BY <2>1, <2>2, <2>3 DEF ApiOwes, Ended
<1>6. CASE Filter
  <2>1. pc = "filter" /\ pc' = "done" /\ packages' = packages
    BY <1>6 DEF Filter
  <2>2. AllTold(Published) => AllTold(Published)'
    BY <2>1, AllToldStays
  <2>3. QED
    BY <1>1, <2>1, <2>2 DEF ApiOwes
<1>7. CASE pc' \notin {"batch", "cap", "lookup", "filter"} /\ ~Ended'
  BY <1>7 DEF ApiOwes
<1>8. CASE pc' = pc /\ UNCHANGED <<packages, given, next, order, hits, told>>
  <2>1. AllAnswered(order, hits) => AllAnswered(order, hits)'
    BY <1>2, <1>8 DEF AllAnswered, Answered
  <2>2. AllTold(Published) => AllTold(Published)'
    BY <1>8, AllToldStays
  <2>3. Ended' => Ended
    BY <1>1, <1>8 DEF Ended
  <2>4. \A i \in 1..next : \A e \in ToSet(Published) :
          /\ Affects(e, packages[i].name, packages[i].version)' <=> Affects(e, packages[i].name, packages[i].version)
          /\ Answered(order, hits, e, packages[i])' <=> Answered(order, hits, e, packages[i])
    BY <1>2, <1>8 DEF Answered
  <2>5. QED
    BY <1>1, <1>8, <2>1, <2>2, <2>3, <2>4 DEF ApiOwes
<1>9. CASE Upgrade \/ UNCHANGED vars
  BY <1>8, <1>9 DEF Upgrade, vars, query
<1>10. CASE ReadUpdates \/ MarkSecurity \/ FillInstalled \/ ListInstalled
  <2>1. pc' \notin {"batch", "cap", "lookup", "filter"} /\ pc \notin {"done", "filter"}
    BY <1>10 DEF ReadUpdates, MarkSecurity, FillInstalled, After, ListInstalled
  <2>2. ~Ended'
    BY <2>1, EndedIs DEF Ended
  <2>3. QED
    BY <1>7, <2>1, <2>2
<1>11. CASE ReadFeed \/ FillVersions \/ ReadDataset
  BY <1>7, <1>11 DEF ReadFeed, FillVersions, ReadDataset, Ended
<1>12. QED
  BY <1>3, <1>4, <1>5, <1>6, <1>9, <1>10, <1>11 DEF Next

Owes == FeedOwes /\ DatasetOwes /\ ApiOwes

\* Every source has given what it owes, in every state.
LEMMA OwesHold ==
  Spec => [](Shape /\ RowsOK /\ Owes)
<1>1. Init => Owes
  BY DEF Init, Owes, FeedOwes, DatasetOwes, ApiOwes, Ended
<1>2. Shape /\ RowsOK /\ Owes /\ [Next]_vars => Owes'
  BY FeedOwesNext, DatasetOwesNext, ApiOwesNext DEF Owes
<1>3. QED
  BY <1>1, <1>2, RowsHold, PTL DEF Spec

\* In the end, what was said is in the table, or was graded below the floor by who said it.
LEMMA ToldIsReported ==
  ASSUME RowsOK, pc = "done", NEW k, Tells(given, k)
  PROVE  Reported(k.package, k.ids)
<1>1. IsSequence(given) /\ DOMAIN given = 1..Len(given) /\ Len(given) \in Nat
  BY InSequence DEF RowsOK, GoodRows
<1>2. PICK i \in DOMAIN given : given[i].package = k.package /\ given[i].id \in k.ids
  BY DEF Tells, ToSet
<1>3. CASE \E r \in rows : OneFlaw(r, given[i])
  BY <1>2, <1>3 DEF Reported, OneFlaw
<1>4. CASE BelowFloor(FirstGrade(given[i]), setup.min)
  <2> DEFINE graded == {j \in Said(given[i]) : given[j].severity # "unknown"}
  <2>1. graded # {} /\ FirstGrade(given[i]) = given[Min(graded)].severity
    BY <1>4 DEF FirstGrade, BelowFloor
  <2>2. graded \subseteq Nat
    BY <1>1 DEF Said
  <2>3. Min(graded) \in graded
    BY <2>1, <2>2, LeastOf
  <2>4. PICK j \in DOMAIN given : OneFlaw(given[j], given[i]) /\ BelowFloor(given[j].severity, setup.min)
    BY <1>4, <2>1, <2>3 DEF Said
  <2>5. QED
    BY <1>2, <2>4 DEF Reported, OneFlaw
<1>5. QED
  BY <1>2, <1>3, <1>4 DEF RowsOK, GradeStands

\* Whatever a source the run was told to consult knew of a package the run read is in the
\* table, or a note about that very source says it is incomplete: for every host, feed and
\* set of records, however the packages fall into batches, whichever requests fail and
\* wherever the cap cuts (app/vuln/collect.go, online.go's "a truncated result set is
\* reported").
THEOREM FlawsTold ==
  Spec => []FlawIsTold
<1>1. ASSUME Shape, RowsOK, Owes, Ended
      PROVE  FlawIsTold
  <2>1. \A k : Tells(given, k) => Reported(k.package, k.ids)
    BY <1>1, ToldIsReported DEF Ended
  <2>2. "feed" \in told \/ \A k \in known : Reported(k.package, k.ids) \/ Unnumbered(k)
    BY <1>1, <2>1 DEF Owes, FeedOwes, Ended
  <2>3. \A e, p : Tells(given, Flaw(e, p)) => Reported(p.name, {PrimaryId(e)})
    <3>1. \A e, p : Flaw(e, p).package = p.name /\ Flaw(e, p).ids = {PrimaryId(e)}
      BY DEF Flaw
    <3>2. QED
      BY <2>1, <3>1
  <2>4. setup.db /\ told \cap {"db", "dbEcosystem"} = {} =>
          \A e \in ToSet(Dataset) : \A p \in ToSet(packages) :
            Affects(e, p.name, p.version) => Reported(p.name, {PrimaryId(e)})
    BY <1>1, <2>3 DEF Owes, DatasetOwes, AllTold
  <2>5. setup.online /\ told \cap {"api", "apiEcosystem", "cap", "lookup"} = {} =>
          \A e \in ToSet(Published) : \A p \in ToSet(packages) :
            Affects(e, p.name, p.version) => Reported(p.name, {PrimaryId(e)})
    BY <1>1, <2>3 DEF Owes, ApiOwes, AllTold
  <2>6. QED
    BY <2>2, <2>4, <2>5 DEF FlawIsTold
<1>2. Shape /\ RowsOK /\ Owes => FlawIsTold
  BY <1>1 DEF FlawIsTold
<1>3. QED
  BY <1>2, OwesHold, PTL

=============================================================================
