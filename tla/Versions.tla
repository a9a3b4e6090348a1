------------------------------ MODULE Versions ------------------------------
(* The version orderings of app/pkgmgr/version.go: dpkg's, rpm's and the     *)
(* generic one. A version is a sequence of byte codes, as the Go code        *)
(* compares it. The comparisons are recursive, so this module and those that *)
(* extend it are for TLC only.                                               *)
EXTENDS Integers, SequencesExt

IsDigit(c) == c \in 48..57
IsAlpha(c) == c \in 97..122 \cup 65..90
Tilde == 126
Caret == 94
Colon == 58
Dash == 45

Sign(v) == IF v > 0 THEN 1 ELSE IF v < 0 THEN -1 ELSE 0

\* The byte at the front, or NUL past the end.
At(s) == IF s = <<>> THEN 0 ELSE s[1]

\* The longest prefix of bytes that satisfy P, and what follows it.
Span(s, P(_)) ==
  LET stops == {i \in 1..Len(s) : ~P(s[i])}
      n == IF stops = {} THEN Len(s)
           ELSE (CHOOSE i \in stops : \A j \in stops : i <= j) - 1
  IN  <<SubSeq(s, 1, n), SubSeq(s, n + 1, Len(s))>>

Zeros(s) == LET zero(c) == c = 48 IN Span(s, zero)[2]

\* strings.Compare: the first differing byte decides, then the length.
Lexical(a, b) ==
  LET differ == {i \in 1..Len(a) : i <= Len(b) /\ a[i] # b[i]}
  IN  IF differ = {} THEN Sign(Len(a) - Len(b))
      ELSE LET i == CHOOSE k \in differ : \A j \in differ : k <= j
           IN  Sign(a[i] - b[i])

IsNumeric(s) == s # <<>> /\ \A i \in DOMAIN s : IsDigit(s[i])

CompareInt(a, b) ==
  LET x == Zeros(a)
      y == Zeros(b)
  IN  IF ~IsNumeric(x) /\ x # <<>> THEN Lexical(x, y)
      ELSE IF Len(x) # Len(y) THEN Sign(Len(x) - Len(y))
      ELSE Lexical(x, y)

(***************************************************************************)
(* dpkg                                                                    *)
(***************************************************************************)
\* A tilde weighs as any other character (for a mutant).
DpkgOrderPlain(c) ==
  IF IsDigit(c) \/ c = 0 THEN 0
  ELSE IF IsAlpha(c) THEN c ELSE c + 256

DpkgOrder(c) ==
  IF IsDigit(c) \/ c = 0 THEN 0
  ELSE IF IsAlpha(c) THEN c
  ELSE IF c = Tilde THEN -1 ELSE c + 256

IsText(c) == c # 0 /\ ~IsDigit(c)

RECURSIVE VerRevCmp(_, _)
VerRevCmp(a, b) ==
  IF a = <<>> /\ b = <<>> THEN 0
  ELSE IF IsText(At(a)) \/ IsText(At(b))
  THEN IF DpkgOrder(At(a)) # DpkgOrder(At(b))
       THEN DpkgOrder(At(a)) - DpkgOrder(At(b))
       ELSE VerRevCmp(Tail(a), Tail(b))
  ELSE LET x == Span(Zeros(a), IsDigit)
           y == Span(Zeros(b), IsDigit)
       IN  IF Len(x[1]) # Len(y[1]) THEN Sign(Len(x[1]) - Len(y[1]))
           ELSE IF x[1] # y[1] THEN Lexical(x[1], y[1])
           ELSE VerRevCmp(x[2], y[2])

\* Epoch before the first colon, revision after the last dash.
Split(v, epochOf(_)) ==
  LET colons == {i \in DOMAIN v : v[i] = Colon}
      colon == CHOOSE i \in colons : \A j \in colons : i <= j
      rest == IF colons = {} THEN v ELSE SubSeq(v, colon + 1, Len(v))
      dashes == {i \in DOMAIN rest : rest[i] = Dash}
      dash == CHOOSE i \in dashes : \A j \in dashes : j <= i
  IN  [epoch |-> IF colons = {} THEN <<48>> ELSE epochOf(SubSeq(v, 1, colon - 1)),
       upstream |-> IF dashes = {} THEN rest ELSE SubSeq(rest, 1, dash - 1),
       revision |-> IF dashes = {} THEN <<>> ELSE SubSeq(rest, dash + 1, Len(rest))]

SplitDebian(v) == LET whole(e) == e IN Split(v, whole)

CompareDebian(a, b) ==
  LET x == SplitDebian(a)
      y == SplitDebian(b)
      epochs == CompareInt(x.epoch, y.epoch)
      upstreams == Sign(VerRevCmp(x.upstream, y.upstream))
  IN  IF epochs # 0 THEN epochs
      ELSE IF upstreams # 0 THEN upstreams
      ELSE Sign(VerRevCmp(x.revision, y.revision))

(***************************************************************************)
(* rpm                                                                     *)
(***************************************************************************)
\* rpm renders a missing epoch as "(none)" or as an empty field.
SplitRPM(v) == LET some(e) == IF e = <<>> THEN <<48>> ELSE e IN Split(v, some)

Separator(c) == ~IsDigit(c) /\ ~IsAlpha(c) /\ c # Tilde /\ c # Caret

RECURSIVE RpmSegments(_, _)
RpmSegments(s, t) ==
  LET a == Span(s, Separator)[2]
      b == Span(t, Separator)[2]
      kind(c) == IF IsDigit(At(a)) THEN IsDigit(c) ELSE IsAlpha(c)
      x == Span(a, kind)
      y == Span(b, kind)
      cut(seg) == IF IsDigit(At(a)) THEN Zeros(seg) ELSE seg
  IN  IF s = <<>> /\ t = <<>> THEN 0
      ELSE IF At(a) = Tilde \/ At(b) = Tilde
      THEN IF At(a) # Tilde THEN 1
           ELSE IF At(b) # Tilde THEN -1 ELSE RpmSegments(Tail(a), Tail(b))
      ELSE IF At(a) = Caret \/ At(b) = Caret
      THEN IF a = <<>> THEN -1 ELSE IF b = <<>> THEN 1
           ELSE IF At(a) # Caret THEN 1
           ELSE IF At(b) # Caret THEN -1 ELSE RpmSegments(Tail(a), Tail(b))
      ELSE IF a = <<>> \/ b = <<>>
      THEN IF a = b THEN 0 ELSE IF a = <<>> THEN -1 ELSE 1
      ELSE IF y[1] = <<>> THEN IF IsDigit(At(a)) THEN 1 ELSE -1
      ELSE IF IsDigit(At(a)) /\ Len(cut(x[1])) # Len(cut(y[1]))
      THEN Sign(Len(cut(x[1])) - Len(cut(y[1])))
      ELSE IF cut(x[1]) # cut(y[1]) THEN Lexical(cut(x[1]), cut(y[1]))
      ELSE RpmSegments(x[2], y[2])

RpmVerCmp(a, b) == IF a = b THEN 0 ELSE RpmSegments(a, b)

\* An absent release is equal to every release.
CompareRPM(a, b) ==
  LET x == SplitRPM(a)
      y == SplitRPM(b)
      epochs == CompareInt(x.epoch, y.epoch)
      versions == RpmVerCmp(x.upstream, y.upstream)
  IN  IF epochs # 0 THEN epochs
      ELSE IF versions # 0 THEN versions
      ELSE IF x.revision = <<>> \/ y.revision = <<>> THEN 0
      ELSE RpmVerCmp(x.revision, y.revision)

(***************************************************************************)
(* Every other distribution                                                *)
(***************************************************************************)
\* The runs of digits and of letters, and each tilde by itself.
RECURSIVE VersionSegments(_)
VersionSegments(v) ==
  IF v = <<>> THEN <<>>
  ELSE LET digits == Span(v, IsDigit)
           letters == Span(v, IsAlpha)
       IN  IF v[1] = Tilde THEN <<<<Tilde>>>> \o VersionSegments(Tail(v))
           ELSE IF IsDigit(v[1]) THEN <<digits[1]>> \o VersionSegments(digits[2])
           ELSE IF IsAlpha(v[1]) THEN <<letters[1]>> \o VersionSegments(letters[2])
           ELSE VersionSegments(Tail(v))

\* How two segments at one place compare; the empty one stands for none.
CompareSegment(x, y) ==
  IF x = y THEN 0
  ELSE IF x = <<Tilde>> THEN -1
  ELSE IF y = <<Tilde>> THEN 1
  ELSE IF IsNumeric(x) /\ IsNumeric(y) THEN CompareInt(x, y)
  ELSE IF x = <<>> THEN -1
  ELSE IF y = <<>> THEN 1
  ELSE Lexical(x, y)

CompareGeneric(a, b) ==
  LET x == VersionSegments(a)
      y == VersionSegments(b)
      places == 1..(IF Len(x) > Len(y) THEN Len(x) ELSE Len(y))
      seg(s, k) == IF k <= Len(s) THEN s[k] ELSE <<>>
      differ == {k \in places : CompareSegment(seg(x, k), seg(y, k)) # 0}
  IN  IF differ = {} THEN 0
      ELSE LET k == CHOOSE i \in differ : \A j \in differ : i <= j
           IN  CompareSegment(seg(x, k), seg(y, k))

\* The comparison each manager uses.
CompareBy(manager, a, b) ==
  IF manager = "apt-get" THEN CompareDebian(a, b)
  ELSE IF manager \in {"dnf", "yum", "zypper"} THEN CompareRPM(a, b)
  ELSE CompareGeneric(a, b)

=============================================================================
