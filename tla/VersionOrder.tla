---------------------------- MODULE VersionOrder ----------------------------
(* The versions of Vulnerabilities are ranks.  Here the comparison that the   *)
(* code takes for each manager's own, over the ways in which the versions of  *)
(* a host are written, is held against the ranks.                             *)
EXTENDS Vulnerabilities, Versions

CONSTANT Texts             \* manager -> version -> the ways it is written

\* The first place where two texts differ, or the start of the number it is in.
Fork(v, w) ==
  LET same == Max({n \in 0..Len(v) : n <= Len(w) /\ \A i \in 1..n : v[i] = w[i]})
  IN  Min({n \in 0..same : \A i \in (n + 1)..same : IsDigit(v[i])})

NumberAfter(v, n) == Span(SubSeq(v, n + 1, Len(v)), IsDigit)[1]

\* What tells two texts apart is a number of each, and not an epoch.
DifferInNumber(v, w) ==
  LET x == NumberAfter(v, Fork(v, w))
      y == NumberAfter(w, Fork(v, w))
  IN  /\ x # <<>> /\ y # <<>> /\ Zeros(x) # Zeros(y)
      /\ Colon \in ToSet(v) <=> Colon \in ToSet(w)

\* pacman's and apk's own orders are not implemented. The generic comparison
\* gives neither the suffixes that precede a release, nor an epoch, nor a package
\* release beside a longer version their place. All that is asked of it there is
\* to answer alike whichever side a version stands on.
OtherOrder(v, w) ==
  /\ manager \in {"pacman", "apk"}
  /\ v # w /\ ~DifferInNumber(v, w)
  /\ CompareBy(manager, v, w) = -CompareBy(manager, w, v)

\* Versions compare as dpkg and rpm order them, whichever side a version stands
\* on and whatever epoch, revision, tilde, caret, letter or leading zero it
\* carries, or a release candidate could pass for the fix of its release; as
\* pacman and apk order them where a number tells the versions apart
\* (app/pkgmgr/version.go). ComparatorFor "picks the version ordering a
\* distribution family actually uses", and CompareGeneric says that its tilde
\* "covers the pre-release convention every one of them happens to share";
\* OtherOrder is where that is not so: 1.0rc1 of Arch and 1.0_rc1 of Alpine come
\* out newer than 1.0.
VersionsAreOrdered ==
  manager # "none" =>
    \A m, n \in Present(host) : \A v \in Texts[manager][host[m]], w \in Texts[manager][host[n]] :
      \/ Sign(CompareBy(manager, v, w)) = Sign(host[m] - host[n])
      \/ OtherOrder(v, w)

=============================================================================
