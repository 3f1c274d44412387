------------------------- MODULE CreatePolicyProofs -------------------------
(* Theorems about CreatePolicy: for any users, links, bodies and bound of    *)
(* EvalSymlinks.                                                             *)
EXTENDS CreatePolicy, SequenceTheorems, FiniteSetTheorems, WellFoundedInduction, TLAPS

-----------------------------------------------------------------------------
(* Induction and recursion over the naturals, for sets and functions         *)

\* A set of natural numbers that is not empty has a least element.
LEMMA LeastNatural ==
  ASSUME NEW T \in SUBSET Nat, T # {}
  PROVE  \E n \in T : \A m \in T : n <= m
<1> DEFINE U == {0 .. t : t \in T}
<1>1. U \subseteq FiniteSubsetsOf(Nat)
  <2> SUFFICES ASSUME NEW t \in T PROVE 0 .. t \in FiniteSubsetsOf(Nat)
    OBVIOUS
  <2>1. t \in Int /\ 0 \in Int
    OBVIOUS
  <2>2. IsFiniteSet(0 .. t)
    BY <2>1, FS_Interval, Zenon
  <2>3. 0 .. t \subseteq Nat
    OBVIOUS
  <2>4. QED
    BY <2>2, <2>3 DEF FiniteSubsetsOf
<1>2. IsWellFoundedOn(StrictSubsetOrdering(Nat), FiniteSubsetsOf(Nat))
  BY FS_StrictSubsetOrderingWellFounded, Zenon
<1>3. U # {}
  OBVIOUS
<1>4. PICK x \in U : \A y \in U : ~(<<y, x>> \in StrictSubsetOrdering(Nat))
  BY <1>1, <1>2, <1>3, WFMin, Zenon
<1>5. PICK n \in T : x = 0 .. n
  OBVIOUS
<1>6. ASSUME NEW m \in T, m < n
      PROVE  FALSE
  <2>1. 0 .. m \in U
    OBVIOUS
  <2>2. /\ 0 .. m \in SUBSET Nat /\ 0 .. n \in SUBSET Nat
        /\ 0 .. m \subseteq 0 .. n /\ n \in 0 .. n /\ n \notin 0 .. m
    BY <1>6
  <2> HIDE DEF U
  <2>3. <<0 .. m, 0 .. n>> \in StrictSubsetOrdering(Nat)
    BY <2>2 DEF StrictSubsetOrdering
  <2>4. QED
    BY <2>1, <2>3, <1>4, <1>5
<1>7. QED
  BY <1>6

\* Induction over the natural numbers, for sets.
LEMMA NatSetInduction ==
  ASSUME NEW S, 0 \in S, \A n \in Nat : n \in S => n + 1 \in S
  PROVE  \A n \in Nat : n \in S
<1> SUFFICES ASSUME NEW k \in Nat, k \notin S PROVE FALSE
  OBVIOUS
<1> DEFINE T == {n \in Nat : n \notin S}
<1>1. T \in SUBSET Nat /\ T # {}
  OBVIOUS
<1>2. PICK n \in T : \A m \in T : n <= m
  <2> HIDE DEF T
  <2>1. QED BY <1>1, LeastNatural
<1>3. n # 0 /\ n - 1 \in Nat
  OBVIOUS
<1>4. n - 1 \notin S
  BY <1>3
<1>5. QED
  BY <1>2, <1>3, <1>4

\* A function given by its first value and by what each value makes of the last.
HaveValues(N, A, base, step) ==
  \E f \in [0 .. N -> A] :
    f[0] = base /\ \A n \in 1 .. N : f[n] = step[n][f[n - 1]]

\* What is defined from 0 upwards, a step at a time, is defined.
LEMMA StepsHaveValues ==
  ASSUME NEW N \in Nat, NEW A, NEW base \in A, NEW step \in [1 .. N -> [A -> A]]
  PROVE  HaveValues(N, A, base, step)
<1> DEFINE Upto(f, n) == /\ f \in [0 .. n -> A] /\ f[0] = base
                         /\ \A k \in 1 .. n : f[k] = step[k][f[k - 1]]
           T == {n \in Nat : n <= N => \E f : Upto(f, n)}
<1>1. 0 \in T
  <2>1. Upto([k \in 0 .. 0 |-> base], 0)
    OBVIOUS
  <2>2. QED
    BY <2>1
<1>2. ASSUME NEW n \in Nat, n \in T, n + 1 <= N
      PROVE  \E f : Upto(f, n + 1)
  <2>1. PICK f : Upto(f, n)
    BY <1>2
  <2> DEFINE g == [k \in 0 .. n + 1 |-> IF k = n + 1 THEN step[n + 1][f[n]] ELSE f[k]]
  <2>2. step[n + 1][f[n]] \in A
    BY <1>2, <2>1
  <2>3. g \in [0 .. n + 1 -> A] /\ g[0] = base
    BY <2>1, <2>2
  <2>4. ASSUME NEW k \in 1 .. n + 1
        PROVE  g[k] = step[k][g[k - 1]]
    <3>1. CASE k = n + 1
      BY <3>1
    <3>2. CASE k # n + 1
      <4>1. k \in 1 .. n /\ k - 1 \in 0 .. n
        BY <3>2
      <4>2. g[k] = f[k] /\ g[k - 1] = f[k - 1]
        BY <4>1
      <4>3. QED
        BY <2>1, <4>1, <4>2
    <3>3. QED
      BY <3>1, <3>2
  <2>5. QED
    BY <2>3, <2>4
<1>3. \A n \in Nat : n \in T => n + 1 \in T
  <2> HIDE DEF Upto
  <2>1. ASSUME NEW n \in Nat, n \in T, n + 1 <= N
        PROVE  \E f : Upto(f, n + 1)
    BY <1>2, <2>1
  <2>2. QED
    BY <2>1
<1> HIDE DEF T
<1>4. \A n \in Nat : n \in T
  BY <1>1, <1>3, NatSetInduction
<1>5. QED
  BY <1>4 DEF T, HaveValues

-----------------------------------------------------------------------------
(* paths.go                                                                 *)

\* filepath.Clean leaves neither "." nor ".." in a path.
LEMMA EnterNames ==
  ASSUME NEW done \in Seq(Names), NEW seg \in Segments
  PROVE  Enter(done, seg) \in Seq(Names)
<1>1. CASE seg = ".." /\ done # <<>>
  <2>1. Front(done) \in Seq(Names)
    BY <1>1 DEF Front
  <2>2. QED
    BY <1>1, <2>1 DEF Enter
<1>2. CASE seg \notin {".", ".."}
  BY <1>2 DEF Enter, Names
<1>3. QED
  BY <1>1, <1>2 DEF Enter

\* filepath.Clean takes one segment after the other.
LEMMA CleanBySegments ==
  ASSUME NEW p \in Seq(Segments)
  PROVE  \E f \in [0 .. Len(p) -> Seq(Names)] :
           /\ f[0] = <<>> /\ \A n \in 1 .. Len(p) : f[n] = Enter(f[n - 1], p[n])
           /\ Clean(p) = f[Len(p)]
<1> DEFINE N == Len(p)
           Is(f) == f = [n \in 0 .. N |-> IF n = 0 THEN <<>> ELSE Enter(f[n - 1], p[n])]
           step == [n \in 1 .. N |-> [d \in Seq(Names) |-> Enter(d, p[n])]]
<1>1. N \in Nat /\ <<>> \in Seq(Names)
  OBVIOUS
<1>2. step \in [1 .. N -> [Seq(Names) -> Seq(Names)]]
  <2>1. ASSUME NEW n \in 1 .. N, NEW d \in Seq(Names)
        PROVE  Enter(d, p[n]) \in Seq(Names)
    <3>1. p[n] \in Segments
      OBVIOUS
    <3>2. QED
      BY <3>1, EnterNames
  <2>2. QED
    BY <2>1
<1>3. PICK f \in [0 .. N -> Seq(Names)] :
        f[0] = <<>> /\ \A n \in 1 .. N : f[n] = step[n][f[n - 1]]
  <2> HIDE DEF N, step
  <2>1. HaveValues(N, Seq(Names), <<>>, step)
    BY <1>1, <1>2, StepsHaveValues, Zenon
  <2>2. QED
    BY <2>1 DEF HaveValues
<1>4. \A n \in 1 .. N : f[n] = Enter(f[n - 1], p[n])
  <2> SUFFICES ASSUME NEW n \in 1 .. N PROVE f[n] = Enter(f[n - 1], p[n])
    OBVIOUS
  <2>1. f[n - 1] \in Seq(Names)
    BY <1>1, <1>3
  <2>2. QED
    BY <1>3, <2>1
<1>5. Is(f)
  BY <1>1, <1>3, <1>4
<1> DEFINE g == CHOOSE g : Is(g)
<1>6. Is(g)
  BY <1>5
<1>7. Clean(p) = g[N]
  BY DEF Clean
<1> HIDE DEF g
<1>8. g[0] = <<>> /\ \A n \in 1 .. N : g[n] = Enter(g[n - 1], p[n])
  BY <1>1, <1>6
<1>9. \A n \in 0 .. N : g[n] \in Seq(Names)
  <2> DEFINE S == {n \in Nat : n <= N => g[n] \in Seq(Names)}
  <2>1. 0 \in S
    BY <1>1, <1>8
  <2>2. ASSUME NEW n \in Nat, n \in S
        PROVE  n + 1 \in S
    <3> SUFFICES ASSUME n + 1 <= N PROVE g[n + 1] \in Seq(Names)
      OBVIOUS
    <3>1. n + 1 \in 1 .. N /\ (n + 1) - 1 = n /\ g[n] \in Seq(Names)
      BY <1>1, <2>2
    <3>2. p[n + 1] \in Segments
      BY <3>1
    <3>3. g[n + 1] = Enter(g[n], p[n + 1])
      BY <1>8, <3>1
    <3>4. QED
      BY <3>1, <3>2, <3>3, EnterNames
  <2> HIDE DEF S
  <2>3. \A n \in Nat : n \in S
    BY <2>1, <2>2, NatSetInduction
  <2>4. QED
    BY <1>1, <2>3 DEF S
<1>10. g \in [0 .. N -> Seq(Names)]
  <2> HIDE DEF N
  <2>1. QED
    BY <1>6, <1>9
<1>11. QED
  BY <1>7, <1>8, <1>10

\* The result of filepath.Clean is a path of names.
LEMMA CleanIsClean ==
  ASSUME NEW p \in Seq(Segments)
  PROVE  Clean(p) \in Seq(Names)
<1>1. Len(p) \in 0 .. Len(p)
  OBVIOUS
<1>2. QED
  BY <1>1, CleanBySegments

\* The beginning of a sequence and the element after it.
LEMMA OneMore ==
  ASSUME NEW S, NEW s \in Seq(S), NEW n \in Nat, n + 1 <= Len(s)
  PROVE  Append(SubSeq(s, 1, n), s[n + 1]) = SubSeq(s, 1, n + 1)
<1> DEFINE v == SubSeq(s, 1, n)
           w == SubSeq(s, 1, n + 1)
<1>1. v \in Seq(S) /\ Len(v) = n /\ w \in Seq(S) /\ Len(w) = n + 1 /\ s[n + 1] \in S
  OBVIOUS
<1>2. (\A i \in 1 .. n : v[i] = s[i]) /\ \A i \in 1 .. n + 1 : w[i] = s[i]
  OBVIOUS
<1> HIDE DEF v, w
<1>3. Append(v, s[n + 1]) \in Seq(S) /\ Len(Append(v, s[n + 1])) = n + 1
  BY <1>1
<1>4. \A i \in 1 .. n + 1 : Append(v, s[n + 1])[i] = w[i]
  BY <1>1, <1>2
<1>5. Append(v, s[n + 1]) = w
  BY <1>1, <1>3, <1>4, SeqEqual
<1>6. QED
  BY <1>5 DEF v, w

\* What is clean stays as it is.
LEMMA CleanKeeps ==
  ASSUME NEW p \in Seq(Names)
  PROVE  Clean(p) = p
<1> DEFINE N == Len(p)
<1>1. p \in Seq(Segments) /\ N \in Nat
  BY DEF Names
<1>2. PICK f \in [0 .. N -> Seq(Names)] :
           /\ f[0] = <<>> /\ \A n \in 1 .. N : f[n] = Enter(f[n - 1], p[n])
           /\ Clean(p) = f[N]
  BY <1>1, CleanBySegments
<1> DEFINE S == {n \in Nat : n <= N => f[n] = SubSeq(p, 1, n)}
<1>3. 0 \in S
  BY <1>2
<1>4. ASSUME NEW n \in Nat, n \in S
      PROVE  n + 1 \in S
  <2> SUFFICES ASSUME n + 1 <= N PROVE f[n + 1] = SubSeq(p, 1, n + 1)
    OBVIOUS
  <2>1. n + 1 \in 1 .. N /\ (n + 1) - 1 = n /\ f[n] = SubSeq(p, 1, n)
    BY <1>1, <1>4
  <2>2. p[n + 1] \in Names
    BY <2>1
  <2>3. f[n + 1] = Append(SubSeq(p, 1, n), p[n + 1])
    BY <1>2, <2>1, <2>2 DEF Enter, Names
  <2>4. QED
    BY <1>1, <2>1, <2>3, OneMore
<1> HIDE DEF S
<1>5. \A n \in Nat : n \in S
  BY <1>3, <1>4, NatSetInduction
<1>6. f[N] = SubSeq(p, 1, N)
  BY <1>1, <1>5 DEF S
<1>7. QED
  BY <1>2, <1>6

\* What the user's links may be.
FileSystems == UNION {[L -> Targets] : L \in SUBSET UserLinks}

\* What EvalSymlinks may return.
Resolved(fs) == {p \in Seq(Segments) : Stops(fs, p) = {}} \cup {NoPath}

\* Taking a link leads from a path to a path.
LEMMA ThroughIsPath ==
  ASSUME NEW fs \in FileSystems, NEW q \in Seq(Segments), NEW k \in Stops(fs, q),
         SubSeq(q, 1, k) \in DOMAIN AllLinks(fs)
  PROVE  Through(fs, q, k) \in Seq(Segments)
<1>1. AllLinks(fs)[SubSeq(q, 1, k)] \in Seq(Segments)
  BY PolicyAssumption DEF FileSystems, AllLinks
<1>2. SubSeq(q, k + 1, Len(q)) \in Seq(Segments)
  BY DEF Stops
<1>3. QED
  BY <1>1, <1>2 DEF Through

\* A path that is interrupted anywhere is so at a first place.
LEMMA FirstStop ==
  ASSUME NEW fs, NEW q \in Seq(Segments), Stops(fs, q) # {}
  PROVE  Min(Stops(fs, q)) \in Stops(fs, q)
<1> DEFINE T == Stops(fs, q)
<1>1. T \in SUBSET Nat /\ T # {}
  BY DEF Stops
<1> HIDE DEF T
<1>2. \E n \in T : \A m \in T : n <= m
  BY <1>1, LeastNatural
<1>3. QED
  BY <1>2 DEF Min, T

\* EvalSymlinks returns a path without links, a path without links as it is, or
\* an error, and never leaves a set I of paths that following a link stays in.
LEMMA EvalSymlinksFrom ==
  ASSUME NEW fs \in FileSystems, NEW p \in Seq(Segments),
         NEW I \in SUBSET Seq(Segments),
         \A q \in I : \A k \in Stops(fs, q) :
           SubSeq(q, 1, k) \in DOMAIN AllLinks(fs) => Through(fs, q, k) \in I
  PROVE  /\ EvalSymlinks(fs, p) \in Resolved(fs)
         /\ Stops(fs, p) = {} => EvalSymlinks(fs, p) = p
         /\ p \in I => EvalSymlinks(fs, p) \in I \cup {NoPath}
<1> DEFINE Paths == Seq(Segments)
           A == {h \in [Paths -> Resolved(fs)] : \A q \in I : h[q] \in I \cup {NoPath}}
           Here(q) == SubSeq(q, 1, Min(Stops(fs, q)))
           Next1(q) == Through(fs, q, Min(Stops(fs, q)))
           Linked(q) == Here(q) \in DOMAIN AllLinks(fs)
           Hop(v, n) == [q \in Paths |->
                           IF Stops(fs, q) = {} THEN q
                           ELSE IF n > 0 /\ Linked(q) THEN v[Next1(q)] ELSE NoPath]
           Is(w) == w = [n \in 0 .. MaxHops |-> Hop(w[n - 1], n)]
           step == [n \in 1 .. MaxHops |-> [v \in A |-> Hop(v, n)]]
<1>1. ASSUME NEW q \in Paths, Stops(fs, q) # {}, Linked(q)
      PROVE  Next1(q) \in Paths
  BY <1>1, FirstStop, ThroughIsPath
<1>1i. ASSUME NEW q \in I, Stops(fs, q) # {}, Linked(q)
       PROVE  Next1(q) \in I
  BY <1>1i, FirstStop
<1>2. NoPath \in Resolved(fs) /\ \A q \in Paths : Stops(fs, q) = {} => q \in Resolved(fs)
  BY DEF Resolved
<1> DEFINE First == Hop(NoPath, 0)
<1>3. First \in A /\ \A v : Hop(v, 0) = First
  <2>1. \A v : Hop(v, 0) = [q \in Paths |-> IF Stops(fs, q) = {} THEN q ELSE NoPath]
    OBVIOUS
  <2> DEFINE F == [q \in Paths |-> IF Stops(fs, q) = {} THEN q ELSE NoPath]
  <2>2. F \in A
    BY <1>2
  <2> HIDE DEF F, A, Hop
  <2>3. \A v : Hop(v, 0) = F
    BY <2>1 DEF F
  <2>4. QED
    BY <2>2, <2>3
<1> USE PolicyAssumption
<1>4. ASSUME NEW n \in 1 .. MaxHops, NEW v \in A
      PROVE  Hop(v, n) \in A
  <2>1. Hop(v, n) \in [Paths -> Resolved(fs)]
    BY <1>1, <1>2
  <2>2. ASSUME NEW q \in I
        PROVE  Hop(v, n)[q] \in I \cup {NoPath}
    BY <1>1i, <2>2
  <2>3. QED
    BY <2>1, <2>2
<1>5. step \in [1 .. MaxHops -> [A -> A]]
  <2> HIDE DEF A, Hop
  <2>1. QED
    BY <1>4
<1>6. PICK f \in [0 .. MaxHops -> A] :
        f[0] = First /\ \A n \in 1 .. MaxHops : f[n] = step[n][f[n - 1]]
  <2>1. MaxHops \in Nat
    OBVIOUS
  <2> HIDE DEF A, First, step
  <2>2. HaveValues(MaxHops, A, First, step)
    BY <1>3, <1>5, <2>1, StepsHaveValues, Zenon
  <2>3. QED
    BY <2>2 DEF HaveValues
<1>7. Is(f)
  <2> HIDE DEF A, Hop, First
  <2>1. ASSUME NEW n \in 0 .. MaxHops
        PROVE  f[n] = Hop(f[n - 1], n)
    <3>1. CASE n = 0
      BY <1>3, <1>6, <3>1
    <3>2. CASE n # 0
      <4>1. n \in 1 .. MaxHops /\ n - 1 \in 0 .. MaxHops
        BY <3>2
      <4>2. f[n - 1] \in A
        BY <1>6, <4>1
      <4>3. QED
        BY <1>6, <4>1, <4>2
    <3>3. QED
      BY <3>1, <3>2
  <2>2. QED
    BY <1>6, <2>1
<1> DEFINE g == CHOOSE g : Is(g)
<1>8. Is(g)
  <2> HIDE DEF Is
  <2>1. QED
    BY <1>7, Zenon
<1>9. EvalSymlinks(fs, p) = g[MaxHops][p]
  BY DEF EvalSymlinks
<1> HIDE DEF g
<1>10. \A n \in 0 .. MaxHops : g[n] \in A
  <2> HIDE DEF A, Hop, First
  <2>1. g[0] = First
    BY <1>3, <1>8
  <2>2. \A n \in 1 .. MaxHops : g[n] = Hop(g[n - 1], n)
    BY <1>8
  <2> DEFINE S == {n \in Nat : n <= MaxHops => g[n] \in A}
  <2>3. 0 \in S
    BY <1>3, <2>1
  <2>4. ASSUME NEW n \in Nat, n \in S
        PROVE  n + 1 \in S
    <3> SUFFICES ASSUME n + 1 <= MaxHops PROVE g[n + 1] \in A
      OBVIOUS
    <3>1. n + 1 \in 1 .. MaxHops /\ (n + 1) - 1 = n /\ g[n] \in A
      BY <2>4
    <3>2. QED
      BY <1>4, <2>2, <3>1
  <2> HIDE DEF S
  <2>5. \A n \in Nat : n \in S
    BY <2>3, <2>4, NatSetInduction
  <2>6. QED
    BY <2>5 DEF S
<1>11. g[MaxHops] \in A
  <2> HIDE DEF A
  <2>1. QED
    BY <1>10
<1>12. Stops(fs, p) = {} => g[MaxHops][p] = p
  <2>1. g[MaxHops] = Hop(g[MaxHops - 1], MaxHops)
    <3> HIDE DEF Hop
    <3>1. QED
      BY <1>8
  <2>2. QED
    BY <2>1
<1>13. QED
  BY <1>9, <1>11, <1>12

\* EvalSymlinks returns a path without links or fails, and returns such a path
\* as it is.
LEMMA EvalSymlinksIs ==
  ASSUME NEW fs \in FileSystems, NEW p \in Seq(Segments)
  PROVE  /\ EvalSymlinks(fs, p) \in Resolved(fs)
         /\ Stops(fs, p) = {} => EvalSymlinks(fs, p) = p
  BY EvalSymlinksFrom, {} \in SUBSET Seq(Segments)

\* A path that leads all the way through directories consists of names.
LEMMA NothingStops ==
  ASSUME NEW fs, NEW p \in Seq(Segments), Stops(fs, p) = {}
  PROVE  p \in Seq(Names)
<1> SUFFICES ASSUME NEW k \in 1 .. Len(p) PROVE p[k] \in Names
  OBVIOUS
<1>1. SubSeq(p, 1, k) \in Seq(Names)
  BY PolicyAssumption DEF Stops
<1>2. Len(SubSeq(p, 1, k)) = k /\ SubSeq(p, 1, k)[k] = p[k]
  OBVIOUS
<1>3. QED
  BY <1>1, <1>2

\* ResolvePath of what it returned changes nothing.
LEMMA ResolveIsStable ==
  ASSUME NEW fs \in FileSystems, NEW p \in Seq(Segments)
  PROVE  /\ ResolvePath(fs, p) \in Seq(Names)
         /\ ResolvePath(fs, ResolvePath(fs, p)) = ResolvePath(fs, p)
<1>1. Clean(p) \in Seq(Names) /\ Clean(p) \in Seq(Segments)
  BY CleanIsClean DEF Names
<1>2. CASE EvalSymlinks(fs, Clean(p)) = NoPath
  BY <1>1, <1>2, CleanKeeps DEF ResolvePath
<1>3. CASE EvalSymlinks(fs, Clean(p)) # NoPath
  <2> DEFINE r == EvalSymlinks(fs, Clean(p))
  <2>1. r \in Seq(Segments) /\ Stops(fs, r) = {} /\ ResolvePath(fs, p) = r
    BY <1>1, <1>3, EvalSymlinksIs DEF Resolved, ResolvePath
  <2> HIDE DEF r
  <2>2. r \in Seq(Names)
    BY <2>1, NothingStops
  <2>3. Clean(r) = r /\ EvalSymlinks(fs, r) = r
    BY <2>1, <2>2, CleanKeeps, EvalSymlinksIs
  <2>4. r # NoPath
    BY <1>3 DEF r
  <2>5. QED
    BY <2>1, <2>2, <2>3, <2>4 DEF ResolvePath
<1>4. QED
  BY <1>2, <1>3

-----------------------------------------------------------------------------
(* create.go                                                                *)

\* validateAndRewriteBind and validateAndRewriteMount accept what they return,
\* and return it again.
LEMMA EntryIsStable ==
  ASSUME NEW fs \in FileSystems, NEW e \in Entries
  PROVE  /\ RewriteSource(fs, e) \in Entries
         /\ RewriteSource(fs, e).kind = e.kind
         /\ e.kind = "bind" => RewriteSource(fs, e).source = ResolvePath(fs, e.source)
         /\ RewriteSource(fs, RewriteSource(fs, e)) = RewriteSource(fs, e)
         /\ \A u : EntryStatus(fs, RewriteSource(fs, e), u) = EntryStatus(fs, e, u)
<1> DEFINE r == ResolvePath(fs, e.source)
           d == [kind |-> e.kind, source |-> r]
<1>1. r \in Seq(Segments) /\ ResolvePath(fs, r) = r
  <2>1. e.source \in Seq(Segments)
    BY DEF Entries
  <2>2. QED
    BY <2>1, ResolveIsStable DEF Names
<1> HIDE DEF r
<1>2. CASE e.kind = "bind"
  <2>1. RewriteSource(fs, e) = d
    BY <1>2 DEF RewriteSource, Entries, r
  <2>2. d \in Entries /\ d.kind = "bind" /\ d.source = r
    BY <1>1, <1>2 DEF Entries
  <2>3. RewriteSource(fs, d) = d
    BY <1>1, <2>2 DEF RewriteSource
  <2>4. \A u : EntryStatus(fs, d, u) = EntryStatus(fs, e, u)
    BY <1>1, <1>2, <2>2 DEF EntryStatus, r
  <2>5. QED
    BY <1>2, <2>1, <2>2, <2>3, <2>4 DEF r
<1>3. CASE e.kind # "bind"
  BY <1>3 DEF RewriteSource
<1>4. QED
  BY <1>2, <1>3

\* CheckCreate takes a body it has rewritten as it took the original, whoever
\* sends it, and leaves it as it is.
LEMMA RewrittenIsStable ==
  ASSUME NEW fs \in FileSystems, NEW b \in CreateBodies, NEW u \in STRING
  PROVE  /\ Rewritten(fs, b, u) \in CreateBodies
         /\ Rewritten(fs, Rewritten(fs, b, u), u) = Rewritten(fs, b, u)
         /\ \A v : Verdicts(fs, Rewritten(fs, b, u), v) = Verdicts(fs, b, v)
         /\ \A v : Status(fs, Rewritten(fs, b, u), v) = Status(fs, b, v)
<1> DEFINE es == b.entries
           rs == [i \in DOMAIN es |-> RewriteSource(fs, es[i])]
           c == [flaws |-> b.flaws, network |-> b.network, entries |-> rs,
                 endpoints |-> b.endpoints, labels |-> u]
<1>1. es \in Seq(Entries) /\ \A i \in DOMAIN es : es[i] \in Entries
  BY DEF CreateBodies
<1>2. Rewritten(fs, b, u) = c
  <2>1. Rewritten(fs, b, u) = [b EXCEPT !.entries = rs, !.labels = u]
    BY DEF Rewritten
  <2> HIDE DEF rs
  <2>2. QED
    BY <2>1 DEF CreateBodies
<1>3. rs \in Seq(Entries) /\ DOMAIN rs = DOMAIN es
  BY <1>1, EntryIsStable
<1>4. c \in CreateBodies
  BY <1>3 DEF CreateBodies
<1>5. \A i \in DOMAIN es : RewriteSource(fs, rs[i]) = rs[i]
  BY <1>1, EntryIsStable
<1>6. \A i \in DOMAIN es : \A v : EntryStatus(fs, rs[i], v) = EntryStatus(fs, es[i], v)
  BY <1>1, EntryIsStable
<1> HIDE DEF rs
<1>7. /\ c.flaws = b.flaws /\ c.network = b.network /\ c.entries = rs
      /\ c.endpoints = b.endpoints /\ c.labels = u /\ c \in CreateBodies
  BY <1>4
<1> HIDE DEF c
<1>8. Rewritten(fs, c, u) = c
  <2>1. [i \in DOMAIN rs |-> RewriteSource(fs, rs[i])] = rs
    BY <1>3, <1>5
  <2>2. Rewritten(fs, c, u)
          = [c EXCEPT !.entries = [i \in DOMAIN rs |-> RewriteSource(fs, rs[i])],
                      !.labels = u]
    BY <1>7 DEF Rewritten
  <2>3. [c EXCEPT !.entries = rs, !.labels = u] = c
    BY <1>7 DEF CreateBodies
  <2>4. QED
    BY <2>1, <2>2, <2>3
<1>9. \A v : Verdicts(fs, c, v) = Verdicts(fs, b, v)
  <2> TAKE v
  <2>1. EntryVerdicts(fs, c, v) = EntryVerdicts(fs, b, v)
    BY <1>3, <1>6, <1>7 DEF EntryVerdicts
  <2>2. \A flaw, code : OnFlaw(c, flaw, code) = OnFlaw(b, flaw, code)
    BY <1>7 DEF OnFlaw
  <2>3. FirstVerdicts(c, v) = FirstVerdicts(b, v)
    BY <1>7, <2>2 DEF FirstVerdicts
  <2>4. LastVerdicts(c, v) = LastVerdicts(b, v)
    BY <1>7, <2>2 DEF LastVerdicts
  <2>5. QED
    BY <2>1, <2>3, <2>4 DEF Verdicts
<1>10. \A v : Status(fs, c, v) = Status(fs, b, v)
  BY <1>9 DEF Status
<1>11. QED
  BY <1>2, <1>4, <1>8, <1>9, <1>10

\* What is accepted fails no check.
LEMMA NoFailure ==
  ASSUME NEW v \in Seq(Nat), FirstFailure(v) = 200
  PROVE  \A i \in 1 .. Len(v) : v[i] = 200
<1> DEFINE T == {i \in 1 .. Len(v) : v[i] # 200}
<1>1. T \in SUBSET Nat
  OBVIOUS
<1>2. FirstFailure(v) = LET bad == IF T # {} THEN Min(T) ELSE 0
                        IN IF bad = 0 THEN 200 ELSE v[bad]
  BY DEF FirstFailure, SelectInSeq
<1>3. ASSUME T # {}
      PROVE  FALSE
  <2>1. Min(T) \in T
    <3> HIDE DEF T
    <3>1. \E n \in T : \A m \in T : n <= m
      BY <1>1, <1>3, LeastNatural
    <3>2. QED
      BY <3>1 DEF Min
  <2> DEFINE m == Min(T)
  <2>2. m # 0 /\ v[m] # 200
    BY <2>1
  <2>3. FirstFailure(v) = v[m]
    BY <1>2, <1>3, <2>2
  <2>4. QED
    BY <2>2, <2>3
<1>4. QED
  BY <1>3

\* The elements of the three lists of verdicts put together.
LEMMA VerdictsJoin ==
  ASSUME NEW s \in Seq(Nat), NEW t \in Seq(Nat), NEW u \in Seq(Nat)
  PROVE  /\ s \o t \o u \in Seq(Nat) /\ Len(s \o t \o u) = Len(s) + Len(t) + Len(u)
         /\ \A i \in 1 .. Len(s) : (s \o t \o u)[i] = s[i]
         /\ \A i \in 1 .. Len(t) : (s \o t \o u)[Len(s) + i] = t[i]
         /\ \A i \in 1 .. Len(u) : (s \o t \o u)[Len(s) + Len(t) + i] = u[i]
<1> DEFINE w == s \o t
<1>1. Len(s) \in Nat /\ Len(t) \in Nat /\ Len(u) \in Nat
  OBVIOUS
<1>2. /\ w \in Seq(Nat) /\ Len(w) = Len(s) + Len(t)
      /\ \A i \in 1 .. Len(s) : w[i] = s[i]
      /\ \A i \in 1 .. Len(t) : w[Len(s) + i] = t[i]
  OBVIOUS
<1> HIDE DEF w
<1>3. /\ w \o u \in Seq(Nat) /\ Len(w \o u) = Len(w) + Len(u)
      /\ \A i \in 1 .. Len(w) : (w \o u)[i] = w[i]
      /\ \A i \in 1 .. Len(u) : (w \o u)[Len(w) + i] = u[i]
  <2>1. w \in Seq(Nat)
    BY <1>2
  <2>2. QED
    BY <2>1
<1>4. (\A i \in 1 .. Len(s) : i \in 1 .. Len(w))
      /\ \A i \in 1 .. Len(t) : Len(s) + i \in 1 .. Len(w)
  BY <1>1, <1>2
<1>5. QED
  BY <1>2, <1>3, <1>4 DEF w

\* A body that CheckCreate accepts has passed the check of every source and of
\* every network.
LEMMA AcceptedChecks ==
  ASSUME NEW fs, NEW b \in CreateBodies, NEW u, Status(fs, b, u) = 200
  PROVE  /\ \A i \in DOMAIN b.entries : EntryStatus(fs, b.entries[i], u) = 200
         /\ networkAllowedForUser(b.network, u)
         /\ \A n \in b.endpoints : networkAllowedForUser(n, u)
<1> DEFINE first == FirstVerdicts(b, u)
           entries == EntryVerdicts(fs, b, u)
           last == LastVerdicts(b, u)
           m == Len(b.entries)
<1>1. b.entries \in Seq(Entries) /\ m \in Nat /\ DOMAIN b.entries = 1 .. m
  BY DEF CreateBodies
<1>2. first \in Seq(Nat) /\ Len(first) = 11 /\ first[10] = Policy(networkAllowedForUser(b.network, u))
  BY DEF FirstVerdicts, OnFlaw, Policy
<1>3. /\ last \in Seq(Nat) /\ Len(last) = 3
      /\ last[3] = Policy(\A n \in b.endpoints : networkAllowedForUser(n, u))
  BY DEF LastVerdicts, OnFlaw, Policy
<1>4. entries \in Seq(Nat) /\ Len(entries) = m
      /\ \A i \in 1 .. m : entries[i] = EntryStatus(fs, b.entries[i], u)
  <2>1. ASSUME NEW i \in 1 .. m
        PROVE  EntryStatus(fs, b.entries[i], u) \in Nat
    <3>1. b.entries[i] \in Entries
      BY <1>1
    <3>2. QED
      BY <3>1 DEF EntryStatus, Entries
  <2>2. QED
    BY <1>1, <2>1 DEF EntryVerdicts
<1> HIDE DEF first, entries, last, m
<1> DEFINE v == first \o entries \o last
<1>5. /\ v \in Seq(Nat) /\ Len(v) = 14 + m
      /\ v[10] = first[10]
      /\ \A i \in 1 .. m : v[11 + i] = entries[i]
      /\ v[14 + m] = last[3]
  <2>1. /\ v \in Seq(Nat) /\ Len(v) = Len(first) + Len(entries) + Len(last)
        /\ \A i \in 1 .. Len(first) : v[i] = first[i]
        /\ \A i \in 1 .. Len(entries) : v[Len(first) + i] = entries[i]
        /\ \A i \in 1 .. Len(last) : v[Len(first) + Len(entries) + i] = last[i]
    <3>1. first \in Seq(Nat) /\ entries \in Seq(Nat) /\ last \in Seq(Nat)
      BY <1>2, <1>3, <1>4
    <3>2. QED
      BY <3>1, VerdictsJoin
  <2> HIDE DEF v
  <2>2. v[10] = first[10]
    BY <1>2, <2>1
  <2>3. \A i \in 1 .. m : v[11 + i] = entries[i]
    BY <1>2, <1>4, <2>1
  <2>4. v[11 + m + 3] = last[3]
    <3>1. Len(first) + Len(entries) + 3 = 11 + m + 3 /\ 3 \in 1 .. Len(last)
      BY <1>2, <1>3, <1>4
    <3>2. QED
      BY <2>1, <3>1
  <2>5. 11 + m + 3 = 14 + m
    BY <1>1
  <2>6. QED
    BY <1>2, <1>3, <1>4, <2>1, <2>2, <2>3, <2>4, <2>5
<1>6. FirstFailure(v) = 200
  BY DEF Status, Verdicts, first, entries, last
<1> HIDE DEF v
<1>7. \A i \in 1 .. 14 + m : v[i] = 200
  BY <1>5, <1>6, NoFailure
<1>8. first[10] = 200 /\ last[3] = 200
  <2>1. 10 \in 1 .. 14 + m /\ 14 + m \in 1 .. 14 + m
    BY <1>1
  <2>2. QED
    BY <1>5, <1>7, <2>1
<1>9. \A i \in 1 .. m : entries[i] = 200
  <2> TAKE i \in 1 .. m
  <2>1. 11 + i \in 1 .. 14 + m
    BY <1>1
  <2>2. QED
    BY <1>5, <1>7, <2>1
<1>10. QED
  BY <1>1, <1>2, <1>3, <1>4, <1>8, <1>9 DEF Policy

-----------------------------------------------------------------------------
(* The inductive invariant: what is forwarded is the body as CheckCreate     *)
(* rewrote it in the file system it saw, and users only change user links.   *)

MountedIn(fs, b) ==
  [i \in DOMAIN b.entries |->
     IF b.entries[i].kind = "bind" THEN EvalSymlinks(fs, b.entries[i].source) ELSE <<>>]

CreateInv ==
  /\ phase \in {"received", "forwarded", "refused", "mounted"}
  /\ user \in Users /\ body \in CreateBodies
  /\ links \in FileSystems /\ fsAtCheck \in FileSystems
  /\ phase \in {"forwarded", "mounted"} =>
       Status(fsAtCheck, body, user) = 200 /\ forwarded = Rewritten(fsAtCheck, body, user)
  /\ phase = "mounted" => mounted = MountedIn(links, forwarded)

\* The invariant holds of a body that has just been received,
LEMMA CreateInit == Init => CreateInv
  BY PolicyAssumption DEF Init, CreateInv, FileSystems

\* is kept by the check, the mount and every change of a link,
LEMMA CreateStep == CreateInv /\ [Next]_vars => CreateInv'
<1> SUFFICES ASSUME CreateInv, [Next]_vars
             PROVE  CreateInv'
  OBVIOUS
<1>1. CASE CheckCreate
  BY <1>1 DEF CheckCreate, CreateInv
<1>2. CASE Mount
  BY <1>2 DEF Mount, CreateInv, MountedIn
<1>3. ASSUME NEW p \in UserLinks, NEW t \in Targets, Relink(p, t)
      PROVE  CreateInv'
  <2>1. PICK L \in SUBSET UserLinks : links \in [L -> Targets]
    BY DEF CreateInv, FileSystems
  <2>2. links' \in [L \cup {p} -> Targets] /\ L \cup {p} \in SUBSET UserLinks
    BY <1>3, <2>1 DEF Relink
  <2>3. links' \in FileSystems
    BY <2>2 DEF FileSystems
  <2>4. QED
    BY <1>3, <2>3 DEF Relink, CreateInv
<1>4. ASSUME NEW p \in UserLinks, Unlink(p)
      PROVE  CreateInv'
  <2>1. PICK L \in SUBSET UserLinks : links \in [L -> Targets]
    BY DEF CreateInv, FileSystems
  <2>2. links' \in [L \ {p} -> Targets] /\ L \ {p} \in SUBSET UserLinks
    BY <1>4, <2>1 DEF Unlink
  <2>3. links' \in FileSystems
    BY <2>2 DEF FileSystems
  <2>4. QED
    BY <1>4, <2>3 DEF Unlink, CreateInv
<1>5. CASE UNCHANGED vars
  BY <1>5 DEF vars, CreateInv
<1>6. QED
  BY <1>1, <1>2, <1>3, <1>4, <1>5 DEF Next

\* and so holds always.
LEMMA CreateInvariant == Spec => []CreateInv
  BY CreateInit, CreateStep, PTL DEF Spec

-----------------------------------------------------------------------------
(* The theorems                                                             *)

\* A path that led through directories at the check still does, unless a link
\* has come in place of one of them; and then it no longer leads to itself.
LEMMA UnlessReplaced ==
  ASSUME CreateInv, NEW r \in Seq(Segments), Stops(fsAtCheck, r) = {}
  PROVE  EvalSymlinks(links, r) = r <=> ~Replaced(r)
<1> links \in FileSystems
  BY DEF CreateInv
<1>1. \A k \in 1 .. Len(r) :
        SubSeq(r, 1, k) \in Dirs /\ SubSeq(r, 1, k) \notin DOMAIN SystemLinks
  BY DEF Stops, AllLinks
<1>2. Stops(links, r) = {k \in 1 .. Len(r) : SubSeq(r, 1, k) \in DOMAIN links}
  BY <1>1 DEF Stops, AllLinks
<1>3. Stops(links, r) = {} <=> ~Replaced(r)
  BY <1>2 DEF Replaced
<1>4. ASSUME Stops(links, r) # {} PROVE EvalSymlinks(links, r) # r
  <2>1. r # NoPath
    BY PolicyAssumption DEF NoPath
  <2>2. QED
    BY <1>4, <2>1, EvalSymlinksIs DEF Resolved
<1>5. QED
  BY <1>3, <1>4, EvalSymlinksIs

\* The daemon mounts the directory that CheckCreate resolved and allowed, if it
\* was there at the check, just when no link has come in place of it or of a
\* directory above it since; links on the way the client wrote do not matter.
THEOREM MountsWhatWasValidatedHolds == Spec => []MountsWhatWasValidated
<1>1. CreateInv => MountsWhatWasValidated
  <2> SUFFICES ASSUME CreateInv, phase = "mounted", NEW i \in DOMAIN mounted, Existed(i)
               PROVE  /\ IsPathAllowed(fsAtCheck, Validated(i), user)
                      /\ mounted[i] = Validated(i) <=> ~Replaced(Validated(i))
    BY DEF MountsWhatWasValidated
  <2> DEFINE e == body.entries[i]
             r == ResolvePath(fsAtCheck, e.source)
  <2>1. /\ Status(fsAtCheck, body, user) = 200 /\ body \in CreateBodies
        /\ forwarded = Rewritten(fsAtCheck, body, user)
        /\ mounted = MountedIn(links, forwarded)
        /\ links \in FileSystems /\ fsAtCheck \in FileSystems
    BY DEF CreateInv
  <2>2. forwarded.entries = [j \in DOMAIN body.entries |->
                               RewriteSource(fsAtCheck, body.entries[j])]
    BY <2>1 DEF Rewritten, CreateBodies
  <2>3. i \in DOMAIN body.entries /\ forwarded.entries[i] = RewriteSource(fsAtCheck, e)
    BY <2>1, <2>2 DEF MountedIn
  <2>4. e \in Entries /\ e.kind = "bind" /\ EvalSymlinks(fsAtCheck, Clean(e.source)) # NoPath
    BY <2>1, <2>3 DEF CreateBodies, Existed
  <2>5. forwarded.entries[i].kind = "bind" /\ forwarded.entries[i].source = r
    BY <2>1, <2>3, <2>4, EntryIsStable
  <2>6. mounted[i] = EvalSymlinks(links, r)
    BY <2>1, <2>2, <2>3, <2>5 DEF MountedIn
  <2>7. r \in Seq(Segments) /\ Stops(fsAtCheck, r) = {}
    <3>1. e.source \in Seq(Segments)
      BY <2>4 DEF Entries
    <3>2. Clean(e.source) \in Seq(Segments)
      BY <3>1, CleanIsClean DEF Names
    <3>3. QED
      BY <2>1, <2>4, <3>2, EvalSymlinksIs DEF ResolvePath, Resolved
  <2>8. EvalSymlinks(links, r) = r <=> ~Replaced(r)
    BY <2>7, UnlessReplaced
  <2>9. EntryStatus(fsAtCheck, e, user) = 200
    BY <2>1, <2>3, AcceptedChecks
  <2>10. IsPathAllowed(fsAtCheck, r, user)
    BY <2>4, <2>9 DEF EntryStatus
  <2>11. QED
    BY <2>6, <2>8, <2>10 DEF Validated
<1>2. QED
  BY <1>1, CreateInvariant, PTL

\* CheckCreate accepts what it has rewritten, and leaves it as it is.
THEOREM RewriteIsStableHolds == Spec => []RewriteIsStable
<1>1. CreateInv => RewriteIsStable
  <2> SUFFICES ASSUME CreateInv, phase = "forwarded" PROVE RewriteIsStable
    BY DEF RewriteIsStable
  <2>1. user \in STRING
    BY PolicyAssumption DEF CreateInv
  <2>2. QED
    BY <2>1, RewrittenIsStable DEF CreateInv, RewriteIsStable
<1>2. QED
  BY <1>1, CreateInvariant, PTL

-----------------------------------------------------------------------------
(* What two users have in common                                            *)

\* What CheckCreate takes for granted of users and of the links in the file
\* system: names of sockets and networks say whose they are, users' links are in
\* /Users, no other link leads there or has the name of a socket.
UsersApart ==
  /\ "Workspaces" \notin Users
  /\ \A u, o \in Users : SockOf[u] = SockOf[o] \/ IsoNet[u] = IsoNet[o] => u = o
  /\ \A u \in Users : IsoNet[u] \notin {"", "default", "bridge"}
  /\ {"var", "run", "isolator-docker"} \subseteq Segments
  /\ \A u \in Users : SockOf[u] \in Segments
  /\ \A p \in UserLinks : p[1] = "Users"
  /\ \A p \in DOMAIN SystemLinks :
       /\ SystemLinks[p] # <<>> /\ SystemLinks[p][1] # "Users"
       /\ \A u \in Users : p[Len(p)] # SockOf[u]

\* Paths outside /Users that end in the name of u's socket.
SocketPaths(u) ==
  {q \in Seq(Segments) : q # <<>> /\ q[1] # "Users" /\ q[Len(q)] = SockOf[u]}

\* A link on the way to a user's socket leads to a path to that socket.
LEMMA SocketStays ==
  ASSUME UsersApart, NEW fs \in FileSystems, NEW u \in Users, NEW q \in SocketPaths(u),
         NEW k \in Stops(fs, q), SubSeq(q, 1, k) \in DOMAIN AllLinks(fs)
  PROVE  Through(fs, q, k) \in SocketPaths(u)
<1> DEFINE here == SubSeq(q, 1, k)
           rest == SubSeq(q, k + 1, Len(q))
           target == SystemLinks[here]
<1>1. q \in Seq(Segments) /\ Len(q) \in Nat /\ q[1] # "Users" /\ q[Len(q)] = SockOf[u]
  BY DEF SocketPaths
<1>2. k \in 1 .. Len(q)
  BY DEF Stops
<1>3. here \in Seq(Segments) /\ Len(here) = k /\ here[1] = q[1] /\ here[k] = q[k]
  BY <1>1, <1>2
<1>4. here \notin DOMAIN fs
  <2>1. DOMAIN fs \subseteq UserLinks
    BY DEF FileSystems
  <2> HIDE DEF here
  <2>2. QED
    BY <1>1, <1>3, <2>1 DEF UsersApart
<1>5. here \in DOMAIN SystemLinks /\ AllLinks(fs)[here] = target
  BY <1>4 DEF AllLinks
<1>6. k # Len(q)
  <2> HIDE DEF here
  <2>1. here[Len(here)] # SockOf[u]
    BY <1>5 DEF UsersApart
  <2>2. here[Len(here)] = q[k]
    BY <1>3
  <2>3. QED
    BY <1>1, <2>1, <2>2
<1>7. /\ rest \in Seq(Segments) /\ Len(rest) = Len(q) - k
      /\ rest[Len(q) - k] = q[Len(q)]
  <2>1. Len(q) - k \in 1 .. Len(q) - k
    BY <1>1, <1>2, <1>6
  <2>2. QED
    BY <1>1, <1>2, <1>6, <2>1
<1>8. target \in Seq(Segments) /\ target # <<>> /\ target[1] # "Users"
  <2> HIDE DEF here
  <2>1. QED
    BY <1>5, PolicyAssumption DEF UsersApart
<1>9. Through(fs, q, k) = target \o rest
  BY <1>5 DEF Through
<1> HIDE DEF here, rest, target
<1>10. /\ target \o rest \in Seq(Segments) /\ Len(target \o rest) = Len(target) + Len(rest)
       /\ \A i \in 1 .. Len(target) : (target \o rest)[i] = target[i]
       /\ \A i \in 1 .. Len(rest) : (target \o rest)[Len(target) + i] = rest[i]
  <2>1. target \in Seq(Segments) /\ rest \in Seq(Segments)
    BY <1>7, <1>8
  <2>2. QED
    BY <2>1
<1>11. Len(target) \in Nat \ {0}
  BY <1>8
<1>12. (target \o rest)[1] # "Users" /\ target \o rest # <<>>
  BY <1>8, <1>10, <1>11
<1>13. (target \o rest)[Len(target \o rest)] = SockOf[u]
  <2>1. Len(rest) \in 1 .. Len(rest)
    BY <1>1, <1>2, <1>6, <1>7
  <2>2. QED
    BY <1>1, <1>7, <1>10, <2>1
<1>14. QED
  BY <1>9, <1>10, <1>12, <1>13 DEF SocketPaths

\* What the path of a user's socket resolves to is named like that socket.
LEMMA SocketOf ==
  ASSUME UsersApart, NEW fs \in FileSystems, NEW u \in Users,
         NEW literal, literal = <<"var", "run", "isolator-docker", SockOf[u]>>
  PROVE  literal \in SocketPaths(u) /\ EvalSymlinks(fs, literal) \in SocketPaths(u) \cup {NoPath}
<1>1. literal \in SocketPaths(u)
  <2>1. /\ "var" \in Segments /\ "run" \in Segments /\ "isolator-docker" \in Segments
        /\ SockOf[u] \in Segments
    BY DEF UsersApart
  <2>2. literal \in Seq(Segments) /\ Len(literal) = 4
    BY <2>1
  <2>3. literal[1] = "var" /\ literal[4] = SockOf[u]
    OBVIOUS
  <2>4. literal # <<>> /\ literal[1] # "Users" /\ literal[Len(literal)] = SockOf[u]
    BY <2>2, <2>3
  <2>5. QED
    BY <2>2, <2>4 DEF SocketPaths
<1>2. SocketPaths(u) \in SUBSET Seq(Segments) /\ literal \in Seq(Segments)
  BY <1>1 DEF SocketPaths
<1>3. \A q \in SocketPaths(u) : \A k \in Stops(fs, q) :
        SubSeq(q, 1, k) \in DOMAIN AllLinks(fs) => Through(fs, q, k) \in SocketPaths(u)
  BY SocketStays
<1>4. QED
  BY <1>1, <1>2, <1>3, EvalSymlinksFrom, Zenon

\* The first three segments of a path.
LEMMA ThreeSegments ==
  ASSUME NEW S, NEW p \in Seq(S), NEW a, NEW b, NEW c, IsPrefix(<<a, b, c>>, p)
  PROVE  Len(p) >= 3 /\ p[1] = a /\ p[2] = b /\ p[3] = c
<1>1. Len(p) >= 3 /\ SubSeq(<<a, b, c>>, 1, 3) = SubSeq(p, 1, 3)
  BY DEF IsPrefix
<1>2. /\ SubSeq(p, 1, 3)[1] = p[1] /\ SubSeq(p, 1, 3)[2] = p[2] /\ SubSeq(p, 1, 3)[3] = p[3]
  BY <1>1
<1>3. LET t == SubSeq(<<a, b, c>>, 1, 3) IN t[1] = a /\ t[2] = b /\ t[3] = c
  OBVIOUS
<1>4. QED
  BY <1>1, <1>2, <1>3

\* Two users have two networks.
LEMMA NetworksApart ==
  ASSUME UsersApart, NEW u \in Users, NEW o \in Users, u # o
  PROVE  IsoNet[u] # IsoNet[o]
<1>1. \A v, w \in Users : IsoNet[v] = IsoNet[w] => v = w
  BY Zenon DEF UsersApart
<1>2. QED
  BY <1>1

\* A path is allowed for one user only.
LEMMA AllowedForOne ==
  ASSUME UsersApart, NEW fs \in FileSystems, NEW p \in Seq(Segments),
         NEW u \in Users, NEW o \in Users,
         IsPathAllowed(fs, p, u), IsPathAllowed(fs, p, o)
  PROVE  u = o
<1> DEFINE Home(v) == /\ p[1] = "Users"
                      /\ \/ p[2] = "Workspaces" /\ p[3] = v
                         \/ p[2] = v
<1>1. \A v \in Users : IsPathAllowed(fs, p, v) => Home(v) \/ p \in SocketPaths(v)
  <2> SUFFICES ASSUME NEW v \in Users, IsPathAllowed(fs, p, v)
               PROVE  Home(v) \/ p \in SocketPaths(v)
    OBVIOUS
  <2> DEFINE literal == <<"var", "run", "isolator-docker", SockOf[v]>>
  <2>1. \/ IsPrefix(<<"Users", "Workspaces", v>>, p)
        \/ IsPrefix(<<"Users", v, "tmp">>, p)
        \/ IsPrefix(<<"Users", v, ".isolator-docker-proxy">>, p)
        \/ p = literal
        \/ p = EvalSymlinks(fs, literal) /\ p # NoPath
    BY DEF IsPathAllowed
  <2>2. literal \in SocketPaths(v) /\ EvalSymlinks(fs, literal) \in SocketPaths(v) \cup {NoPath}
    BY SocketOf
  <2> HIDE DEF literal
  <2>3. CASE p = literal \/ (p = EvalSymlinks(fs, literal) /\ p # NoPath)
    BY <2>2, <2>3
  <2>4. CASE IsPrefix(<<"Users", "Workspaces", v>>, p)
    BY <2>4, ThreeSegments
  <2>5. CASE IsPrefix(<<"Users", v, "tmp">>, p)
    BY <2>5, ThreeSegments
  <2>6. CASE IsPrefix(<<"Users", v, ".isolator-docker-proxy">>, p)
    BY <2>6, ThreeSegments
  <2>7. QED
    BY <2>1, <2>3, <2>4, <2>5, <2>6
<1>2. CASE Home(u) /\ Home(o)
  <2>1. u # "Workspaces" /\ o # "Workspaces"
    BY DEF UsersApart
  <2>2. QED
    BY <1>2, <2>1
<1>3. CASE p \in SocketPaths(u) /\ p \in SocketPaths(o)
  BY <1>3 DEF SocketPaths, UsersApart
<1>4. \A v : ~(p \in SocketPaths(v) /\ p[1] = "Users")
  BY DEF SocketPaths
<1>5. QED
  BY <1>1, <1>2, <1>3, <1>4

\* What one user's proxy accepts with a bind mount or a per-user network, the
\* proxy of another user refuses.
THEOREM AcceptedForOneUserHolds ==
  ASSUME UsersApart
  PROVE  Spec => []AcceptedForOneUser
<1>1. CreateInv => AcceptedForOneUser
  <2> SUFFICES ASSUME CreateInv, phase = "forwarded", NEW other \in Users \ {user},
                      Status(fsAtCheck, forwarded, other) = 200
               PROVE  /\ \A i \in DOMAIN forwarded.entries : forwarded.entries[i].kind # "bind"
                      /\ IsoNet[user] \notin forwarded.endpoints \cup {forwarded.network}
    BY DEF AcceptedForOneUser
  <2>1. /\ Status(fsAtCheck, body, user) = 200 /\ body \in CreateBodies
        /\ forwarded = Rewritten(fsAtCheck, body, user)
        /\ fsAtCheck \in FileSystems /\ user \in Users
    BY DEF CreateInv
  <2>2. user \in STRING
    BY <2>1, PolicyAssumption
  <2>3. Status(fsAtCheck, body, other) = 200
    BY <2>1, <2>2, RewrittenIsStable
  <2>4. /\ forwarded.entries = [j \in DOMAIN body.entries |->
                                  RewriteSource(fsAtCheck, body.entries[j])]
        /\ forwarded.endpoints = body.endpoints /\ forwarded.network = body.network
    BY <2>1 DEF Rewritten, CreateBodies
  <2>5. ASSUME NEW i \in DOMAIN forwarded.entries, forwarded.entries[i].kind = "bind"
        PROVE  FALSE
    <3> DEFINE e == body.entries[i]
    <3>1. i \in DOMAIN body.entries /\ forwarded.entries[i] = RewriteSource(fsAtCheck, e)
      BY <2>4, <2>5
    <3>2. e \in Entries
      BY <2>1, <3>1 DEF CreateBodies
    <3>3. e.kind = "bind"
      BY <2>1, <2>5, <3>1, <3>2, EntryIsStable
    <3>4. EntryStatus(fsAtCheck, e, user) = 200 /\ EntryStatus(fsAtCheck, e, other) = 200
      BY <2>1, <2>3, <3>1, AcceptedChecks
    <3> DEFINE r == ResolvePath(fsAtCheck, e.source)
    <3>5. IsPathAllowed(fsAtCheck, r, user) /\ IsPathAllowed(fsAtCheck, r, other)
      BY <3>3, <3>4 DEF EntryStatus
    <3>6. r \in Seq(Segments)
      BY <2>1, <3>2, ResolveIsStable DEF Entries, Names
    <3> HIDE DEF r
    <3>7. QED
      BY <2>1, <3>5, <3>6, AllowedForOne
  <2>6. /\ networkAllowedForUser(body.network, other)
        /\ \A n \in body.endpoints : networkAllowedForUser(n, other)
    BY <2>1, <2>3, AcceptedChecks
  <2>7. ~networkAllowedForUser(IsoNet[user], other)
    <3>1. other \in Users /\ user # other
      OBVIOUS
    <3>2. IsoNet[user] # IsoNet[other]
      BY <2>1, <3>1, NetworksApart
    <3>3. IsoNet[user] \notin {"", "default", "bridge"}
      BY <2>1, Zenon DEF UsersApart
    <3>4. QED
      BY <3>2, <3>3 DEF networkAllowedForUser
  <2>8. QED
    BY <2>4, <2>5, <2>6, <2>7
<1>2. QED
  BY <1>1, CreateInvariant, PTL
=============================================================================
