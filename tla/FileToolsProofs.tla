-------------------------- MODULE FileToolsProofs --------------------------
(***************************************************************************)
(* For every file system, every request, and whatever sizes lines, blocks  *)
(* and the cap have: what Sandbox says of a path holds, whatever tools ran *)
(* before; a tool changes at most the file its path named; and what it     *)
(* reads, writes and reports is right.  In this order: walks through a     *)
(* file system, by induction on the links and names left; paths as texts,  *)
(* which tell where a path leads; the inductive invariant of the tools     *)
(* (IInv) and what each step does to it; and the properties.               *)
(***************************************************************************)
EXTENDS FileTools, SequenceTheorems, FiniteSetTheorems, WellFoundedInduction, TLAPS

(* A set of natural numbers has a least member.                            *)
LEMMA LeastNumber ==
  ASSUME NEW T \in SUBSET Nat, T # {}
  PROVE  \E n \in T : \A m \in T : n <= m
<1> DEFINE R == {ss \in Nat \X Nat : ss[1] < ss[2]}
<1>1. IsWellFoundedOn(R, Nat)
  BY NatLessThanWellFounded, Zenon DEF OpToRel
<1>2. PICK x \in T : \A y \in T : ~ (<<y, x>> \in R)
  BY <1>1, WFMin, Zenon
<1>3. x \in Nat /\ \A y \in T : y \in Nat
  OBVIOUS
<1>4. \A y \in T : x <= y
  <2> SUFFICES ASSUME NEW y \in T PROVE x <= y
    OBVIOUS
  <2>1. ~(<<y, x>> \in R)
    BY <1>2
  <2>2. ~(y < x)
    BY <1>3, <2>1
  <2> QED BY <1>3, <2>2
<1> QED BY <1>4

(* An onward step stays a way, and follows one link more or has one name   *)
(* less before it.                                                         *)
Ahead(f, w) == w.names # <<>> /\ ~Blocked(f, w)

LEMMA OnwardIsShorter ==
  ASSUME NEW fs1, IsTree(fs1), NEW w \in Way, Ahead(fs1, w)
  PROVE  LET v == Onward(fs1, w)
         IN v \in Way /\ (v.links < w.links \/ (v.links = w.links /\ Len(v.names) < Len(w.names)))
<1> DEFINE rest == Tail(w.names)
<1>1. /\ w.at \in Path /\ w.names \in Path /\ w.links \in Nat /\ w.names # <<>>
      /\ Head(w.names) \in Name /\ rest \in Path /\ Len(rest) < Len(w.names)
  BY HeadTailProperties DEF Way, Path, Ahead
<1>2. Below(w) \in Path
  BY <1>1 DEF Below, Path
<1>3. w.at # <<>> => Front(w.at) \in Path
  <2> HIDE DEF rest
  <2> QED BY <1>1, SubSeqProperties DEF Path, Front
<1>4. <<>> \in Path
  BY DEF Path
<1>5. CASE Head(w.names) \in {Dot, DotDot} \/ ~FollowsLink(fs1, w)
  <2>1. \E p \in Path : Onward(fs1, w) = [at |-> p, names |-> rest, links |-> w.links]
    BY <1>1, <1>2, <1>3, <1>4, <1>5 DEF Onward, FollowsLink
  <2> QED BY <2>1, <1>1 DEF Way
<1>6. CASE Head(w.names) \notin {Dot, DotDot} /\ FollowsLink(fs1, w)
  <2>1. fs1[Below(w)].to \in Path /\ w.links # 0
    BY <1>6, <1>2 DEF FollowsLink, IsTree, LinkAt, Ahead, Blocked
  <2>2. fs1[Below(w)].to \o rest \in Path
    BY <1>1, <2>1 DEF Path
  <2>3. \E p \in Path : Onward(fs1, w) =
           [at |-> p, names |-> fs1[Below(w)].to \o rest, links |-> w.links - 1]
    BY <1>1, <1>4, <1>6 DEF Onward
  <2> QED BY <2>1, <2>2, <2>3, <1>1 DEF Way
<1> QED BY <1>5, <1>6

(* Induction along walks: a set of ways that has every way whose onward    *)
(* step it has, and every way that ends, is the set of all.                *)
LEMMA WayInduction ==
  ASSUME NEW fs1, IsTree(fs1), NEW S,
         \A w \in Way : (Ahead(fs1, w) => Onward(fs1, w) \in S) => w \in S
  PROVE  \A w \in Way : w \in S
<1> SUFFICES ASSUME NEW w0 \in Way, w0 \notin S PROVE FALSE
  OBVIOUS
<1> DEFINE T == {w \in Way : w \notin S}
           L == {w.links : w \in T}
<1>1. L \in SUBSET Nat /\ L # {}
  BY DEF Way
<1>2. PICK l \in L : \A m \in L : l <= m
  BY <1>1, LeastNumber
<1> DEFINE N == {Len(w.names) : w \in {u \in T : u.links = l}}
<1>3. \A w \in Way : w.links \in Nat /\ Len(w.names) \in Nat
  BY DEF Way, Path
<1>4. N \in SUBSET Nat
  BY <1>3
<1>5. N # {}
  <2>1. PICK w \in T : w.links = l
    BY <1>2
  <2>2. Len(w.names) \in N
    BY <2>1
  <2> QED BY <2>2
<1>6. PICK n \in N : \A m \in N : n <= m
  BY <1>4, <1>5, LeastNumber
<1>7. PICK w \in T : w.links = l /\ Len(w.names) = n
  BY <1>6
<1>8. Ahead(fs1, w) /\ Onward(fs1, w) \notin S
  BY <1>7
<1> DEFINE v == Onward(fs1, w)
<1>9. v \in Way /\ (v.links < w.links \/ (v.links = w.links /\ Len(v.names) < Len(w.names)))
  BY <1>7, <1>8, OnwardIsShorter
<1>10. v \in T
  BY <1>8, <1>9
<1> HIDE DEF v
<1>11. v.links \in L /\ (v.links = l => Len(v.names) \in N)
  BY <1>10
<1>12. l \in Nat /\ l <= v.links /\ v.links \in Nat
  BY <1>1, <1>2, <1>3, <1>9, <1>11
<1>13. v.links = l => n \in Nat /\ Len(v.names) \in Nat /\ n <= Len(v.names)
  BY <1>3, <1>4, <1>6, <1>9, <1>11
<1> QED BY <1>7, <1>9, <1>12, <1>13

(* The equation of Walk on a set of ways that the onward steps do not      *)
(* leave: it has one solution, so the recursive function exists.           *)
Closed(f, D) == D \subseteq Way /\ \A w \in D : Ahead(f, w) => Onward(f, w) \in D
Value(f, g, w) == IF w.names = <<>> THEN w.at
                  ELSE IF Blocked(f, w) THEN NoPath ELSE g[Onward(f, w)]
Solves(f, D, g) == Closed(f, D) /\ \A w \in D : g[w] = Value(f, g, w)

LEMMA SolutionsAgree ==
  ASSUME NEW fs1, IsTree(fs1), NEW D1, NEW g1, Solves(fs1, D1, g1), NEW D2, NEW g2, Solves(fs1, D2, g2)
  PROVE  \A w \in D1 \cap D2 : g1[w] = g2[w]
<1> DEFINE S == {w \in Way : w \in D1 \cap D2 => g1[w] = g2[w]}
<1>1. ASSUME NEW w \in Way, Ahead(fs1, w) => Onward(fs1, w) \in S
      PROVE  w \in S
  <2> SUFFICES ASSUME w \in D1 \cap D2 PROVE g1[w] = g2[w]
    OBVIOUS
  <2>1. CASE Ahead(fs1, w)
    BY <1>1, <2>1 DEF Solves, Closed, Value, Ahead
  <2>2. CASE ~Ahead(fs1, w)
    BY <2>2 DEF Solves, Value, Ahead
  <2> QED BY <2>1, <2>2
<1> HIDE DEF S
<1>2. \A w \in Way : w \in S
  BY <1>1, WayInduction
<1> QED BY <1>2 DEF S, Solves, Closed

LEMMA SolutionExists ==
  ASSUME NEW fs1, IsTree(fs1)
  PROVE  \A w \in Way : \E D, g : w \in D /\ Solves(fs1, D, g)
<1> DEFINE S == {w \in Way : \E D, g : w \in D /\ Solves(fs1, D, g)}
<1>1. ASSUME NEW w \in Way, Ahead(fs1, w) => Onward(fs1, w) \in S
      PROVE  w \in S
  <2>1. CASE ~Ahead(fs1, w)
    <3> DEFINE h == [u \in {w} |-> IF w.names = <<>> THEN w.at ELSE NoPath]
    <3>1. Solves(fs1, {w}, h)
      BY <2>1 DEF Solves, Closed, Value, Ahead
    <3> HIDE DEF h
    <3> QED BY <3>1
  <2>2. CASE Ahead(fs1, w)
    <3>1. PICK D, g : Onward(fs1, w) \in D /\ Solves(fs1, D, g)
      BY <1>1, <2>2
    <3> DEFINE E == D \cup {w}
               h == [u \in E |-> IF u = w THEN g[Onward(fs1, w)] ELSE g[u]]
    <3>2. Closed(fs1, E)
      BY <2>2, <3>1 DEF Solves, Closed
    <3>3. \A u \in D : h[u] = g[u]
      <4>1. w \in D => g[w] = g[Onward(fs1, w)]
        BY <2>2, <3>1 DEF Solves, Value, Ahead
      <4> QED BY <4>1
    <3>4. h[w] = g[Onward(fs1, w)]
      OBVIOUS
    <3> HIDE DEF h
    <3>5. \A u \in E : h[u] = Value(fs1, h, u)
      <4> SUFFICES ASSUME NEW u \in E PROVE h[u] = Value(fs1, h, u)
        OBVIOUS
      <4>1. CASE u \in D
        <5>1. g[u] = Value(fs1, g, u) /\ (Ahead(fs1, u) => Onward(fs1, u) \in D)
          BY <3>1, <4>1 DEF Solves, Closed
        <5> QED BY <3>3, <4>1, <5>1 DEF Value, Ahead
      <4>2. CASE u = w
        BY <2>2, <3>1, <3>3, <3>4, <4>2 DEF Value, Ahead
      <4> QED BY <4>1, <4>2
    <3>6. w \in E /\ Solves(fs1, E, h)
      BY <3>2, <3>5 DEF Solves
    <3> QED BY <3>6
  <2> QED BY <2>1, <2>2
<1> HIDE DEF S
<1>2. \A w \in Way : w \in S
  BY <1>1, WayInduction
<1> QED BY <1>2 DEF S

LEMMA WalkSolves ==
  ASSUME NEW fs1, IsTree(fs1)
  PROVE  \A w \in Way : Walk(fs1)[w] = Value(fs1, Walk(fs1), w)
<1> DEFINE Yields(w, v) == \E D, g : w \in D /\ Solves(fs1, D, g) /\ v = g[w]
           f == [w \in Way |-> CHOOSE v : Yields(w, v)]
           Eq(g) == g = [w \in Way |-> Value(fs1, g, w)]
<1>1. ASSUME NEW D, NEW g, Solves(fs1, D, g), NEW w \in D
      PROVE  f[w] = g[w]
  <2>1. w \in Way /\ Yields(w, g[w])
    BY <1>1 DEF Solves, Closed
  <2>2. PICK D2, g2 : w \in D2 /\ Solves(fs1, D2, g2) /\ f[w] = g2[w]
    BY <2>1
  <2> QED BY <1>1, <2>2, SolutionsAgree
<1>2. \A w \in Way : f[w] = Value(fs1, f, w)
  <2> SUFFICES ASSUME NEW w \in Way PROVE f[w] = Value(fs1, f, w)
    OBVIOUS
  <2>1. PICK D, g : w \in D /\ Solves(fs1, D, g)
    BY SolutionExists
  <2> HIDE DEF f
  <2>2. f[w] = g[w] /\ (Ahead(fs1, w) => f[Onward(fs1, w)] = g[Onward(fs1, w)])
    BY <1>1, <2>1 DEF Solves, Closed
  <2>3. g[w] = Value(fs1, g, w)
    BY <2>1 DEF Solves
  <2> QED BY <2>2, <2>3 DEF Value, Ahead
<1>3. Eq(f)
  <2>1. f = [w \in Way |-> f[w]]
    OBVIOUS
  <2> HIDE DEF f
  <2>2. [w \in Way |-> f[w]] = [w \in Way |-> Value(fs1, f, w)]
    BY <1>2
  <2> QED BY <2>1, <2>2
<1> HIDE DEF f
<1>4. Walk(fs1) = CHOOSE g : Eq(g)
  BY DEF Walk, Value
<1>5. Eq(Walk(fs1))
  BY <1>3, <1>4
<1>6. \A w \in Way : [u \in Way |-> Value(fs1, Walk(fs1), u)][w] = Value(fs1, Walk(fs1), w)
  OBVIOUS
<1> HIDE DEF Eq
<1>7. Walk(fs1) = [u \in Way |-> Value(fs1, Walk(fs1), u)]
  BY <1>5 DEF Eq
<1> QED BY <1>6, <1>7

-----------------------------------------------------------------------------
(* Sequences, taken apart at a place.                                      *)
LEMMA Joined ==
  ASSUME NEW S, NEW s \in Seq(S), NEW t \in Seq(S), t # <<>>
  PROVE  /\ s \o t = Append(s, Head(t)) \o Tail(t)
         /\ Len(s) + 1 \in 1 .. Len(s \o t)
         /\ (s \o t)[Len(s) + 1] = Head(t)
         /\ SubSeq(s \o t, 1, Len(s)) = s
         /\ SubSeq(s \o t, 1, Len(s) + 1) = Append(s, Head(t))
<1>1. /\ Head(t) \in S /\ Tail(t) \in Seq(S) /\ Len(t) \in Nat /\ Len(t) >= 1 /\ Len(s) \in Nat
      /\ Head(t) = t[1]
      /\ Len(Tail(t)) = Len(t) - 1 /\ \A i \in 1 .. Len(Tail(t)) : Tail(t)[i] = t[i + 1]
  BY HeadTailProperties, EmptySeq, LenProperties
<1>2. /\ s \o t \in Seq(S) /\ Len(s \o t) = Len(s) + Len(t)
      /\ \A i \in 1 .. Len(s) + Len(t) : (s \o t)[i] = IF i <= Len(s) THEN s[i] ELSE t[i - Len(s)]
  BY ConcatProperties
<1> DEFINE a == Append(s, Head(t))
<1>3. /\ a \in Seq(S) /\ Len(a) = Len(s) + 1 /\ a[Len(s) + 1] = Head(t)
      /\ \A i \in 1 .. Len(s) : a[i] = s[i]
  BY <1>1, AppendProperties
<1> HIDE DEF a
<1>4. /\ a \o Tail(t) \in Seq(S) /\ Len(a \o Tail(t)) = Len(s) + Len(t)
      /\ \A i \in 1 .. Len(s) + Len(t) :
            (a \o Tail(t))[i] = IF i <= Len(s) + 1 THEN a[i] ELSE Tail(t)[i - (Len(s) + 1)]
  <2>1. /\ a \o Tail(t) \in Seq(S) /\ Len(a \o Tail(t)) = Len(a) + Len(Tail(t))
        /\ \A i \in 1 .. Len(a) + Len(Tail(t)) :
              (a \o Tail(t))[i] = IF i <= Len(a) THEN a[i] ELSE Tail(t)[i - Len(a)]
    BY <1>1, <1>3, ConcatProperties
  <2>2. Len(a) + Len(Tail(t)) = Len(s) + Len(t)
    BY <1>1, <1>3
  <2> QED BY <1>3, <2>1, <2>2
<1>5. s \o t = a \o Tail(t)
  <2>1. \A i \in 1 .. Len(s) + Len(t) : (s \o t)[i] = (a \o Tail(t))[i]
    BY <1>1, <1>2, <1>3, <1>4
  <2> QED BY <1>2, <1>4, <2>1, SeqEqual
<1>6. ASSUME NEW r \in Seq(S), NEW u \in Seq(S), NEW v \in Seq(S), u = r \o v
      PROVE  SubSeq(u, 1, Len(r)) = r
  <2>1. Len(r) \in Nat /\ Len(v) \in Nat /\ \A i \in 1 .. Len(r) : u[i] = r[i] /\ r[i] \in S
    BY <1>6, ConcatProperties, LenProperties
  <2>2. /\ SubSeq(u, 1, Len(r)) \in Seq(S) /\ Len(SubSeq(u, 1, Len(r))) = Len(r)
        /\ \A i \in 1 .. Len(r) : SubSeq(u, 1, Len(r))[i] = u[i]
    BY <2>1, SubSeqProperties
  <2> QED BY <2>1, <2>2, SeqEqual
<1>7. SubSeq(s \o t, 1, Len(s)) = s /\ SubSeq(s \o t, 1, Len(a)) = a
  BY <1>1, <1>2, <1>3, <1>5, <1>6
<1>8. Len(s) + 1 \in 1 .. Len(s \o t) /\ (s \o t)[Len(s) + 1] = Head(t)
  BY <1>1, <1>2
<1> QED BY <1>3, <1>5, <1>7, <1>8 DEF a

LEMMA ConcatHeadTail ==
  ASSUME NEW S, NEW s \in Seq(S), NEW t \in Seq(S), s # <<>>
  PROVE  s \o t # <<>> /\ Head(s \o t) = Head(s) /\ Tail(s \o t) = Tail(s) \o t
<1>1. /\ Head(s) \in S /\ Tail(s) \in Seq(S) /\ Len(s) \in Nat /\ Len(s) >= 1 /\ Len(t) \in Nat
      /\ Head(s) = s[1] /\ Len(Tail(s)) = Len(s) - 1
      /\ \A i \in 1 .. Len(Tail(s)) : Tail(s)[i] = s[i + 1]
  BY HeadTailProperties, EmptySeq, LenProperties
<1> DEFINE u == s \o t
<1>2. /\ u \in Seq(S) /\ Len(u) = Len(s) + Len(t)
      /\ \A i \in 1 .. Len(s) + Len(t) : u[i] = IF i <= Len(s) THEN s[i] ELSE t[i - Len(s)]
  BY ConcatProperties
<1> HIDE DEF u
<1>3. u # <<>> /\ Head(u) = s[1]
  <2>1. u # <<>>
    BY <1>1, <1>2, EmptySeq
  <2> QED BY <1>1, <1>2, <2>1
<1>4. /\ Tail(u) \in Seq(S) /\ Len(Tail(u)) = Len(u) - 1
      /\ \A i \in 1 .. Len(Tail(u)) : Tail(u)[i] = u[i + 1]
  BY <1>2, <1>3, HeadTailProperties
<1>5. /\ Tail(s) \o t \in Seq(S) /\ Len(Tail(s) \o t) = Len(Tail(s)) + Len(t)
      /\ \A i \in 1 .. Len(Tail(s)) + Len(t) :
            (Tail(s) \o t)[i] = IF i <= Len(Tail(s)) THEN Tail(s)[i] ELSE t[i - Len(Tail(s))]
  BY <1>1, ConcatProperties
<1>6. \A i \in 1 .. Len(Tail(u)) : Tail(u)[i] = (Tail(s) \o t)[i]
  BY <1>1, <1>2, <1>4, <1>5
<1>7. Tail(u) = Tail(s) \o t
  BY <1>1, <1>2, <1>4, <1>5, <1>6, SeqEqual
<1> QED BY <1>1, <1>3, <1>7 DEF u

(* A sequence is its first members and its last one.                       *)
LEMMA FrontLast ==
  ASSUME NEW S, NEW s \in Seq(S), s # <<>>
  PROVE  /\ Front(s) \in Seq(S) /\ Last(s) \in S /\ s = Append(Front(s), Last(s))
         /\ Len(Front(s)) = Len(s) - 1 /\ Len(s) \in Nat /\ Len(s) >= 1
         /\ s = Front(s) \o <<Last(s)>>
<1>1. PICK r \in Seq(S), e \in S : s = Append(r, e)
  BY SequenceEmptyOrAppend
<1>2. /\ Len(s) = Len(r) + 1 /\ s[Len(r) + 1] = e /\ Len(r) \in Nat
      /\ \A i \in 1 .. Len(r) : s[i] = r[i]
  BY <1>1, AppendProperties, LenProperties
<1>3. Front(s) = r
  <2>1. \A i \in 1 .. Len(r) : s[i] \in S /\ r[i] \in S
    BY <1>2, LenProperties
  <2>2. /\ SubSeq(s, 1, Len(r)) \in Seq(S) /\ Len(SubSeq(s, 1, Len(r))) = Len(r)
        /\ \A i \in 1 .. Len(r) : SubSeq(s, 1, Len(r))[i] = s[i]
    BY <1>2, <2>1, SubSeqProperties
  <2>3. SubSeq(s, 1, Len(r)) = r
    BY <1>2, <2>2, SeqEqual
  <2> QED BY <1>2, <2>3 DEF Front
<1>4. Last(s) = e
  BY <1>2 DEF Last
<1> QED BY <1>1, <1>2, <1>3, <1>4, AppendIsConcat

-----------------------------------------------------------------------------
(* What an onward step is, name by name, and what a walk is, step by step. *)
Go(place, names, links) == [at |-> place, names |-> names, links |-> links]

LEMMA OnwardSteps ==
  ASSUME NEW fs1, NEW w
  PROVE  /\ Head(w.names) = Dot => Onward(fs1, w) = Go(w.at, Tail(w.names), w.links)
         /\ Head(w.names) = DotDot =>
               Onward(fs1, w) = Go(IF w.at = <<>> THEN <<>> ELSE Front(w.at), Tail(w.names), w.links)
         /\ FollowsLink(fs1, w) =>
               Onward(fs1, w) = Go(IF fs1[Below(w)].absolute THEN <<>> ELSE w.at,
                                   fs1[Below(w)].to \o Tail(w.names), w.links - 1)
         /\ Head(w.names) \notin {Dot, DotDot} /\ ~FollowsLink(fs1, w) =>
               Onward(fs1, w) = Go(Below(w), Tail(w.names), w.links)
<1>1. Dot # DotDot
  BY DEF Dot, DotDot
<1>2. FollowsLink(fs1, w) => Head(w.names) \notin {Dot, DotDot}
  BY DEF FollowsLink
<1> QED BY <1>1, <1>2, Zenon DEF Onward, Go

LEMMA Ways ==
  /\ \A a, n \in Path, l \in Nat : Go(a, n, l) \in Way
  /\ \A a, n, l : Go(a, n, l).at = a /\ Go(a, n, l).names = n /\ Go(a, n, l).links = l
  /\ \A w \in Way : w = Go(w.at, w.names, w.links) /\ w.at \in Path /\ w.names \in Path /\ w.links \in Nat
  /\ <<>> \in Path
BY DEF Way, Go, Path

LEMMA WalkSteps ==
  ASSUME NEW fs1, IsTree(fs1), NEW w \in Way
  PROVE  /\ w.names = <<>> => Walk(fs1)[w] = w.at
         /\ w.names # <<>> /\ Blocked(fs1, w) => Walk(fs1)[w] = NoPath
         /\ Ahead(fs1, w) => Onward(fs1, w) \in Way /\ Walk(fs1)[w] = Walk(fs1)[Onward(fs1, w)]
BY WalkSolves, OnwardIsShorter DEF Value, Ahead

(* A path that names no link, and every name of which is looked up in a    *)
(* directory.                                                              *)
PlainTo(f, p, i) ==
    p[i] \notin {Dot, DotDot} /\ DirectoryAt(f, SubSeq(p, 1, i - 1)) /\ ~LinkAt(f, SubSeq(p, 1, i))
Plain(f, p) == p \in Path /\ \A i \in 1 .. Len(p) : PlainTo(f, p, i)

LEMMA PlainEmpty == ASSUME NEW fs1 PROVE Plain(fs1, <<>>)
BY DEF Plain, Path

LEMMA PlainAppend ==
  ASSUME NEW fs1, NEW p \in Path, NEW n \in Name
  PROVE  Plain(fs1, Append(p, n)) <=>
           Plain(fs1, p) /\ n \notin {Dot, DotDot} /\ DirectoryAt(fs1, p) /\ ~LinkAt(fs1, Append(p, n))
<1> DEFINE a == Append(p, n)
<1>1. /\ a \in Path /\ Len(a) = Len(p) + 1 /\ a[Len(p) + 1] = n /\ Len(p) \in Nat
      /\ \A i \in 1 .. Len(p) : a[i] = p[i]
  BY AppendProperties, LenProperties DEF Path
<1>2. \A k \in 0 .. Len(p) : SubSeq(a, 1, k) = SubSeq(p, 1, k)
  <2> SUFFICES ASSUME NEW k \in 0 .. Len(p) PROVE SubSeq(a, 1, k) = SubSeq(p, 1, k)
    OBVIOUS
  <2>1. \A i \in 1 .. k : a[i] = p[i] /\ a[i] \in Name /\ p[i] \in Name
    BY <1>1, LenProperties DEF Path
  <2> HIDE DEF a
  <2>2. /\ SubSeq(a, 1, k) \in Seq(Name) /\ Len(SubSeq(a, 1, k)) = k
        /\ \A i \in 1 .. k : SubSeq(a, 1, k)[i] = a[i]
    BY <1>1, <2>1, SubSeqProperties
  <2>3. /\ SubSeq(p, 1, k) \in Seq(Name) /\ Len(SubSeq(p, 1, k)) = k
        /\ \A i \in 1 .. k : SubSeq(p, 1, k)[i] = p[i]
    BY <1>1, <2>1, SubSeqProperties
  <2> QED BY <1>1, <2>1, <2>2, <2>3, SeqEqual
<1>3. SubSeq(p, 1, Len(p)) = p /\ SubSeq(a, 1, Len(p) + 1) = a
  BY <1>1, SubSeqFull DEF Path
<1> HIDE DEF a
<1>4. \A i \in 1 .. Len(p) : PlainTo(fs1, a, i) <=> PlainTo(fs1, p, i)
  <2> SUFFICES ASSUME NEW i \in 1 .. Len(p) PROVE PlainTo(fs1, a, i) <=> PlainTo(fs1, p, i)
    OBVIOUS
  <2>1. i \in 0 .. Len(p) /\ i - 1 \in 0 .. Len(p)
    BY <1>1
  <2>2. a[i] = p[i] /\ SubSeq(a, 1, i) = SubSeq(p, 1, i) /\ SubSeq(a, 1, i - 1) = SubSeq(p, 1, i - 1)
    BY <1>1, <1>2, <2>1
  <2> QED BY <2>2 DEF PlainTo
<1>5. PlainTo(fs1, a, Len(p) + 1) <=> n \notin {Dot, DotDot} /\ DirectoryAt(fs1, p) /\ ~LinkAt(fs1, a)
  <2>1. Len(p) + 1 - 1 = Len(p) /\ Len(p) \in 0 .. Len(p)
    BY <1>1
  <2>2. SubSeq(a, 1, Len(p)) = p
    BY <1>2, <1>3, <2>1
  <2> DEFINE k == Len(p) + 1
  <2>3. a[k] = n /\ SubSeq(a, 1, k) = a /\ SubSeq(a, 1, k - 1) = p
    BY <1>1, <1>3, <2>1, <2>2
  <2> HIDE DEF k
  <2>4. PlainTo(fs1, a, k) <=> n \notin {Dot, DotDot} /\ DirectoryAt(fs1, p) /\ ~LinkAt(fs1, a)
    BY <2>3 DEF PlainTo
  <2> QED BY <2>4 DEF k
<1>6. \A i : i \in 1 .. Len(a) <=> i \in 1 .. Len(p) \/ i = Len(p) + 1
  BY <1>1
<1> QED BY <1>1, <1>4, <1>5, <1>6 DEF Plain, a

LEMMA PlainFront ==
  ASSUME NEW fs1, NEW p, Plain(fs1, p), p # <<>>
  PROVE  Plain(fs1, Front(p)) /\ DirectoryAt(fs1, Front(p)) /\ Front(p) \in Path
<1>1. Front(p) \in Path /\ Last(p) \in Name /\ p = Append(Front(p), Last(p))
  BY FrontLast DEF Plain, Path
<1> QED BY <1>1, PlainAppend

(* A walk from a plain path leads to a plain path.                         *)
LEMMA WalkIsPlain ==
  ASSUME NEW fs1, IsTree(fs1), NEW w0 \in Way, Plain(fs1, w0.at), Walk(fs1)[w0] # NoPath
  PROVE  Plain(fs1, Walk(fs1)[w0])
<1> DEFINE S == {w \in Way : Plain(fs1, w.at) /\ Walk(fs1)[w] # NoPath => Plain(fs1, Walk(fs1)[w])}
<1>1. ASSUME NEW w \in Way, Ahead(fs1, w) => Onward(fs1, w) \in S
      PROVE  w \in S
  <2> SUFFICES ASSUME Plain(fs1, w.at), Walk(fs1)[w] # NoPath PROVE Plain(fs1, Walk(fs1)[w])
    OBVIOUS
  <2>1. CASE w.names = <<>>
    BY <2>1, WalkSteps
  <2>2. CASE w.names # <<>>
    <3>1. Ahead(fs1, w) /\ Walk(fs1)[w] = Walk(fs1)[Onward(fs1, w)] /\ Onward(fs1, w) \in S
      BY <1>1, <2>2, WalkSteps DEF Ahead
    <3>2. Plain(fs1, Onward(fs1, w).at)
      <4>1. Head(w.names) \in Name /\ w.at \in Path
        BY <2>2, HeadTailProperties, Ways DEF Path
      <4>2. CASE Head(w.names) \in {Dot, DotDot} \/ FollowsLink(fs1, w)
        BY <4>2, OnwardSteps, Ways, PlainEmpty, PlainFront
      <4>3. CASE Head(w.names) \notin {Dot, DotDot} /\ ~FollowsLink(fs1, w)
        <5>1. DirectoryAt(fs1, w.at) /\ ~LinkAt(fs1, Below(w)) /\ Onward(fs1, w).at = Below(w)
          BY <3>1, <4>3, OnwardSteps, Ways DEF Ahead, Blocked, FollowsLink
        <5> QED BY <4>1, <4>3, <5>1, PlainAppend DEF Below
      <4> QED BY <4>2, <4>3
    <3> QED BY <3>1, <3>2
  <2> QED BY <2>1, <2>2
<1> HIDE DEF S
<1>2. \A w \in Way : w \in S
  BY <1>1, WayInduction
<1> QED BY <1>2 DEF S

(* Walking a plain path, from a place on it, leads to where it ends.       *)
LEMMA WalkAlongPlain ==
  ASSUME NEW fs1, IsTree(fs1), NEW w0 \in Way, NEW r0 \in Path, NEW t0 \in Path,
         w0.names = r0 \o t0, Plain(fs1, w0.at \o r0)
  PROVE  Walk(fs1)[w0] = Walk(fs1)[Go(w0.at \o r0, t0, w0.links)]
<1> DEFINE S == {w \in Way : \A r, t \in Path : w.names = r \o t /\ Plain(fs1, w.at \o r) =>
                    Walk(fs1)[w] = Walk(fs1)[Go(w.at \o r, t, w.links)]}
<1>1. ASSUME NEW w \in Way, Ahead(fs1, w) => Onward(fs1, w) \in S
      PROVE  w \in S
  <2> SUFFICES ASSUME NEW r \in Path, NEW t \in Path, w.names = r \o t, Plain(fs1, w.at \o r)
               PROVE  Walk(fs1)[w] = Walk(fs1)[Go(w.at \o r, t, w.links)]
    OBVIOUS
  <2>1. CASE r = <<>>
    BY <2>1, Ways, ConcatEmptySeq DEF Path
  <2>2. CASE r # <<>>
    <3> DEFINE n == Head(r)
               p == Append(w.at, n)
    <3>1. n \in Name /\ Tail(r) \in Path /\ w.at \in Path
      BY <2>2, Ways, HeadTailProperties DEF Path
    <3>2. w.names # <<>> /\ Head(w.names) = n /\ Tail(w.names) = Tail(r) \o t
      BY <2>2, ConcatHeadTail DEF Path
    <3> DEFINE k == Len(w.at)
               q == w.at \o r
    <3>3. /\ q = p \o Tail(r) /\ k + 1 \in 1 .. Len(q) /\ q[k + 1] = n
          /\ SubSeq(q, 1, k) = w.at /\ SubSeq(q, 1, k + 1) = p
      BY <2>2, <3>1, Joined DEF Path
    <3>4. p \in Path /\ Below(w) = p
      BY <3>1, <3>2, AppendProperties DEF Path, Below
    <3>5. PlainTo(fs1, q, k + 1)
      BY <3>3 DEF Plain
    <3>6. n \notin {Dot, DotDot} /\ DirectoryAt(fs1, w.at) /\ ~LinkAt(fs1, p)
      <4>1. k \in Nat
        BY <3>1, LenProperties DEF Path
      <4> HIDE DEF n, p, q, k
      <4>2. PICK j \in Nat : j = k + 1 /\ j - 1 = k
        BY <4>1
      <4>3. q[j] = n /\ SubSeq(q, 1, j) = p /\ PlainTo(fs1, q, j)
        BY <3>3, <3>5, <4>2
      <4>4. SubSeq(q, 1, j - 1) = w.at
        BY <3>3, <4>2
      <4> QED BY <4>3, <4>4 DEF PlainTo
    <3> HIDE DEF n, p
    <3>7. ~FollowsLink(fs1, w) /\ Ahead(fs1, w)
      BY <3>2, <3>4, <3>6 DEF FollowsLink, Ahead, Blocked
    <3>8. Onward(fs1, w) = Go(p, Tail(r) \o t, w.links)
      BY <3>2, <3>4, <3>6, <3>7, OnwardSteps
    <3>9. Onward(fs1, w) \in S /\ Walk(fs1)[w] = Walk(fs1)[Onward(fs1, w)]
      BY <1>1, <3>7, WalkSteps
    <3> DEFINE v == Onward(fs1, w)
    <3>10. v.names = Tail(r) \o t /\ v.at \o Tail(r) = q /\ v.links = w.links
      BY <3>3, <3>8 DEF Go
    <3> HIDE DEF v, q
    <3>11. Plain(fs1, v.at \o Tail(r))
      BY <3>10 DEF q
    <3>12. Walk(fs1)[v] = Walk(fs1)[Go(v.at \o Tail(r), t, v.links)]
      BY <3>1, <3>9, <3>10, <3>11 DEF v
    <3> QED BY <3>9, <3>10, <3>12 DEF v, q
  <2> QED BY <2>1, <2>2
<1> HIDE DEF S
<1>2. \A w \in Way : w \in S
  BY <1>1, WayInduction
<1> QED BY <1>2 DEF S

LEMMA WalkOfPlain ==
  ASSUME NEW fs1, IsTree(fs1), NEW p, Plain(fs1, p), NEW t \in Path, NEW l \in Nat
  PROVE  /\ Walk(fs1)[Go(<<>>, p \o t, l)] = Walk(fs1)[Go(p, t, l)]
         /\ Walk(fs1)[Go(<<>>, p, l)] = p
<1>1. p \in Path /\ p \o t \in Path /\ <<>> \o p = p /\ p \o <<>> = p /\ <<>> \in Path
  BY ConcatEmptySeq DEF Plain, Path
<1> DEFINE w == Go(<<>>, p \o t, l)
           u == Go(<<>>, p, l)
<1>2. w \in Way /\ w.at = <<>> /\ w.names = p \o t /\ w.links = l
  BY <1>1 DEF Go, Way
<1>3. u \in Way /\ u.at = <<>> /\ u.names = p \o <<>> /\ u.links = l
  BY <1>1 DEF Go, Way
<1> HIDE DEF w, u
<1>5. Walk(fs1)[w] = Walk(fs1)[Go(p, t, l)]
  <2>1. w.at \o p = p
    BY <1>1, <1>2
  <2>2. Walk(fs1)[w] = Walk(fs1)[Go(w.at \o p, t, w.links)]
    BY <1>1, <1>2, <2>1, WalkAlongPlain
  <2> QED BY <1>2, <2>1, <2>2
<1>6. Walk(fs1)[u] = Walk(fs1)[Go(p, <<>>, l)]
  <2>1. u.at \o p = p
    BY <1>1, <1>3
  <2>2. Walk(fs1)[u] = Walk(fs1)[Go(u.at \o p, <<>>, u.links)]
    BY <1>1, <1>3, <2>1, WalkAlongPlain
  <2> QED BY <1>3, <2>1, <2>2
<1>4. Walk(fs1)[Go(p, <<>>, l)] = p
  BY <1>1, WalkSteps, Ways
<1> QED BY <1>4, <1>5, <1>6 DEF w, u

LEMMA WalkType ==
  ASSUME NEW fs1, IsTree(fs1), NEW w0 \in Way
  PROVE  Walk(fs1)[w0] = NoPath \/ Walk(fs1)[w0] \in Path
<1> DEFINE S == {w \in Way : Walk(fs1)[w] = NoPath \/ Walk(fs1)[w] \in Path}
<1>1. ASSUME NEW w \in Way, Ahead(fs1, w) => Onward(fs1, w) \in S
      PROVE  w \in S
  BY <1>1, WalkSteps, Ways DEF Ahead
<1> HIDE DEF S
<1>2. \A w \in Way : w \in S
  BY <1>1, WayInduction
<1> QED BY <1>2 DEF S

(* Names put at the end, and links added, do not change the next step.     *)
LEMMA OnwardOfLonger ==
  ASSUME NEW fs1, IsTree(fs1), NEW u \in Way, u.names # <<>>, NEW t \in Path, NEW l \in Nat
  PROVE  LET w == Go(u.at, u.names \o t, l)
             v == Onward(fs1, u)
         IN /\ w \in Way /\ w.names # <<>>
            /\ Blocked(fs1, u) /\ l = u.links => Blocked(fs1, w)
            /\ ~Blocked(fs1, u) /\ l >= u.links =>
                  /\ ~Blocked(fs1, w)
                  /\ \E k \in Nat : /\ k >= v.links /\ (l = u.links => k = v.links)
                                    /\ Onward(fs1, w) = Go(v.at, v.names \o t, k)
<1> DEFINE w == Go(u.at, u.names \o t, l)
           v == Onward(fs1, u)
<1>1. /\ u.at \in Path /\ u.names \in Path /\ u.links \in Nat
      /\ Head(u.names) \in Name /\ Tail(u.names) \in Path
  BY Ways, HeadTailProperties DEF Path
<1>2. /\ u.names \o t \in Path /\ u.names \o t # <<>>
      /\ Head(u.names \o t) = Head(u.names) /\ Tail(u.names \o t) = Tail(u.names) \o t
  BY <1>1, ConcatHeadTail, ConcatProperties DEF Path
<1>3. /\ w \in Way /\ w.names # <<>> /\ w.at = u.at /\ w.links = l
      /\ Head(w.names) = Head(u.names) /\ Tail(w.names) = Tail(u.names) \o t
  BY <1>1, <1>2 DEF Go, Way
<1> HIDE DEF w
<1>4. Below(w) = Below(u) /\ (FollowsLink(fs1, w) <=> FollowsLink(fs1, u))
  BY <1>3 DEF Below, FollowsLink
<1>5. /\ Blocked(fs1, u) /\ l = u.links => Blocked(fs1, w)
      /\ ~Blocked(fs1, u) /\ l >= u.links => ~Blocked(fs1, w)
  BY <1>1, <1>3, <1>4 DEF Blocked
<1>6. ASSUME ~Blocked(fs1, u), l >= u.links
      PROVE  \E k \in Nat : /\ k >= v.links /\ (l = u.links => k = v.links)
                            /\ Onward(fs1, w) = Go(v.at, v.names \o t, k)
  <2>1. CASE FollowsLink(fs1, u)
    <3> DEFINE to == fs1[Below(u)].to
               place == IF fs1[Below(u)].absolute THEN <<>> ELSE u.at
    <3>1. to \in Path
      BY <2>1 DEF FollowsLink, LinkAt, IsTree
    <3>2. to \o (Tail(u.names) \o t) = (to \o Tail(u.names)) \o t
      <4> HIDE DEF to
      <4> DEFINE rest == Tail(u.names)
      <4>1. to \in Seq(Name) /\ rest \in Seq(Name) /\ t \in Seq(Name)
        BY <1>1, <3>1 DEF Path
      <4> HIDE DEF rest
      <4>2. (to \o rest) \o t = to \o (rest \o t)
        BY <4>1, ConcatAssociative
      <4> QED BY <4>2 DEF rest
    <3>3. u.links >= 1 /\ l - 1 \in Nat
      BY <1>1, <1>6, <2>1 DEF Blocked
    <3>4. v = Go(place, to \o Tail(u.names), u.links - 1)
      BY <2>1, OnwardSteps
    <3>5. Onward(fs1, w) = Go(place, to \o (Tail(u.names) \o t), l - 1)
      BY <1>3, <1>4, <2>1, OnwardSteps
    <3> HIDE DEF v, to, place
    <3>6. v.at = place /\ v.names = to \o Tail(u.names) /\ v.links = u.links - 1
      BY <3>4 DEF Go
    <3>7. Onward(fs1, w) = Go(v.at, v.names \o t, l - 1)
      BY <3>2, <3>5, <3>6
    <3>8. l - 1 >= v.links /\ (l = u.links => l - 1 = v.links)
      BY <1>1, <1>6, <3>6
    <3> QED BY <3>3, <3>7, <3>8
  <2>2. CASE ~FollowsLink(fs1, u)
    <3>1. PICK place : /\ v = Go(place, Tail(u.names), u.links)
                       /\ Onward(fs1, w) = Go(place, Tail(u.names) \o t, l)
      <4>1. CASE Head(u.names) = Dot
        BY <1>3, <4>1, OnwardSteps
      <4>2. CASE Head(u.names) = DotDot
        BY <1>3, <4>2, OnwardSteps
      <4>3. CASE Head(u.names) \notin {Dot, DotDot}
        BY <1>3, <1>4, <2>2, <4>3, OnwardSteps
      <4> QED BY <4>1, <4>2, <4>3
    <3> HIDE DEF v
    <3>2. v.at = place /\ v.names = Tail(u.names) /\ v.links = u.links
      BY <3>1 DEF Go
    <3> QED BY <1>6, <3>1, <3>2
  <2> QED BY <2>1, <2>2
<1> QED BY <1>3, <1>5, <1>6 DEF w

(* To walk along two lists of names is to walk along the first, and from   *)
(* there, with the links that are left, along the second.                  *)
LEMMA WalkJoins ==
  ASSUME NEW fs1, IsTree(fs1), NEW u0 \in Way, NEW t \in Path
  PROVE  LET v == Walk(fs1)[u0]
             w == Walk(fs1)[Go(u0.at, u0.names \o t, u0.links)]
         IN /\ v = NoPath => w = NoPath
            /\ v # NoPath => \E l \in 0 .. u0.links : w = Walk(fs1)[Go(v, t, l)]
<1> DEFINE Longer(u) == Walk(fs1)[Go(u.at, u.names \o t, u.links)]
           Joins(u) == /\ Walk(fs1)[u] = NoPath => Longer(u) = NoPath
                       /\ Walk(fs1)[u] # NoPath =>
                             \E l \in 0 .. u.links : Longer(u) = Walk(fs1)[Go(Walk(fs1)[u], t, l)]
           S == {u \in Way : Joins(u)}
<1>1. ASSUME NEW u \in Way, Ahead(fs1, u) => Onward(fs1, u) \in S
      PROVE  Joins(u)
  <2>1. CASE u.names = <<>>
    <3>1. u.names \o t = t /\ Walk(fs1)[u] = u.at /\ u.at # NoPath /\ u.links \in 0 .. u.links
      BY <2>1, WalkSteps, Ways, WorkdirAssumption, ConcatEmptySeq DEF Path
    <3> QED BY <3>1
  <2>2. CASE u.names # <<>> /\ Blocked(fs1, u)
    <3>1. Walk(fs1)[u] = NoPath
      BY <2>2, WalkSteps
    <3> DEFINE w == Go(u.at, u.names \o t, u.links)
    <3>2. u.links \in Nat
      BY Ways
    <3>3. w \in Way /\ w.names # <<>> /\ Blocked(fs1, w)
      BY <2>2, <3>2, OnwardOfLonger
    <3> HIDE DEF w
    <3>4. Walk(fs1)[w] = NoPath
      BY <3>3, WalkSteps
    <3> QED BY <3>1, <3>4 DEF w
  <2>3. CASE Ahead(fs1, u)
    <3> DEFINE v == Onward(fs1, u)
               w == Go(u.at, u.names \o t, u.links)
    <3>1. u.names # <<>> /\ ~Blocked(fs1, u) /\ u.links \in Nat /\ u.links >= u.links
      BY <2>3, Ways DEF Ahead
    <3>2. w \in Way /\ w.names # <<>> /\ ~Blocked(fs1, w) /\ Onward(fs1, w) = Go(v.at, v.names \o t, v.links)
      BY <3>1, OnwardOfLonger
    <3>3. v \in Way /\ v.links \in Nat /\ v.links <= u.links /\ Walk(fs1)[u] = Walk(fs1)[v]
      BY <2>3, OnwardIsShorter, WalkSteps, Ways
    <3>4. Longer(u) = Longer(v)
      BY <3>2, WalkSteps DEF Ahead
    <3>5. Joins(v)
      BY <1>1, <2>3
    <3> HIDE DEF v, w, Longer
    <3>6. \A l \in 0 .. v.links : l \in 0 .. u.links
      BY <3>1, <3>3
    <3> QED BY <3>3, <3>4, <3>5, <3>6
  <2> QED BY <2>1, <2>2, <2>3 DEF Ahead
<1>2. \A u \in Way : (Ahead(fs1, u) => Onward(fs1, u) \in S) => u \in S
  BY <1>1
<1> HIDE DEF S
<1>3. \A u \in Way : u \in S
  BY <1>2, WayInduction
<1> QED BY <1>3 DEF S

(* More links do not lead elsewhere.                                       *)
LEMMA MoreLinks ==
  ASSUME NEW fs1, IsTree(fs1), NEW u0 \in Way, NEW l0 \in Nat, l0 >= u0.links, Walk(fs1)[u0] # NoPath
  PROVE  Walk(fs1)[Go(u0.at, u0.names, l0)] = Walk(fs1)[u0]
<1> DEFINE Later(u, l) == Walk(fs1)[Go(u.at, u.names, l)]
           S == {u \in Way : \A l \in Nat : l >= u.links /\ Walk(fs1)[u] # NoPath =>
                                 Later(u, l) = Walk(fs1)[u]}
<1>1. ASSUME NEW u \in Way, Ahead(fs1, u) => Onward(fs1, u) \in S,
             NEW l \in Nat, l >= u.links, Walk(fs1)[u] # NoPath
      PROVE  Later(u, l) = Walk(fs1)[u]
  <2>1. CASE u.names = <<>>
    <3>1. Walk(fs1)[u] = u.at
      BY <2>1, WalkSteps
    <3>2. Later(u, l) = u.at
      <4> DEFINE w == Go(u.at, u.names, l)
      <4>1. w \in Way /\ w.names = <<>> /\ w.at = u.at
        BY <2>1, Ways DEF Go
      <4> HIDE DEF w
      <4>2. Walk(fs1)[w] = u.at
        BY <4>1, WalkSteps
      <4> QED BY <4>2 DEF w
    <3> QED BY <3>1, <3>2
  <2>2. CASE u.names # <<>>
    <3> DEFINE v == Onward(fs1, u)
               w == Go(u.at, u.names, l)
    <3>1. Ahead(fs1, u) /\ ~Blocked(fs1, u)
      BY <1>1, <2>2, WalkSteps DEF Ahead
    <3>2. v \in S /\ v \in Way /\ Walk(fs1)[u] = Walk(fs1)[v]
      BY <1>1, <3>1, WalkSteps
    <3>3. PICK e \in Path : u.names \o e = u.names /\ v.names \o e = v.names
      BY <3>2, Ways, ConcatEmptySeq DEF Path
    <3>4. /\ w \in Way /\ w.names # <<>> /\ ~Blocked(fs1, w)
          /\ \E k \in Nat : k >= v.links /\ Onward(fs1, w) = Go(v.at, v.names, k)
      <4> DEFINE x == Go(u.at, u.names \o e, l)
      <4>1. /\ x \in Way /\ x.names # <<>> /\ ~Blocked(fs1, x)
            /\ \E k \in Nat : /\ k >= v.links /\ (l = u.links => k = v.links)
                              /\ Onward(fs1, x) = Go(v.at, v.names \o e, k)
        <5>1. l \in Nat /\ l >= u.links
          BY <1>1
        <5> HIDE DEF S
        <5> QED BY <2>2, <3>1, <3>3, <5>1, OnwardOfLonger
      <4> HIDE DEF v
      <4> QED BY <3>3, <4>1
    <3>5. Walk(fs1)[w] = Walk(fs1)[Onward(fs1, w)]
      BY <3>4, WalkSteps DEF Ahead
    <3> QED BY <1>1, <3>2, <3>4, <3>5
  <2> QED BY <2>1, <2>2
<1>2. \A u \in Way : (Ahead(fs1, u) => Onward(fs1, u) \in S) => u \in S
  BY <1>1
<1> HIDE DEF S
<1>3. \A u \in Way : u \in S
  BY <1>2, WayInduction
<1> QED BY <1>3 DEF S

(* A last name that is no link: where it leads does not depend on how many *)
(* links may be followed.                                                  *)
LEMMA WalkOfName ==
  ASSUME NEW fs1, IsTree(fs1), NEW p \in Path, NEW n \in Name, NEW l \in Nat,
         n \in {Dot, DotDot} \/ ~LinkAt(fs1, Append(p, n))
  PROVE  Walk(fs1)[Go(p, <<n>>, l)] =
           IF ~DirectoryAt(fs1, p) THEN NoPath
           ELSE IF n = Dot THEN p
           ELSE IF n = DotDot THEN (IF p = <<>> THEN <<>> ELSE Front(p))
           ELSE Append(p, n)
<1> DEFINE w == Go(p, <<n>>, l)
           q == IF n = Dot THEN p
                ELSE IF n = DotDot THEN (IF p = <<>> THEN <<>> ELSE Front(p))
                ELSE Append(p, n)
<1>1. /\ w \in Way /\ w.at = p /\ w.links = l /\ w.names # <<>>
      /\ Head(w.names) = n /\ Tail(w.names) = <<>>
  BY DEF Go, Way, Path
<1> HIDE DEF w
<1>2. ~FollowsLink(fs1, w)
  BY <1>1 DEF FollowsLink, Below
<1>3. CASE ~DirectoryAt(fs1, p)
  BY <1>1, <1>3, WalkSteps DEF Blocked, w
<1>4. CASE DirectoryAt(fs1, p)
  <2>1. Ahead(fs1, w)
    BY <1>1, <1>2, <1>4 DEF Ahead, Blocked
  <2>2. Onward(fs1, w) = Go(q, <<>>, l)
    <3>1. n = Dot => Onward(fs1, w) = Go(p, <<>>, l)
      BY <1>1, OnwardSteps
    <3>2. n = DotDot => Onward(fs1, w) = Go(IF p = <<>> THEN <<>> ELSE Front(p), <<>>, l)
      BY <1>1, OnwardSteps
    <3>3. n \notin {Dot, DotDot} => Onward(fs1, w) = Go(Append(p, n), <<>>, l)
      BY <1>1, <1>2, OnwardSteps DEF Below
    <3>4. CASE n \in {Dot, DotDot}
      <4>1. Dot # DotDot
        BY DEF Dot, DotDot
      <4> QED BY <3>1, <3>2, <3>4, <4>1
    <3> QED BY <3>3, <3>4
  <2>3. Onward(fs1, w) \in Way /\ Walk(fs1)[w] = Walk(fs1)[Onward(fs1, w)]
    BY <1>1, <2>1, WalkSteps
  <2>4. Onward(fs1, w).names = <<>> /\ Onward(fs1, w).at = q
    BY <2>2 DEF Go
  <2>5. Walk(fs1)[w] = q
    BY <2>3, <2>4, WalkSteps
  <2> QED BY <1>4, <2>5 DEF w
<1> QED BY <1>3, <1>4

LEMMA OpensPlain ==
  ASSUME NEW fs1, IsTree(fs1), NEW p \in Path
  PROVE  /\ Opens(fs1, p) = Walk(fs1)[Go(<<>>, p, MaxLinks)] /\ Go(<<>>, p, MaxLinks) \in Way
         /\ Opens(fs1, p) # NoPath =>
               Opens(fs1, p) \in Path /\ Plain(fs1, Opens(fs1, p)) /\ Opens(fs1, Opens(fs1, p)) = Opens(fs1, p)
<1> DEFINE w == Go(<<>>, p, MaxLinks)
<1>1. w \in Way /\ w.at = <<>> /\ Opens(fs1, p) = Walk(fs1)[w]
  BY Ways, WorkdirAssumption DEF Go, Opens
<1> HIDE DEF w
<1>2. ASSUME Opens(fs1, p) # NoPath
      PROVE  Opens(fs1, p) \in Path /\ Plain(fs1, Opens(fs1, p)) /\ Opens(fs1, Opens(fs1, p)) = Opens(fs1, p)
  <2>1. Plain(fs1, Opens(fs1, p))
    BY <1>1, <1>2, WalkIsPlain, PlainEmpty
  <2> DEFINE q == Opens(fs1, p)
  <2>2. q \in Path
    BY <2>1 DEF Plain
  <2> HIDE DEF q
  <2>3. Walk(fs1)[Go(<<>>, q, MaxLinks)] = q
    BY <2>1, <2>2, WalkOfPlain, WorkdirAssumption DEF q
  <2> QED BY <2>1, <2>2, <2>3 DEF q, Opens, Go
<1> QED BY <1>1, <1>2 DEF w

(* open(2) on a name below a plain directory, whatever led there.          *)
LEMMA OpensBelow ==
  ASSUME NEW fs1, IsTree(fs1), NEW full \in Path, full # <<>>,
         NEW parent, parent = Opens(fs1, Front(full)), parent # NoPath
  PROVE  LET n == Last(full)
             given == Append(parent, n)
         IN /\ parent \in Path /\ Plain(fs1, parent) /\ n \in Name /\ given \in Path
            /\ LeadsAsAsked(fs1, full, given)
            /\ n \in {Dot, DotDot} \/ ~LinkAt(fs1, given) =>
                  /\ Opens(fs1, full) = Opens(fs1, given)
                  /\ Opens(fs1, given) =
                        IF ~DirectoryAt(fs1, parent) THEN NoPath
                        ELSE IF n = Dot THEN parent
                        ELSE IF n = DotDot THEN (IF parent = <<>> THEN <<>> ELSE Front(parent))
                        ELSE given
<1> DEFINE n == Last(full)
           given == Append(parent, n)
           W(l) == Walk(fs1)[Go(parent, <<n>>, l)]
<1>1. Front(full) \in Path /\ n \in Name /\ full = Front(full) \o <<n>> /\ <<n>> \in Path
  BY FrontLast DEF Path
<1>2. parent \in Path /\ Plain(fs1, parent)
  BY <1>1, OpensPlain
<1>3. given \in Path /\ given = parent \o <<n>>
  BY <1>1, <1>2, AppendProperties, AppendIsConcat DEF Path
<1> HIDE DEF n, given
<1>4. PICK l \in 0 .. MaxLinks : Opens(fs1, full) = W(l)
  <2> DEFINE u == Go(<<>>, Front(full), MaxLinks)
  <2>1. /\ u \in Way /\ u.at = <<>> /\ u.names = Front(full) /\ u.links = MaxLinks
        /\ Walk(fs1)[u] = parent
    BY <1>1, OpensPlain DEF Go
  <2>2. Opens(fs1, full) = Walk(fs1)[Go(<<>>, Front(full) \o <<n>>, MaxLinks)]
    BY <1>1, OpensPlain
  <2> HIDE DEF u
  <2>3. Opens(fs1, full) = Walk(fs1)[Go(u.at, u.names \o <<n>>, u.links)]
    BY <2>1, <2>2
  <2> QED BY <1>1, <2>1, <2>3, WalkJoins
<1>5. Opens(fs1, given) = W(MaxLinks)
  BY <1>1, <1>2, <1>3, OpensPlain, WalkOfPlain, WorkdirAssumption
<1>6. l \in Nat /\ MaxLinks \in Nat /\ l <= MaxLinks
  BY WorkdirAssumption
<1>7. ASSUME n \in {Dot, DotDot} \/ ~LinkAt(fs1, given)
      PROVE  /\ Opens(fs1, full) = Opens(fs1, given)
             /\ Opens(fs1, given) =
                   IF ~DirectoryAt(fs1, parent) THEN NoPath
                   ELSE IF n = Dot THEN parent
                   ELSE IF n = DotDot THEN (IF parent = <<>> THEN <<>> ELSE Front(parent))
                   ELSE given
  <2>1. /\ W(MaxLinks) = W(l)
        /\ W(MaxLinks) = IF ~DirectoryAt(fs1, parent) THEN NoPath
                         ELSE IF n = Dot THEN parent
                         ELSE IF n = DotDot THEN (IF parent = <<>> THEN <<>> ELSE Front(parent))
                         ELSE given
    BY <1>1, <1>2, <1>6, <1>7, WalkOfName DEF given
  <2> QED BY <1>4, <1>5, <2>1
<1>8. LeadsAsAsked(fs1, full, given)
  <2>1. CASE n \in {Dot, DotDot} \/ ~LinkAt(fs1, given)
    BY <1>7, <2>1 DEF LeadsAsAsked
  <2>2. CASE LinkAt(fs1, given)
    <3> DEFINE u == Go(parent, <<n>>, l)
    <3>1. u \in Way /\ u.at = parent /\ u.names = <<n>> /\ u.links = l
      BY <1>1, <1>2, <1>6, Ways DEF Go
    <3> HIDE DEF u
    <3>2. Walk(fs1)[u] # NoPath => Walk(fs1)[Go(parent, <<n>>, MaxLinks)] = Walk(fs1)[u]
      BY <1>6, <3>1, MoreLinks
    <3>3. W(l) # NoPath => W(MaxLinks) = W(l)
      BY <3>2 DEF u
    <3> QED BY <1>4, <1>5, <2>2, <3>3 DEF LeadsAsAsked
  <2> QED BY <2>1, <2>2
<1> QED BY <1>1, <1>2, <1>3, <1>7, <1>8 DEF n, given

-----------------------------------------------------------------------------
(* Induction over sequences, for a set of them.                            *)
LEMMA AppendInduction ==
  ASSUME NEW S, NEW T, <<>> \in T, \A s \in Seq(S), e \in S : s \in T => Append(s, e) \in T
  PROVE  \A s \in Seq(S) : s \in T
<1> SUFFICES ASSUME NEW s0 \in Seq(S), s0 \notin T PROVE FALSE
  OBVIOUS
<1> DEFINE N == {Len(s) : s \in {r \in Seq(S) : r \notin T}}
<1>1. N \in SUBSET Nat /\ N # {}
  BY LenProperties
<1>2. PICK n \in N : \A m \in N : n <= m
  BY <1>1, LeastNumber
<1>3. PICK s \in Seq(S) : s \notin T /\ Len(s) = n
  BY <1>2
<1>4. PICK r \in Seq(S), e \in S : s = Append(r, e)
  BY <1>3, SequenceEmptyOrAppend
<1>5. Len(s) = Len(r) + 1 /\ Len(r) \in Nat
  BY <1>4, AppendProperties, LenProperties
<1>6. r \notin T
  BY <1>3, <1>4
<1>7. Len(r) \in N
  BY <1>6
<1>8. n <= Len(r)
  BY <1>2, <1>7
<1> QED BY <1>3, <1>5, <1>8

(* The recursive function in FlattenSeq exists, and adds sequence after    *)
(* sequence.                                                               *)
Flattens(s, g) == g = [i \in 1 .. Len(s) |-> IF i = 1 THEN s[i] ELSE g[i - 1] \o s[i]]

LEMMA FlattenGrows ==
  ASSUME NEW s, Len(s) \in Nat, NEW g, Flattens(s, g), NEW t, Len(t) = Len(s) + 1,
         \A i \in 1 .. Len(s) : t[i] = s[i]
  PROVE  \E h : Flattens(t, h)
<1> DEFINE n == Len(s)
           h == [i \in 1 .. n + 1 |-> IF i <= n THEN g[i]
                                      ELSE IF i = 1 THEN t[i] ELSE g[i - 1] \o t[i]]
<1>1. n \in Nat /\ Len(t) = n + 1
  OBVIOUS
<1>2. \A i \in 1 .. n : g[i] = IF i = 1 THEN s[i] ELSE g[i - 1] \o s[i]
  BY DEF Flattens
<1>3. \A i \in 1 .. n : h[i] = g[i]
  OBVIOUS
<1>4. h[n + 1] = IF n + 1 = 1 THEN t[n + 1] ELSE g[n + 1 - 1] \o t[n + 1]
  OBVIOUS
<1>5. h = [i \in 1 .. n + 1 |-> h[i]]
  OBVIOUS
<1> HIDE DEF h
<1>6. \A i \in 1 .. n + 1 : h[i] = IF i = 1 THEN t[i] ELSE h[i - 1] \o t[i]
  <2> SUFFICES ASSUME NEW i \in 1 .. n + 1 PROVE h[i] = IF i = 1 THEN t[i] ELSE h[i - 1] \o t[i]
    OBVIOUS
  <2>1. i # 1 => i - 1 \in 1 .. n /\ h[i - 1] = g[i - 1]
    BY <1>1, <1>3
  <2>2. CASE i \in 1 .. n
    BY <1>2, <1>3, <2>1, <2>2
  <2>3. CASE i = n + 1
    BY <1>4, <2>1, <2>3
  <2> QED BY <1>1, <2>2, <2>3
<1>7. [i \in 1 .. n + 1 |-> h[i]] = [i \in 1 .. n + 1 |-> IF i = 1 THEN t[i] ELSE h[i - 1] \o t[i]]
  BY <1>6
<1>8. Flattens(t, h)
  BY <1>1, <1>5, <1>7 DEF Flattens
<1> QED BY <1>8

Begins(s, t) == /\ Len(s) \in Nat /\ Len(t) \in Nat /\ Len(s) <= Len(t)
                /\ \A i \in 1 .. Len(s) : t[i] = s[i]

LEMMA FlattenAgrees ==
  ASSUME NEW s, NEW g, Flattens(s, g), NEW t, NEW h, Flattens(t, h), Begins(s, t)
  PROVE  \A i \in 1 .. Len(s) : g[i] = h[i]
<1> SUFFICES ASSUME NEW j \in 1 .. Len(s), g[j] # h[j] PROVE FALSE
  OBVIOUS
<1> USE DEF Begins
<1> DEFINE N == {i \in 1 .. Len(s) : g[i] # h[i]}
<1>1. N \in SUBSET Nat /\ N # {}
  OBVIOUS
<1>2. PICK n \in N : \A m \in N : n <= m
  BY <1>1, LeastNumber
<1>3. n \in 1 .. Len(s) /\ n \in 1 .. Len(t) /\ g[n] # h[n]
  BY <1>2
<1>4. /\ g[n] = IF n = 1 THEN s[n] ELSE g[n - 1] \o s[n]
      /\ h[n] = IF n = 1 THEN t[n] ELSE h[n - 1] \o t[n]
  BY <1>3 DEF Flattens
<1>5. CASE n = 1
  BY <1>3, <1>4, <1>5
<1>6. CASE n # 1
  <2>1. n - 1 \in 1 .. Len(s) /\ ~(n <= n - 1)
    BY <1>3, <1>6
  <2>2. g[n - 1] = h[n - 1]
    BY <1>2, <2>1
  <2> QED BY <1>3, <1>4, <1>6, <2>2
<1> QED BY <1>5, <1>6

LEMMA FlattenExists ==
  ASSUME NEW S, NEW s \in Seq(S)
  PROVE  \E g : Flattens(s, g)
<1> DEFINE T == {r \in Seq(S) : \E g : Flattens(r, g)}
<1>1. <<>> \in T
  <2> DEFINE g == [i \in 1 .. 0 |-> 0]
  <2>1. Flattens(<<>>, g)
    BY DEF Flattens
  <2> HIDE DEF g
  <2> QED BY <2>1
<1>2. ASSUME NEW r \in Seq(S), NEW e \in S, r \in T PROVE Append(r, e) \in T
  <2>1. PICK g : Flattens(r, g)
    BY <1>2
  <2> DEFINE a == Append(r, e)
  <2>2. /\ a \in Seq(S) /\ Len(a) = Len(r) + 1 /\ Len(r) \in Nat
        /\ \A i \in 1 .. Len(r) : a[i] = r[i]
    BY AppendProperties, LenProperties
  <2> HIDE DEF a
  <2>3. \E h : Flattens(a, h)
    BY <2>1, <2>2, FlattenGrows
  <2> QED BY <2>2, <2>3 DEF a
<1> HIDE DEF T
<1>3. \A r \in Seq(S) : r \in T
  BY <1>1, <1>2, AppendInduction
<1> QED BY <1>3 DEF T

LEMMA FlattenAppend ==
  ASSUME NEW S, NEW s \in Seq(Seq(S)), NEW e \in Seq(S)
  PROVE  /\ FlattenSeq(Append(s, e)) = FlattenSeq(s) \o e
         /\ FlattenSeq(s) \in Seq(S)
<1> DEFINE T == {r \in Seq(Seq(S)) : FlattenSeq(r) \in Seq(S)}
<1>1. ASSUME NEW r \in Seq(Seq(S)), r # <<>>
      PROVE  \E g : Flattens(r, g) /\ FlattenSeq(r) = g[Len(r)]
  <2> DEFINE g == CHOOSE f : Flattens(r, f)
  <2>1. Flattens(r, g)
    BY FlattenExists
  <2>2. FlattenSeq(r) = g[Len(r)]
    BY <1>1, EmptySeq DEF FlattenSeq, Flattens
  <2> HIDE DEF g
  <2> QED BY <2>1, <2>2
<1>2. FlattenSeq(<<>>) = <<>>
  BY DEF FlattenSeq
<1>3. ASSUME NEW r \in Seq(Seq(S)), NEW d \in Seq(S)
      PROVE  FlattenSeq(Append(r, d)) = FlattenSeq(r) \o d
  <2> DEFINE a == Append(r, d)
  <2>1. /\ a \in Seq(Seq(S)) /\ a # <<>> /\ Len(a) = Len(r) + 1 /\ Len(r) \in Nat /\ a[Len(r) + 1] = d
        /\ \A i \in 1 .. Len(r) : a[i] = r[i]
    BY AppendProperties, LenProperties
  <2> HIDE DEF a
  <2>2. PICK f : Flattens(a, f) /\ FlattenSeq(a) = f[Len(r) + 1]
    BY <1>1, <2>1
  <2>3. f[Len(r) + 1] = IF Len(r) = 0 THEN d ELSE f[Len(r)] \o d
    <3>1. PICK k \in 1 .. Len(a) : k = Len(r) + 1 /\ k - 1 = Len(r)
      BY <2>1
    <3>2. f[k] = IF k = 1 THEN a[k] ELSE f[k - 1] \o a[k]
      BY <2>2, <3>1 DEF Flattens
    <3> QED BY <2>1, <3>1, <3>2
  <2>4. CASE r = <<>>
    <3>1. FlattenSeq(a) = d
      BY <2>2, <2>3, <2>4, EmptySeq
    <3> QED BY <1>2, <2>4, <3>1, ConcatEmptySeq DEF a
  <2>5. CASE r # <<>>
    <3>1. Len(r) # 0 /\ Len(r) \in 1 .. Len(r) /\ Len(r) <= Len(a) /\ Len(a) \in Nat
      BY <2>1, <2>5, EmptySeq
    <3>2. PICK g : Flattens(r, g) /\ FlattenSeq(r) = g[Len(r)]
      BY <1>1, <2>5
    <3>3. \A i \in 1 .. Len(r) : g[i] = f[i]
      <4>1. Begins(r, a)
        BY <2>1, <3>1 DEF Begins
      <4> QED BY <2>2, <3>2, <4>1, FlattenAgrees
    <3> QED BY <2>2, <2>3, <3>1, <3>2, <3>3 DEF a
  <2> QED BY <2>4, <2>5
<1>4. <<>> \in T
  BY <1>2, EmptySeq
<1>5. ASSUME NEW r \in Seq(Seq(S)), NEW d \in Seq(S), r \in T PROVE Append(r, d) \in T
  BY <1>3, <1>5, AppendProperties, ConcatProperties
<1> HIDE DEF T
<1>6. \A r \in Seq(Seq(S)) : r \in T
  BY <1>4, <1>5, AppendInduction
<1> QED BY <1>3, <1>6 DEF T

(* The text of a path that is not the root: a slash and a name, each time. *)
Slashed(p) == [i \in DOMAIN p |-> <<"/">> \o p[i]]
Flat(p) == FlattenSeq(Slashed(p))
Letters == STRING \cup {"/"}

LEMMA SlashIsText == <<"/">> \in Seq(Letters) /\ Len(<<"/">>) = 1 /\ <<"/">>[1] = "/"
<1>1. "/" \in Letters
  BY DEF Letters
<1> QED BY <1>1

LEMMA FlatGrows ==
  ASSUME NEW p \in Path, NEW n \in Name
  PROVE  LET s == Flat(p)
             t == Flat(Append(p, n))
         IN /\ s \in Seq(Letters) /\ t \in Seq(Letters)
            /\ Len(n) \in Nat /\ Len(n) >= 1 /\ Len(t) = Len(s) + 1 + Len(n)
            /\ \A i \in 1 .. Len(s) : t[i] = s[i]
            /\ t[Len(s) + 1] = "/"
            /\ \A i \in 1 .. Len(n) : t[Len(s) + 1 + i] = n[i]
            /\ \A k \in 1 .. Len(t) : k > Len(s) + 1 => t[k] # "/"
<1> DEFINE a == Append(p, n)
           s == Flat(p)
           e == <<"/">> \o n
<1>1. n \in Seq(Letters) /\ Len(n) \in Nat /\ Len(n) >= 1 /\ \A i \in 1 .. Len(n) : n[i] # "/"
  <2>1. n \in Seq(STRING \ {"/"}) /\ n # <<>>
    BY DEF Name
  <2>2. Len(n) \in Nat /\ Len(n) >= 1 /\ \A i \in 1 .. Len(n) : n[i] \in STRING \ {"/"}
    BY <2>1, EmptySeq, ElementOfSeq
  <2>3. n \in Seq(Letters)
    BY <2>1, SeqMonotonic DEF Letters
  <2> QED BY <2>2, <2>3
<1>2. /\ e \in Seq(Letters) /\ Len(e) = 1 + Len(n) /\ e[1] = "/"
      /\ \A i \in 1 .. Len(n) : e[1 + i] = n[i]
  <2>1. <<"/">> \in Seq(Letters) /\ Len(<<"/">>) = 1 /\ <<"/">>[1] = "/"
    BY SlashIsText
  <2> DEFINE b == <<"/">>
  <2> HIDE DEF b
  <2>2. /\ b \o n \in Seq(Letters) /\ Len(b \o n) = Len(b) + Len(n)
        /\ \A i \in 1 .. Len(b) + Len(n) : (b \o n)[i] = IF i <= Len(b) THEN b[i] ELSE n[i - Len(b)]
    BY <1>1, <2>1, ConcatProperties DEF b
  <2>3. Len(b) = 1 /\ b[1] = "/" /\ b \o n = e
    BY <2>1 DEF b
  <2> HIDE DEF e
  <2>4. /\ e \in Seq(Letters) /\ Len(e) = 1 + Len(n)
        /\ \A i \in 1 .. 1 + Len(n) : e[i] = IF i <= 1 THEN b[i] ELSE n[i - 1]
    BY <2>2, <2>3
  <2> QED BY <1>1, <2>3, <2>4
<1>3. Slashed(p) \in Seq(Seq(Letters))
  <2>1. Len(p) \in Nat /\ DOMAIN p = 1 .. Len(p) /\ \A i \in 1 .. Len(p) : p[i] \in Name
    BY LenProperties, ElementOfSeq DEF Path
  <2>2. \A m \in Name : <<"/">> \o m \in Seq(Letters)
    <3>1. \A m \in Name : m \in Seq(Letters)
      BY SeqMonotonic DEF Name, Letters
    <3> QED BY <3>1, SlashIsText, ConcatProperties
  <2>3. \A i \in 1 .. Len(p) : <<"/">> \o p[i] \in Seq(Letters)
    BY <2>1, <2>2
  <2> QED BY <2>1, <2>3, SeqDef DEF Slashed
<1>4. Slashed(a) = Append(Slashed(p), e)
  <2>1. /\ a \in Seq(Name) /\ Len(a) = Len(p) + 1 /\ Len(p) \in Nat /\ a[Len(p) + 1] = n
        /\ DOMAIN a = 1 .. Len(a) /\ DOMAIN p = 1 .. Len(p)
        /\ \A i \in 1 .. Len(p) : a[i] = p[i]
    BY AppendProperties, LenProperties DEF Path
  <2> HIDE DEF a, e
  <2>2. /\ DOMAIN Slashed(p) = 1 .. Len(p) /\ Len(Slashed(p)) = Len(p)
        /\ \A i \in 1 .. Len(p) : Slashed(p)[i] = <<"/">> \o p[i]
    BY <1>3, <2>1, LenProperties DEF Slashed
  <2> DEFINE b == Append(Slashed(p), e)
  <2>3. /\ b \in Seq(Seq(Letters)) /\ Len(b) = Len(p) + 1 /\ b[Len(p) + 1] = e
        /\ \A i \in 1 .. Len(p) : b[i] = Slashed(p)[i]
    BY <1>2, <1>3, <2>2, AppendProperties
  <2>4. b = [i \in 1 .. Len(p) + 1 |-> b[i]]
    BY <2>3, LenProperties
  <2> HIDE DEF b
  <2>5. \A i \in 1 .. Len(p) + 1 : b[i] = <<"/">> \o a[i]
    <3> SUFFICES ASSUME NEW i \in 1 .. Len(p) + 1 PROVE b[i] = <<"/">> \o a[i]
      OBVIOUS
    <3>1. CASE i \in 1 .. Len(p)
      BY <2>1, <2>2, <2>3, <3>1
    <3>2. CASE i = Len(p) + 1
      BY <2>1, <2>3, <3>2 DEF e
    <3> QED BY <2>1, <3>1, <3>2
  <2>6. Slashed(a) = [i \in 1 .. Len(p) + 1 |-> <<"/">> \o a[i]]
    BY <2>1 DEF Slashed
  <2>7. [i \in 1 .. Len(p) + 1 |-> b[i]] = [i \in 1 .. Len(p) + 1 |-> <<"/">> \o a[i]]
    BY <2>5
  <2> QED BY <2>4, <2>6, <2>7 DEF b
<1> HIDE DEF e
<1>5. s \in Seq(Letters) /\ Flat(a) = s \o e
  <2> DEFINE b == Slashed(p)
  <2> HIDE DEF b
  <2>1. b \in Seq(Seq(Letters)) /\ Flat(a) = FlattenSeq(Append(b, e)) /\ s = FlattenSeq(b)
    BY <1>3, <1>4 DEF Flat, b
  <2>2. FlattenSeq(Append(b, e)) = FlattenSeq(b) \o e /\ FlattenSeq(b) \in Seq(Letters)
    BY <1>2, <2>1, FlattenAppend
  <2> QED BY <2>1, <2>2
<1> DEFINE t == Flat(a)
<1> HIDE DEF s, a, t
<1>6. /\ t \in Seq(Letters) /\ Len(t) = Len(s) + Len(e) /\ Len(s) \in Nat
      /\ \A i \in 1 .. Len(s) + Len(e) : t[i] = IF i <= Len(s) THEN s[i] ELSE e[i - Len(s)]
  <2>1. s \in Seq(Letters) /\ e \in Seq(Letters) /\ t = s \o e
    BY <1>2, <1>5 DEF t
  <2> QED BY <2>1, ConcatProperties, LenProperties
<1>7. Len(t) = Len(s) + 1 + Len(n) /\ \A i \in 1 .. Len(s) : t[i] = s[i]
  BY <1>1, <1>2, <1>6
<1>8. t[Len(s) + 1] = "/"
  <2>1. PICK k \in 1 .. Len(s) + Len(e) : k = Len(s) + 1 /\ k - Len(s) = 1 /\ ~(k <= Len(s))
    BY SMTT(20), <1>1, <1>2, <1>6
  <2> QED BY <1>2, <1>6, <2>1
<1>9. \A i \in 1 .. Len(n) : t[Len(s) + 1 + i] = n[i]
  <2> SUFFICES ASSUME NEW i \in 1 .. Len(n) PROVE t[Len(s) + 1 + i] = n[i]
    OBVIOUS
  <2> DEFINE m == Len(s)
  <2>1. m \in Nat /\ i \in Nat /\ 1 <= i /\ i <= Len(n) /\ Len(e) = 1 + Len(n)
    BY <1>1, <1>2, <1>6
  <2> HIDE DEF m
  <2>2. m + 1 + i \in 1 .. m + Len(e) /\ m + 1 + i - m = 1 + i /\ ~(m + 1 + i <= m)
    BY <1>1, <2>1
  <2>3. PICK k \in 1 .. Len(s) + Len(e) : k = Len(s) + 1 + i /\ k - Len(s) = 1 + i /\ ~(k <= Len(s))
    BY <2>2 DEF m
  <2>4. t[k] = e[1 + i]
    BY <1>6, <2>3
  <2> QED BY <1>2, <2>3, <2>4
<1>10. ASSUME NEW k \in 1 .. Len(t), k > Len(s) + 1
       PROVE  t[k] # "/"
  <2>1. k - Len(s) - 1 \in 1 .. Len(n) /\ 1 + (k - Len(s) - 1) = k - Len(s) /\ ~(k <= Len(s))
    BY <1>1, <1>6, <1>7, <1>10
  <2>2. PICK i \in 1 .. Len(n) : 1 + i = k - Len(s)
    BY <2>1
  <2>3. t[k] = e[k - Len(s)]
    BY <1>6, <1>10, <2>1
  <2>4. e[1 + i] = n[i] /\ n[i] # "/"
    BY <1>1, <1>2
  <2> QED BY <2>2, <2>3, <2>4
<1> QED BY <1>1, <1>5, <1>6, <1>7, <1>8, <1>9, <1>10 DEF s, a, t

LEMMA PrefixGrows ==
  ASSUME NEW S, NEW r \in Seq(S), NEW p \in Seq(S), NEW n \in S, IsPrefix(r, p)
  PROVE  IsPrefix(r, Append(p, n))
<1> DEFINE a == Append(p, n)
<1>1. /\ a \in Seq(S) /\ Len(a) = Len(p) + 1 /\ \A i \in 1 .. Len(p) : a[i] = p[i]
      /\ Len(p) \in Nat /\ Len(r) \in Nat /\ Len(r) <= Len(p)
      /\ SubSeq(r, 1, Len(r)) = SubSeq(p, 1, Len(r))
  BY AppendProperties, LenProperties DEF IsPrefix
<1> HIDE DEF a
<1>2. \A i \in 1 .. Len(r) : a[i] = p[i] /\ p[i] \in S
  BY <1>1, LenProperties
<1>3. /\ SubSeq(a, 1, Len(r)) \in Seq(S) /\ Len(SubSeq(a, 1, Len(r))) = Len(r)
      /\ \A i \in 1 .. Len(r) : SubSeq(a, 1, Len(r))[i] = a[i]
  BY <1>1, <1>2, SubSeqProperties
<1>4. /\ SubSeq(p, 1, Len(r)) \in Seq(S) /\ Len(SubSeq(p, 1, Len(r))) = Len(r)
      /\ \A i \in 1 .. Len(r) : SubSeq(p, 1, Len(r))[i] = p[i]
  BY <1>1, <1>2, SubSeqProperties
<1>5. SubSeq(a, 1, Len(r)) = SubSeq(p, 1, Len(r))
  BY <1>1, <1>2, <1>3, <1>4, SeqEqual
<1> QED BY <1>1, <1>5 DEF IsPrefix, a

LEMMA FlatIsText ==
  ASSUME NEW p \in Path
  PROVE  /\ Flat(p) \in Seq(Letters) /\ Len(Flat(p)) \in Nat
         /\ p = <<>> => Flat(p) = <<>>
         /\ p # <<>> => Len(Flat(p)) >= 2
<1>1. ASSUME p = <<>> PROVE Flat(p) = <<>> /\ Flat(p) \in Seq(Letters)
  <2>1. Slashed(<<>>) = <<>>
    BY DEF Slashed
  <2>2. FlattenSeq(<<>>) = <<>>
    BY DEF FlattenSeq
  <2> QED BY <1>1, <2>1, <2>2, EmptySeq DEF Flat
<1>2. ASSUME p # <<>> PROVE Flat(p) \in Seq(Letters) /\ Len(Flat(p)) >= 2
  <2>1. Front(p) \in Path /\ Last(p) \in Name /\ p = Append(Front(p), Last(p))
    BY <1>2, FrontLast DEF Path
  <2>2. PICK q \in Path, n \in Name : p = Append(q, n)
    BY <2>1
  <2>3. /\ Flat(q) \in Seq(Letters) /\ Flat(p) \in Seq(Letters) /\ Len(n) \in Nat /\ Len(n) >= 1
        /\ Len(Flat(p)) = Len(Flat(q)) + 1 + Len(n)
    BY <2>2, FlatGrows
  <2> QED BY <2>3, LenProperties
<1>3. Flat(p) \in Seq(Letters)
  BY <1>1, <1>2
<1> QED BY <1>1, <1>2, <1>3, LenProperties

(* Two texts that are the same are so name by name, for the last slash of  *)
(* each is before its last name.                                           *)
LEMMA FlatInjective ==
  ASSUME NEW p0 \in Path, NEW q0 \in Path, Flat(p0) = Flat(q0)
  PROVE  p0 = q0
<1> DEFINE T == {p \in Path : \A q \in Path : Flat(p) = Flat(q) => p = q}
<1>1. <<>> \in T
  <2>1. <<>> \in Path
    BY Ways
  <2>2. Len(Flat(<<>>)) = 0
    BY <2>1, FlatIsText, EmptySeq
  <2>3. \A q \in Path : q # <<>> => Len(Flat(q)) # 0
    BY FlatIsText
  <2> QED BY <2>1, <2>2, <2>3
<1>2. ASSUME NEW p \in Path, NEW n \in Name, p \in T PROVE Append(p, n) \in T
  <2>1. Append(p, n) \in Path
    BY AppendProperties DEF Path
  <2> SUFFICES ASSUME NEW r \in Path, Flat(Append(p, n)) = Flat(r) PROVE Append(p, n) = r
    BY <2>1
  <2>2. r # <<>>
    <3>0. Append(p, n) # <<>>
      BY AppendProperties DEF Path
    <3>1. Len(Flat(Append(p, n))) >= 2
      BY <2>1, <3>0, FlatIsText
    <3> QED BY <3>1, FlatIsText, EmptySeq
  <2>3. PICK q \in Path, m \in Name : r = Append(q, m)
    BY <2>2, FrontLast DEF Path
  <2> DEFINE t == Flat(r)
             i == Len(Flat(p))
             j == Len(Flat(q))
  <2>4. /\ Flat(p) \in Seq(Letters) /\ t \in Seq(Letters) /\ i \in Nat
        /\ Len(n) \in Nat /\ Len(n) >= 1 /\ Len(t) = i + 1 + Len(n)
        /\ \A k \in 1 .. i : t[k] = Flat(p)[k]
        /\ t[i + 1] = "/"
        /\ \A k \in 1 .. Len(n) : t[i + 1 + k] = n[k]
        /\ \A k \in 1 .. Len(t) : k > i + 1 => t[k] # "/"
    <3>1. t = Flat(Append(p, n)) /\ i \in Nat
      BY <2>3, FlatIsText
    <3> HIDE DEF t
    <3> QED BY <3>1, FlatGrows
  <2>5. /\ Flat(q) \in Seq(Letters) /\ t \in Seq(Letters) /\ j \in Nat
        /\ Len(m) \in Nat /\ Len(m) >= 1 /\ Len(t) = j + 1 + Len(m)
        /\ \A k \in 1 .. j : t[k] = Flat(q)[k]
        /\ t[j + 1] = "/"
        /\ \A k \in 1 .. Len(m) : t[j + 1 + k] = m[k]
        /\ \A k \in 1 .. Len(t) : k > j + 1 => t[k] # "/"
    <3>1. t = Flat(Append(q, m)) /\ j \in Nat
      BY <2>3, FlatIsText
    <3> HIDE DEF t
    <3> QED BY <3>1, FlatGrows
  <2> HIDE DEF t, i, j
  <2>6. ~(i < j)
    BY <2>4, <2>5
  <2>7. ~(j < i)
    BY <2>4, <2>5
  <2>8. i = j /\ Len(n) = Len(m)
    BY <2>4, <2>5, <2>6, <2>7
  <2>9. n = m
    <3>1. n \in Seq(STRING \ {"/"}) /\ m \in Seq(STRING \ {"/"})
      BY DEF Name
    <3>2. \A k \in 1 .. Len(n) : n[k] = m[k]
      BY <2>4, <2>5, <2>8
    <3> QED BY <2>8, <3>1, <3>2, SeqEqual
  <2>10. Flat(p) = Flat(q)
    <3>1. Len(Flat(p)) = Len(Flat(q)) /\ \A k \in 1 .. Len(Flat(p)) : Flat(p)[k] = Flat(q)[k]
      BY <2>4, <2>5, <2>8 DEF i, j
    <3> QED BY <2>4, <2>5, <3>1, SeqEqual
  <2> QED BY <1>2, <2>3, <2>9, <2>10
<1> HIDE DEF T
<1>3. \A p \in Seq(Name) : p \in T
  BY <1>1, <1>2, AppendInduction DEF Path
<1> QED BY <1>3 DEF T, Path

(* A text that begins another and is followed there by a slash, if by      *)
(* anything.                                                               *)
Under(s, t) == /\ Len(s) <= Len(t) /\ \A i \in 1 .. Len(s) : t[i] = s[i]
               /\ Len(s) < Len(t) => t[Len(s) + 1] = "/"

LEMMA UnderIsPrefix ==
  ASSUME NEW S, NEW s \in Seq(S), NEW t \in Seq(S)
  PROVE  IsPrefix(s, t) <=> Len(s) <= Len(t) /\ \A i \in 1 .. Len(s) : t[i] = s[i]
<1>1. Len(s) \in Nat /\ Len(t) \in Nat
  BY LenProperties
<1>2. SubSeq(s, 1, Len(s)) = s
  BY SubSeqFull
<1>3. ASSUME Len(s) <= Len(t)
      PROVE  SubSeq(t, 1, Len(s)) = s <=> \A i \in 1 .. Len(s) : t[i] = s[i]
  <2>1. \A i \in 1 .. Len(s) : t[i] \in S /\ s[i] \in S
    BY <1>1, <1>3, ElementOfSeq
  <2>2. /\ SubSeq(t, 1, Len(s)) \in Seq(S) /\ Len(SubSeq(t, 1, Len(s))) = Len(s)
        /\ \A i \in 1 .. Len(s) : SubSeq(t, 1, Len(s))[i] = t[i]
    BY <1>1, <2>1, SubSeqProperties
  <2> QED BY <2>2, SeqEqual
<1> QED BY <1>2, <1>3 DEF IsPrefix

LEMMA UnderIsInside ==
  ASSUME NEW p \in Path, NEW q0 \in Path
  PROVE  Under(Flat(p), Flat(q0)) <=> IsPrefix(p, q0)
<1> DEFINE T == {q \in Path : Under(Flat(p), Flat(q)) <=> IsPrefix(p, q)}
           s == Flat(p)
<1>1. s \in Seq(Letters) /\ Len(s) \in Nat /\ p \in Seq(Name) /\ Len(p) \in Nat
  BY FlatIsText, LenProperties DEF Path
<1>2. \A q \in Path : p = q => Under(s, Flat(q)) /\ IsPrefix(p, q)
  BY <1>1 DEF Under, IsPrefix
<1>3. <<>> \in T
  <2>1. <<>> \in Path /\ Len(Flat(<<>>)) = 0
    BY Ways, FlatIsText, EmptySeq
  <2>2. Under(s, Flat(<<>>)) => p = <<>>
    BY <1>1, <2>1, FlatIsText DEF Under
  <2>3. IsPrefix(p, <<>>) => p = <<>>
    BY <1>1, EmptySeq DEF IsPrefix
  <2> QED BY <1>2, <2>1, <2>2, <2>3
<1>4. ASSUME NEW q \in Path, NEW m \in Name, q \in T PROVE Append(q, m) \in T
  <2> DEFINE r == Append(q, m)
             t == Flat(r)
             u == Flat(q)
             j == Len(u)
  <2>1. r \in Path /\ r \in Seq(Name) /\ q \in Seq(Name) /\ Len(r) = Len(q) + 1 /\ Len(q) \in Nat
    BY AppendProperties, LenProperties DEF Path
  <2>2. /\ u \in Seq(Letters) /\ t \in Seq(Letters) /\ j \in Nat /\ Len(t) \in Nat
        /\ Len(m) \in Nat /\ Len(m) >= 1 /\ Len(t) = j + 1 + Len(m)
        /\ \A k \in 1 .. j : t[k] = u[k]
        /\ t[j + 1] = "/"
        /\ \A k \in 1 .. Len(t) : k > j + 1 => t[k] # "/"
    <3>1. j \in Nat /\ Len(t) \in Nat
      BY <2>1, FlatIsText
    <3> QED BY <3>1, FlatGrows
  <2> HIDE DEF r, t, u, j
  <2>3. ASSUME Under(s, t) PROVE IsPrefix(p, r)
    <3>1. CASE Len(s) <= j
      <4>1. Under(s, u)
        <5>1. Len(s) <= Len(t) /\ \A i \in 1 .. Len(s) : t[i] = s[i]
          BY <2>3 DEF Under
        <5>2. \A i \in 1 .. Len(s) : i \in 1 .. j
          BY <1>1, <2>2, <3>1
        <5>3. \A i \in 1 .. Len(s) : u[i] = s[i]
          BY <2>2, <5>1, <5>2
        <5>4. ASSUME Len(s) < j PROVE u[Len(s) + 1] = "/"
          <6>1. Len(s) < Len(t) /\ Len(s) + 1 \in 1 .. j
            BY <1>1, <2>2, <5>4
          <6>2. t[Len(s) + 1] = "/"
            BY <2>3, <6>1 DEF Under
          <6> QED BY <2>2, <6>1, <6>2
        <5> QED BY <3>1, <5>3, <5>4 DEF Under, j
      <4>2. IsPrefix(p, q)
        BY <1>4, <4>1 DEF u
      <4> QED BY <1>1, <2>1, <4>2, PrefixGrows DEF r
    <3>2. CASE Len(s) > j
      <4>1. Len(s) = Len(t)
        <5> SUFFICES ASSUME Len(s) # Len(t) PROVE FALSE
          OBVIOUS
        <5>1. Len(s) < Len(t) /\ t[Len(s) + 1] = "/"
          BY <1>1, <2>2, <2>3 DEF Under
        <5>2. Len(s) + 1 \in 1 .. Len(t) /\ Len(s) + 1 > j + 1
          BY <1>1, <2>2, <3>2, <5>1
        <5> QED BY <2>2, <5>1, <5>2
      <4>2. s = t
        BY <1>1, <2>2, <2>3, <4>1, SeqEqual DEF Under
      <4>3. p = r
        BY <2>1, <4>2, FlatInjective DEF t
      <4> QED BY <1>2, <2>1, <4>3
    <3> QED BY <1>1, <2>2, <3>1, <3>2
  <2>4. ASSUME IsPrefix(p, r) PROVE Under(s, t)
    <3>1. Len(p) <= Len(r) /\ \A i \in 1 .. Len(p) : r[i] = p[i]
      BY <1>1, <2>1, <2>4, UnderIsPrefix
    <3>2. CASE Len(p) = Len(r)
      <4>1. p = r
        BY <1>1, <2>1, <3>1, <3>2, SeqEqual
      <4> QED BY <1>2, <2>1, <4>1 DEF t
    <3>3. CASE Len(p) # Len(r)
      <4>1. Len(p) <= Len(q)
        BY <1>1, <2>1, <3>1, <3>3
      <4>2. \A i \in 1 .. Len(q) : r[i] = q[i]
        BY AppendProperties DEF r, Path
      <4>3. IsPrefix(p, q)
        BY <1>1, <2>1, <3>1, <4>1, <4>2, UnderIsPrefix
      <4>4. Under(s, u)
        BY <1>4, <4>3 DEF u
      <4>5. Len(s) <= j /\ \A i \in 1 .. Len(s) : u[i] = s[i]
        BY <4>4 DEF Under, j
      <4>6. \A i \in 1 .. Len(s) : t[i] = s[i]
        BY <1>1, <2>2, <4>5
      <4>7. t[Len(s) + 1] = "/"
        <5>1. CASE Len(s) = j
          BY <2>2, <5>1
        <5>2. CASE Len(s) # j
          <6>1. Len(s) + 1 \in 1 .. j /\ u[Len(s) + 1] = "/"
            BY <1>1, <2>2, <4>4, <4>5, <5>2 DEF Under, j
          <6> QED BY <2>2, <6>1
        <5> QED BY <5>1, <5>2
      <4> QED BY <1>1, <2>2, <4>5, <4>6, <4>7 DEF Under
    <3> QED BY <3>2, <3>3
  <2> QED BY <2>1, <2>3, <2>4 DEF r, t
<1> HIDE DEF T
<1>5. \A q \in Seq(Name) : q \in T
  BY <1>3, <1>4, AppendInduction DEF Path
<1> QED BY <1>5 DEF T, Path

(* The texts of paths tell inside from outside; but below the root, "/" as *)
(* the working directory, the text of no path goes on with a slash.        *)
LEMMA WithinIsInside ==
  ASSUME NEW p \in Path
  PROVE  /\ WithinWorkspace(p) => Inside(p)
         /\ Workdir # <<>> /\ Inside(p) => WithinWorkspace(p)
<1>1. Workdir \in Path /\ p # NoPath
  BY WorkdirAssumption
<1>2. \A q \in Path : q # <<>> => Text(q) = Flat(q)
  BY DEF Text, Flat, Slashed
<1>3. CASE Workdir = <<>>
  <2>1. SubSeq(<<>>, 1, 0) = <<>> /\ SubSeq(p, 1, 0) = <<>>
    BY SubSeqEmpty
  <2>2. Len(<<>>) = 0 /\ Len(p) \in Nat
    BY LenProperties DEF Path
  <2> QED BY <1>1, <1>3, <2>1, <2>2 DEF Inside, IsPrefix
<1>4. CASE Workdir # <<>>
  <2> DEFINE s == Flat(Workdir)
             t == Text(p)
  <2>1. s \in Seq(Letters) /\ Len(s) \in Nat /\ Len(s) >= 2 /\ Text(Workdir) = s
    BY <1>1, <1>2, <1>4, FlatIsText
  <2>2. CASE p = <<>>
    <3>1. t = <<"/">>
      BY <2>2 DEF Text
    <3>2. Len(t) = 1
      BY <3>1, SlashIsText
    <3>3. ~WithinWorkspace(p)
      BY <2>1, <3>2 DEF WithinWorkspace, IsPrefix
    <3>4. ~IsPrefix(Workdir, p)
      BY <1>1, <1>4, <2>2, EmptySeq, LenProperties DEF IsPrefix, Path
    <3> QED BY <3>3, <3>4 DEF Inside
  <2>3. CASE p # <<>>
    <3>1. t = Flat(p) /\ t \in Seq(Letters) /\ Len(t) \in Nat
      BY <1>2, <2>3, FlatIsText
    <3> HIDE DEF s, t
    <3>2. WithinWorkspace(p) <=> IsPrefix(s, t) /\ (Len(s) < Len(t) => t[Len(s) + 1] = "/")
      BY <2>1 DEF WithinWorkspace, t
    <3>3. WithinWorkspace(p) <=> Under(s, t)
      BY <2>1, <3>1, <3>2, UnderIsPrefix DEF Under
    <3>4. Under(s, t) <=> IsPrefix(Workdir, p)
      BY <1>1, <3>1, UnderIsInside DEF s
    <3> QED BY <1>1, <3>3, <3>4 DEF Inside
  <2> QED BY <2>2, <2>3
<1> QED BY <1>3, <1>4

(* What the path that comes back leads to.                                 *)
LEMMA ResolutionLeads ==
  ASSUME NEW fs1, IsTree(fs1), NEW rel, rel.names \in Path, ResolveWorkspacePath(fs1, rel) # NoPath
  PROVE  LET given == ResolveWorkspacePath(fs1, rel)
         IN /\ given \in Path
            /\ LeadsAsAsked(fs1, Workdir \o rel.names, given)
            /\ \/ Opens(fs1, given) = NoPath \/ Inside(Opens(fs1, given))
               \/ Dangling(fs1, Workdir \o rel.names, given)
<1> DEFINE given == ResolveWorkspacePath(fs1, rel)
           full == Workdir \o rel.names
<1>1. rel.names # <<>>
  BY DEF ResolveWorkspacePath
<1>2. full \in Path /\ full # <<>> /\ Workdir \in Path
  BY <1>1, WorkdirAssumption, ConcatProperties, ConcatSimplifications DEF Path
<1>3. \A p \in Path : p # NoPath
  BY WorkdirAssumption
<1>4. CASE Realpath(fs1, full) # NoPath
  <2>1. given = Opens(fs1, full) /\ WithinWorkspace(given)
    BY <1>1, <1>4 DEF ResolveWorkspacePath, Realpath
  <2> HIDE DEF given, full
  <2>2. given \in Path /\ Opens(fs1, given) = Opens(fs1, full)
    BY <1>2, <1>4, <2>1, OpensPlain DEF Realpath
  <2>3. Inside(Opens(fs1, given))
    BY <2>1, <2>2, WithinIsInside
  <2> QED BY <2>2, <2>3 DEF LeadsAsAsked, given, full
<1>5. CASE Realpath(fs1, full) = NoPath
  <2> DEFINE parent == Opens(fs1, Front(full))
  <2>1. given = Graft(fs1, full) /\ given # NoPath
    BY <1>1, <1>5 DEF ResolveWorkspacePath
  <2> HIDE DEF given, full
  <2>2. Front(full) \in Path
    BY <1>2, FrontLast DEF Path
  <2>3. /\ parent # NoPath /\ parent \in DOMAIN fs1 /\ WithinWorkspace(parent)
        /\ given = Append(parent, Last(full))
    BY <2>1 DEF Graft, Realpath
  <2> HIDE DEF parent
  <2>4. /\ parent \in Path /\ Plain(fs1, parent) /\ Last(full) \in Name /\ given \in Path
        /\ LeadsAsAsked(fs1, full, given)
        /\ Last(full) \in {Dot, DotDot} \/ ~LinkAt(fs1, given) =>
              /\ Opens(fs1, full) = Opens(fs1, given)
              /\ Opens(fs1, given) =
                    IF ~DirectoryAt(fs1, parent) THEN NoPath
                    ELSE IF Last(full) = Dot THEN parent
                    ELSE IF Last(full) = DotDot THEN (IF parent = <<>> THEN <<>> ELSE Front(parent))
                    ELSE given
    BY <1>2, <2>3, OpensBelow DEF parent
  <2>5. ASSUME ~LinkAt(fs1, given), Opens(fs1, given) # NoPath
        PROVE  Inside(Opens(fs1, given))
    <3>1. Opens(fs1, full) \notin DOMAIN fs1
      BY <1>5, <2>4, <2>5 DEF Realpath
    <3>2. Opens(fs1, full) = Opens(fs1, given)
      BY <2>4, <2>5
    <3>3. Opens(fs1, given) = parent \/ Opens(fs1, given) = given
          \/ (parent # <<>> /\ Opens(fs1, given) = Front(parent))
      BY <2>4, <2>5
    <3>4. parent # <<>> => Front(parent) \in DOMAIN fs1
      BY <2>4, PlainFront DEF DirectoryAt
    <3>5. Opens(fs1, given) = given
      BY <2>3, <3>1, <3>2, <3>3, <3>4
    <3>6. IsPrefix(Workdir, parent)
      BY <2>3, <2>4, WithinIsInside DEF Inside
    <3>7. IsPrefix(Workdir, given)
      BY <1>2, <2>3, <2>4, <3>6, PrefixGrows DEF Path
    <3> QED BY <1>3, <2>4, <3>5, <3>7 DEF Inside
  <2> QED BY <1>5, <2>4, <2>5 DEF given, full, Dangling
<1> QED BY <1>4, <1>5

(* The paths that come back are those that lead inside, and what exists is *)
(* given back as itself.                                                   *)
LEMMA ResolutionComes ==
  ASSUME NEW fs1, IsTree(fs1), NEW rel, rel.names \in Path, Workdir # <<>>
  PROVE  ResolvesAsAsked(fs1, rel)
<1> DEFINE given == ResolveWorkspacePath(fs1, rel)
           asked == Workdir \o rel.names
           real  == Realpath(fs1, asked)
           parent == Realpath(fs1, Front(asked))
<1>1. ASSUME given # NoPath
      PROVE  /\ LeadsAsAsked(fs1, asked, given)
             /\ \/ Opens(fs1, given) = NoPath \/ Inside(Opens(fs1, given))
                \/ Dangling(fs1, asked, given)
  BY <1>1, ResolutionLeads
<1>2. given # NoPath => ~rel.absolute /\ rel.names # <<>>
  BY DEF ResolveWorkspacePath
<1>3. given # NoPath /\ real # NoPath => given = real
  BY DEF ResolveWorkspacePath
<1>4. ASSUME ~rel.absolute, rel.names # <<>>
      PROVE  given # NoPath <=> Inside(real) \/ (real = NoPath /\ Inside(parent))
  <2>1. asked \in Path /\ asked # <<>>
    BY <1>4, WorkdirAssumption, ConcatProperties, ConcatSimplifications DEF Path
  <2>2. Front(asked) \in Path /\ Last(asked) \in Name
    BY <2>1, FrontLast DEF Path
  <2>3. given = IF real = NoPath
                THEN IF parent # NoPath /\ WithinWorkspace(parent)
                     THEN Append(parent, Last(asked)) ELSE NoPath
                ELSE IF WithinWorkspace(real) THEN real ELSE NoPath
    BY <1>4 DEF ResolveWorkspacePath, Graft
  <2> HIDE DEF asked
  <2>4. \A p \in Path : Realpath(fs1, p) # NoPath => Realpath(fs1, p) \in Path
    BY OpensPlain DEF Realpath
  <2>5. (real # NoPath => real \in Path) /\ (parent # NoPath => parent \in Path)
    BY <2>1, <2>2, <2>4
  <2> HIDE DEF given, real, parent
  <2>6. (real # NoPath => (WithinWorkspace(real) <=> Inside(real))) /\ ~Inside(NoPath)
    BY <2>5, WithinIsInside DEF Inside
  <2>7. parent # NoPath => (WithinWorkspace(parent) <=> Inside(parent))
    BY <2>5, WithinIsInside
  <2>8. parent # NoPath => Append(parent, Last(asked)) # NoPath
    <3>1. parent # NoPath => Append(parent, Last(asked)) \in Path
      BY <2>2, <2>5, AppendProperties DEF Path
    <3> QED BY <3>1, WorkdirAssumption
  <2> QED BY <2>3, <2>6, <2>7, <2>8
<1> QED BY <1>1, <1>2, <1>3, <1>4 DEF ResolvesAsAsked

-----------------------------------------------------------------------------
(* The path that the tool was given, as resolved when it was called, and   *)
(* what edit_file makes of the content of its file.                        *)
Given == ResolveWorkspacePath(before, req.path)
Edited(data) ==
    Replaced(data, Found(data, CString(req.old_text)), CString(req.old_text), CString(req.new_text))

TypeOK ==
    /\ IsFileSystem(fs) /\ IsFileSystem(before)
    /\ at \in {"start", "idle", "called", "resolved", "reading", "edited", "open", "buffered",
               "done", "dead"}
    /\ pos \in Nat /\ lines \in Nat /\ content \in Seq(Char)
    /\ result.ok \in BOOLEAN /\ disturbed \in BOOLEAN /\ short \in BOOLEAN
    /\ at \in {"start", "idle"} \/ req \in Requests \/ at = "dead"

(* The registry, empty and then filled.                                    *)
Registered ==
    /\ at = "start" => g_tools = <<>>
    /\ at \notin {"start", "dead"} =>
          g_tools = <<BashDef, ReadFileDef, WriteFileDef, EditFileDef>>

(* Before a call, and until a tool has opened its file, nothing is left of *)
(* the call before; short is about the call that is done.                  *)
Fresh ==
    /\ at \in {"start", "idle", "called", "resolved"} =>
          file = NoPath /\ pos = 0 /\ lines = 0 /\ content = <<>> /\ result = Failure
    /\ at \in {"start", "idle"} => ~disturbed
    /\ at # "done" => ~short

ToolByPlace ==
    /\ at = "reading" => req.tool = "read_file"
    /\ at = "edited" => req.tool = "edit_file"
    /\ at \in {"open", "buffered"} => req.tool \in {"write_file", "edit_file"}
    /\ at \in {"resolved", "reading", "edited", "open", "buffered"} => req.path # Missing
    /\ at = "resolved" /\ req.tool = "write_file" => req.content # Missing
    /\ at = "resolved" /\ req.tool = "edit_file" =>
          Missing \notin {req.old_text, req.new_text} /\ CString(req.old_text) # <<>>

(* Until a tool changes its file, only another process has changed any.    *)
Untouched ==
    at \in {"start", "idle", "called", "resolved", "reading", "edited", "dead"} /\ ~disturbed =>
        fs = before

(* The path that a tool opens is the one its caller's led to, and the file *)
(* it has open the one that the path named, at the call.                   *)
SafeAsGiven ==
    /\ at \in {"resolved", "edited"} => safe \in Path
    /\ at \in {"resolved", "edited", "open", "buffered"} /\ ~disturbed =>
          safe = Given /\ Given # NoPath

OpenAsNamed ==
    /\ at \in {"open", "buffered"} => file # NoPath /\ FileAt(file)
    /\ at \in {"edited", "open", "buffered"} /\ ~disturbed =>
          file = Opens(before, Given) /\ file # NoPath /\ FileAt(file)

ContentAsked ==
    /\ req.tool = "write_file" => content = CString(req.content)
    /\ req.tool = "edit_file" =>
          /\ file \in DOMAIN before /\ before[file].data \in Seq(Char)
          /\ Missing \notin {req.old_text, req.new_text} /\ CString(req.old_text) # <<>>
          /\ Found(before[file].data, CString(req.old_text)) # 0
          /\ content = Edited(before[file].data)

(* What the file holds on the way: nothing, then whole blocks.             *)
WrittenByPlace ==
    ~disturbed =>
        /\ at \in {"edited", "open", "buffered"} => ContentAsked
        /\ at = "open" => Data(file) = <<>>
        /\ at = "buffered" => Data(file) = SubSeq(content, 1, AtOnce)
        /\ at = "done" /\ fs # before => IsPrefix(Data(file), content)
        /\ at = "done" /\ ~result.ok /\ ~short => fs = before
        /\ at = "done" /\ result.ok /\ ~short /\ req.tool \in {"write_file", "edit_file"} =>
              Data(file) = content /\ ContentAsked

IInv ==
    /\ TypeOK /\ Registered /\ Fresh /\ ToolByPlace
    /\ Untouched /\ SafeAsGiven /\ OpenAsNamed /\ WrittenByPlace

-----------------------------------------------------------------------------
(* What strlen sees is what is before the first zero byte.                 *)
LEMMA CStringProperties ==
  ASSUME NEW s \in Seq(Char)
  PROVE  /\ CString(s) \in Seq(Char)
         /\ \E n \in 0 .. Len(s) :
               /\ CString(s) = SubSeq(s, 1, n) /\ Len(CString(s)) = n
               /\ \A i \in 1 .. n : s[i] # NUL /\ CString(s)[i] = s[i]
               /\ n < Len(s) => s[n + 1] = NUL
<1> DEFINE N == Len(s)
           I == {i \in 1 .. N : s[i] = NUL}
<1>1. N \in Nat /\ \A i \in 1 .. N : s[i] \in Char
  BY LenProperties, ElementOfSeq
<1>2. \A n \in 0 .. N : /\ SubSeq(s, 1, n) \in Seq(Char) /\ Len(SubSeq(s, 1, n)) = n
                        /\ \A i \in 1 .. n : SubSeq(s, 1, n)[i] = s[i]
  <2> SUFFICES ASSUME NEW n \in 0 .. N
               PROVE  /\ SubSeq(s, 1, n) \in Seq(Char) /\ Len(SubSeq(s, 1, n)) = n
                      /\ \A i \in 1 .. n : SubSeq(s, 1, n)[i] = s[i]
    OBVIOUS
  <2>1. \A i \in 1 .. n : s[i] \in Char
    BY <1>1
  <2> QED BY <1>1, <2>1, SubSeqProperties
<1>3. SubSeq(s, 1, N) = s
  BY SubSeqFull
<1>4. CString(s) = IF I = {} THEN s ELSE SubSeq(s, 1, Min(I) - 1)
  <2>1. SelectInSeq(s, LAMBDA c : c = NUL) = IF I # {} THEN Min(I) ELSE 0
    BY DEF SelectInSeq
  <2>2. I # {} => Min(I) \in I /\ \A j \in I : Min(I) <= j
    <3> SUFFICES ASSUME I # {} PROVE Min(I) \in I /\ \A j \in I : Min(I) <= j
      OBVIOUS
    <3>1. I \in SUBSET Nat
      BY <1>1
    <3> HIDE DEF I
    <3>2. \E i \in I : \A j \in I : i <= j
      BY <3>1, LeastNumber
    <3> QED BY <3>2 DEF Min
  <2>3. I # {} => Min(I) # 0
    BY <2>2
  <2> QED BY <2>1, <2>3 DEF CString
<1>5. CASE I = {}
  <2>1. CString(s) = SubSeq(s, 1, N)
    BY <1>3, <1>4, <1>5
  <2>2. \A i \in 1 .. N : s[i] # NUL
    BY <1>5
  <2>3. N \in 0 .. N
    BY <1>1
  <2> QED BY <1>1, <1>2, <2>1, <2>2, <2>3
<1>6. CASE I # {}
  <2>1. PICK m \in I : Min(I) = m /\ \A j \in I : m <= j
    <3>1. I \in SUBSET Nat
      BY <1>1
    <3> HIDE DEF I
    <3>2. \E i \in I : \A j \in I : i <= j
      BY <1>6, <3>1, LeastNumber
    <3> QED BY <3>2 DEF Min
  <2>2. m - 1 \in 0 .. N /\ s[(m - 1) + 1] = NUL /\ CString(s) = SubSeq(s, 1, m - 1)
    <3>1. m \in 1 .. N /\ s[m] = NUL
      OBVIOUS
    <3>2. (m - 1) + 1 = m /\ m - 1 \in 0 .. N
      BY <1>1, <3>1
    <3>3. CString(s) = SubSeq(s, 1, m - 1)
      BY <1>4, <1>6, <2>1
    <3> QED BY <3>1, <3>2, <3>3
  <2>3. \A i \in 1 .. m - 1 : s[i] # NUL
    BY <1>1, <2>1
  <2> QED BY <1>2, <2>2, <2>3
<1> QED BY <1>5, <1>6

(* What the requests hold.                                                 *)
LEMMA RequestTypes ==
  ASSUME NEW r \in Requests
  PROVE  /\ r.path # Missing => r.path.names \in Path
         /\ r.tool = "read_file" => r.limit = Missing \/ r.limit \in Int
         /\ r.content # Missing => CString(r.content) \in Seq(Char)
         /\ r.old_text # Missing => CString(r.old_text) \in Seq(Char)
         /\ r.new_text # Missing => CString(r.new_text) \in Seq(Char)
<1>1. /\ r.content # Missing => r.content \in Seq(Char)
      /\ r.old_text # Missing => r.old_text \in Seq(Char)
      /\ r.new_text # Missing => r.new_text \in Seq(Char)
  BY RequestsAssumption
<1> QED BY <1>1, RequestsAssumption, CStringProperties

(* A write at the end of a file adds to it, and any write leaves a file.   *)
LEMMA WrittenIsFile ==
  ASSUME IsFileSystem(fs), NEW p, FileAt(p), NEW from \in Nat, NEW s \in Seq(Char)
  PROVE  LET f == Written(p, from, s)
         IN /\ DOMAIN f = DOMAIN fs /\ \A q \in DOMAIN fs \ {p} : f[q] = fs[q]
            /\ f[p].data \in Seq(Char) /\ f[p] = File(f[p].data)
            /\ from = Len(Data(p)) => f[p].data = Data(p) \o s
<1> DEFINE d == Data(p)
           new == [i \in 1 .. from + Len(s) |-> IF i > from THEN s[i - from]
                                                ELSE IF i <= Len(d) THEN d[i] ELSE NUL]
           tail == SubSeq(d, from + Len(s) + 1, Len(d))
           f == Written(p, from, s)
<1>1. p \in DOMAIN fs /\ fs[p] = File(d) /\ d \in Seq(Char)
  BY DEF FileAt, IsFileSystem, IsNode, Data
<1>2. Len(d) \in Nat /\ Len(s) \in Nat
  BY <1>1, LenProperties
<1>3. f = [fs EXCEPT ![p].data = new \o tail]
  BY DEF Written, Data
<1>4. new \in Seq(Char) /\ Len(new) = from + Len(s)
  <2>1. \A i \in 1 .. from + Len(s) : new[i] \in Char
    <3> SUFFICES ASSUME NEW i \in 1 .. from + Len(s) PROVE new[i] \in Char
      OBVIOUS
    <3>1. CASE i > from
      BY <1>2, <3>1, ElementOfSeq
    <3>2. CASE ~(i > from) /\ i <= Len(d)
      <4>1. d[i] \in Char
        BY <1>1, <1>2, <3>2, ElementOfSeq
      <4> QED BY <3>2, <4>1
    <3>3. CASE ~(i > from) /\ ~(i <= Len(d))
      BY <3>3, CharAssumption
    <3> QED BY <3>1, <3>2, <3>3
  <2>2. new \in [1 .. from + Len(s) -> Char]
    BY <2>1
  <2>3. PICK k \in Nat : k = from + Len(s)
    BY <1>2
  <2> HIDE DEF new
  <2>4. new \in Seq(Char)
    BY <2>2, <2>3, SeqDef
  <2>5. DOMAIN new = 1 .. k
    BY <2>2, <2>3
  <2> QED BY <2>3, <2>4, <2>5, LenProperties
<1>5. tail \in Seq(Char)
  <2>1. \A i \in from + Len(s) + 1 .. Len(d) : d[i] \in Char
    BY <1>1, <1>2, ElementOfSeq
  <2> QED BY <1>2, <2>1, SubSeqProperties
<1> HIDE DEF new, tail, d, f
<1>6. new \o tail \in Seq(Char)
  BY <1>4, <1>5, ConcatProperties
<1>7. f = [q \in DOMAIN fs |-> IF q = p THEN [fs[p] EXCEPT !.data = new \o tail] ELSE fs[q]]
  BY <1>3
<1>8. [fs[p] EXCEPT !.data = new \o tail] = File(new \o tail)
  <2>1. \A a, b : [File(a) EXCEPT !.data = b] = File(b)
    BY DEF File
  <2> QED BY <1>1, <2>1
<1>9. f[p] = File(new \o tail) /\ DOMAIN f = DOMAIN fs /\ \A q \in DOMAIN fs \ {p} : f[q] = fs[q]
  BY <1>1, <1>7, <1>8
<1>10. f[p].data = new \o tail
  BY <1>9 DEF File
<1>11. ASSUME from = Len(d) PROVE new \o tail = d \o s
  <2>1. tail = <<>>
    BY <1>2, <1>11, SubSeqEmpty DEF tail
  <2>2. /\ d \o s \in Seq(Char) /\ Len(d \o s) = Len(d) + Len(s)
        /\ \A i \in 1 .. Len(d) + Len(s) : (d \o s)[i] = IF i <= Len(d) THEN d[i] ELSE s[i - Len(d)]
    BY <1>1, ConcatProperties
  <2>3. \A i \in 1 .. Len(d) + Len(s) : new[i] = IF i <= Len(d) THEN d[i] ELSE s[i - Len(d)]
    BY <1>2, <1>11 DEF new
  <2>4. new = d \o s
    BY <1>4, <1>11, <2>2, <2>3, SeqEqual
  <2> QED BY <1>4, <2>1, <2>4, ConcatEmptySeq
<1> QED BY <1>6, <1>9, <1>10, <1>11 DEF d, f

(* A file system, as walks see it.                                         *)
LEMMA FileSystemIsTree == ASSUME NEW f, IsFileSystem(f) PROVE IsTree(f)
BY DEF IsFileSystem, IsNode, IsTree, LinkAt, File

(* File systems in which one place has become another, or is new.          *)
LEMMA StaysFileSystem ==
  ASSUME IsFileSystem(fs), NEW p \in Path, NEW f, DOMAIN f = DOMAIN fs \cup {p},
         \A q \in DOMAIN fs \ {p} : f[q] = fs[q], IsNode(f[p])
  PROVE  IsFileSystem(f)
<1>1. DOMAIN f \subseteq Path
  BY DEF IsFileSystem
<1>2. \A q \in DOMAIN f : q = p \/ (q \in DOMAIN fs /\ f[q] = fs[q])
  OBVIOUS
<1> QED BY <1>1, <1>2 DEF IsFileSystem

LEMMA EmptiedIsFile ==
  ASSUME NEW p
  PROVE  LET f == Emptied(p)
         IN /\ DOMAIN f = DOMAIN fs \cup {p} /\ \A q \in DOMAIN fs \ {p} : f[q] = fs[q]
            /\ f[p] = File(<<>>) /\ f[p].data = <<>> /\ f[p].kind = "file" /\ IsNode(f[p])
BY EmptySeq DEF Emptied, File, IsNode

(* The path that the sandbox has for a request, and what it opens.         *)
LEMMA ResolvedIsPath ==
  ASSUME IInv, at = "called", req.path # Missing, Resolved # NoPath
  PROVE  Resolved \in Path
<1>1. IsTree(fs) /\ req \in Requests
  BY FileSystemIsTree DEF IInv, TypeOK
<1>2. req.path.names \in Path
  BY <1>1, RequestTypes
<1> QED BY <1>1, <1>2, ResolutionLeads DEF Resolved

LEMMA OpensPath ==
  ASSUME IInv, at \in {"resolved", "edited"}
  PROVE  /\ Opens(fs, safe) # NoPath => Opens(fs, safe) \in Path
         /\ ~disturbed => Opens(fs, safe) = Opens(before, Given)
<1>1. IsTree(fs) /\ safe \in Path
  BY FileSystemIsTree DEF IInv, TypeOK, SafeAsGiven
<1>2. ~disturbed => fs = before /\ safe = Given
  BY DEF IInv, Untouched, SafeAsGiven
<1> QED BY <1>1, <1>2, OpensPlain

(* A place that is neither a directory nor a link is a file of characters. *)
LEMMA FileData ==
  ASSUME IsFileSystem(fs), NEW p \in DOMAIN fs
  PROVE  /\ FileAt(p) => Data(p) \in Seq(Char) /\ fs[p] = File(Data(p)) /\ Len(Data(p)) \in Nat
         /\ p \in Path
         /\ fs[p].kind \in {"dir", "link", "file"}
<1>1. FileAt(p) => Data(p) \in Seq(Char) /\ fs[p] = File(Data(p))
  BY DEF FileAt, IsFileSystem, IsNode, Data
<1>2. p \in Path
  BY DEF IsFileSystem
<1>3. fs[p].kind \in {"dir", "link", "file"}
  BY DEF IsFileSystem, IsNode, File
<1> QED BY <1>1, <1>2, <1>3, LenProperties

-----------------------------------------------------------------------------
LEMMA InitEstablishes == Init => IInv
<1> SUFFICES ASSUME Init PROVE IInv
  OBVIOUS
<1>1. IsFileSystem(fs) /\ before = fs
  BY FileSystemsAssumption DEF Init
<1>2. <<>> \in Seq(Char)
  OBVIOUS
<1>3. TypeOK
  BY <1>1, <1>2 DEF TypeOK, Init, Failure, Result
<1>4. Registered /\ Fresh /\ ToolByPlace /\ Untouched /\ SafeAsGiven /\ OpenAsNamed /\ WrittenByPlace
  BY <1>1 DEF Init, Registered, Fresh, ToolByPlace, Untouched, SafeAsGiven, OpenAsNamed, WrittenByPlace
<1> QED BY <1>3, <1>4 DEF IInv

LEMMA OneMore ==
  ASSUME NEW S, NEW s \in Seq(S), NEW e \in S, NEW n \in Nat, Len(s) + 1 = n
  PROVE  /\ Append(s, e) \in Seq(S) /\ Len(Append(s, e)) = n /\ Append(s, e)[n] = e
         /\ \A i \in 1 .. n - 1 : Append(s, e)[i] = s[i]
<1>1. /\ Append(s, e) \in Seq(S) /\ Len(Append(s, e)) = Len(s) + 1 /\ Append(s, e)[Len(s) + 1] = e
      /\ \A i \in 1 .. Len(s) : Append(s, e)[i] = s[i]
  BY AppendProperties
<1>2. Len(s) = n - 1
  BY LenProperties
<1> QED BY <1>1, <1>2

(* A registry that is not full holds the four tools, once.                 *)
LEMMA RegistryIsFilled ==
  ASSUME ToolsInit(ToolsInit(<<>>)) # Fatal
  PROVE  ToolsInit(ToolsInit(<<>>)) = <<BashDef, ReadFileDef, WriteFileDef, EditFileDef>>
<1> DEFINE a == ToolRegister(<<>>, BashDef)
           b == ToolRegister(a, ReadFileDef)
           c == ToolRegister(b, WriteFileDef)
           d == ToolRegister(c, EditFileDef)
<1>1. \A tools, def : ToolRegister(tools, def) # Fatal =>
         tools # Fatal /\ ToolRegister(tools, def) = Append(tools, def)
  BY DEF ToolRegister
<1>2. ToolsInit(<<>>) = d
  BY DEF ToolsInit
<1>3. \A def : ToolRegister(Fatal, def) = Fatal
  BY DEF ToolRegister
<1>4. ToolsInit(Fatal) = Fatal
  BY <1>3 DEF ToolsInit
<1>5. d # Fatal
  BY <1>2, <1>4
<1> HIDE DEF d
<1>6. d = Append(c, EditFileDef) /\ c # Fatal
  BY <1>1, <1>5 DEF d
<1> HIDE DEF c
<1>7. c = Append(b, WriteFileDef) /\ b # Fatal
  BY <1>1, <1>6 DEF c
<1> HIDE DEF b
<1>8. b = Append(a, ReadFileDef) /\ a # Fatal
  BY <1>1, <1>7 DEF b
<1> HIDE DEF a
<1>9. a = Append(<<>>, BashDef)
  BY <1>1, <1>8 DEF a
<1>10. d = <<BashDef, ReadFileDef, WriteFileDef, EditFileDef>>
  <2> DEFINE S == {BashDef, ReadFileDef, WriteFileDef, EditFileDef}
             all == <<BashDef, ReadFileDef, WriteFileDef, EditFileDef>>
  <2>1. /\ BashDef \in S /\ ReadFileDef \in S /\ WriteFileDef \in S /\ EditFileDef \in S
        /\ <<>> \in Seq(S) /\ Len(<<>>) = 0
        /\ all \in Seq(S) /\ Len(all) = 4
    OBVIOUS
  <2> HIDE DEF S
  <2>2. a \in Seq(S) /\ Len(a) = 1 /\ a[1] = BashDef
    BY <1>9, <2>1, OneMore
  <2>3. b \in Seq(S) /\ Len(b) = 2 /\ b[1] = BashDef /\ b[2] = ReadFileDef
    <3>1. Len(a) + 1 = 2
      BY <2>2
    <3> QED BY <1>8, <2>1, <2>2, <3>1, OneMore
  <2>4. c \in Seq(S) /\ Len(c) = 3 /\ c[1] = BashDef /\ c[2] = ReadFileDef /\ c[3] = WriteFileDef
    <3>1. Len(b) + 1 = 3
      BY <2>3
    <3> QED BY <1>7, <2>1, <2>3, <3>1, OneMore
  <2>5. /\ d \in Seq(S) /\ Len(d) = 4
        /\ d[1] = BashDef /\ d[2] = ReadFileDef /\ d[3] = WriteFileDef /\ d[4] = EditFileDef
    <3>1. Len(c) + 1 = 4
      BY <2>4
    <3> QED BY <1>6, <2>1, <2>4, <3>1, OneMore
  <2>6. \A i \in 1 .. 4 : d[i] = all[i]
    BY <2>5
  <2> QED BY <2>1, <2>5, <2>6, SeqEqual
<1>11. ToolsInit(d) = d
  BY <1>10 DEF ToolsInit
<1> QED BY <1>2, <1>10, <1>11

LEMMA StartKeeps == ASSUME IInv, Start PROVE IInv'
<1> USE DEF IInv
<1>1. /\ at = "start" /\ (at' = "dead" \/ (at' = "idle" /\ g_tools' # Fatal))
      /\ g_tools' = ToolsInit(ToolsInit(g_tools))
      /\ UNCHANGED <<fs, req, safe, file, pos, lines, content, result, before, disturbed, short>>
  BY DEF Start, history
<1>2. TypeOK'
  BY <1>1 DEF TypeOK
<1>3. Registered'
  <2>1. g_tools = <<>>
    BY <1>1 DEF Registered
  <2> QED BY <1>1, <2>1, RegistryIsFilled DEF Registered
<1>4. Fresh' /\ ToolByPlace' /\ Untouched' /\ SafeAsGiven' /\ OpenAsNamed' /\ WrittenByPlace'
  BY <1>1 DEF Fresh, ToolByPlace, Untouched, SafeAsGiven, OpenAsNamed, WrittenByPlace
<1> QED BY <1>2, <1>3, <1>4

LEMMA CallKeeps == ASSUME IInv, Call PROVE IInv'
<1> USE DEF IInv
<1>1. /\ at = "idle" /\ at' \in {"called", "done"} /\ req' \in Requests
      /\ UNCHANGED <<fs, g_tools, safe, file, pos, lines, content, result, before, disturbed, short>>
  BY DEF Call
<1>2. TypeOK'
  BY <1>1 DEF TypeOK
<1>3. fs' = before' /\ Registered' /\ Fresh' /\ ToolByPlace' /\ Untouched' /\ SafeAsGiven' /\ OpenAsNamed'
  BY <1>1 DEF Registered, Fresh, ToolByPlace, Untouched, SafeAsGiven, OpenAsNamed
<1>4. result'.ok = FALSE
  BY <1>1 DEF Fresh, Failure, Result
<1>5. WrittenByPlace'
  BY <1>1, <1>3, <1>4 DEF WrittenByPlace
<1> QED BY <1>2, <1>3, <1>5

LEMMA ToolResultFreeKeeps == ASSUME IInv, ToolResultFree PROVE IInv'
<1> USE DEF IInv
<1>1. /\ at = "done" /\ at' = "idle" /\ req' = NoRequest /\ result' = Failure
      /\ file' = NoPath /\ pos' = 0 /\ lines' = 0 /\ content' = <<>>
      /\ before' = fs /\ disturbed' = FALSE /\ short' = FALSE /\ UNCHANGED <<fs, g_tools>>
  BY DEF ToolResultFree
<1>2. <<>> \in Seq(Char)
  OBVIOUS
<1>3. TypeOK'
  BY <1>1, <1>2 DEF TypeOK, Failure, Result
<1>4. Registered' /\ Fresh' /\ ToolByPlace' /\ Untouched' /\ SafeAsGiven' /\ OpenAsNamed' /\ WrittenByPlace'
  BY <1>1 DEF Registered, Fresh, ToolByPlace, Untouched, SafeAsGiven, OpenAsNamed, WrittenByPlace
<1> QED BY <1>3, <1>4

(* A call that is refused, of any tool, or whose second open fails.        *)
LEMMA RefuseKeeps ==
  ASSUME IInv, at \in {"called", "resolved", "edited"}, Refuse
  PROVE  IInv'
<1> USE DEF IInv
<1>1. /\ at' = "done" /\ result' = Failure
      /\ UNCHANGED <<fs, g_tools, req, safe, file, pos, lines, content, before, disturbed, short>>
  BY DEF Refuse, Answer, history
<1>2. TypeOK'
  BY <1>1 DEF TypeOK, Failure, Result
<1>3. Registered' /\ Fresh' /\ ToolByPlace' /\ Untouched' /\ SafeAsGiven' /\ OpenAsNamed'
  BY <1>1 DEF Registered, Fresh, ToolByPlace, Untouched, SafeAsGiven, OpenAsNamed
<1>4. result'.ok = FALSE
  BY <1>1 DEF Failure, Result
<1>5. ~disturbed' => fs' = before'
  BY <1>1 DEF Untouched
<1>6. WrittenByPlace'
  BY <1>1, <1>4, <1>5 DEF WrittenByPlace
<1> QED BY <1>2, <1>3, <1>6

(* A path that is resolved, of any tool, or refused.                       *)
LEMMA ResolvesKeeps ==
  ASSUME IInv, ReadResolves \/ WriteResolves \/ EditResolves
  PROVE  IInv'
<1> USE DEF IInv
<1>1. at = "called"
  BY DEF ReadResolves, WriteResolves, EditResolves, Calling
<1>2. CASE Refuse
  BY <1>1, <1>2, RefuseKeeps
<1>3. CASE ~Refuse
  <2>1. /\ req.path # Missing /\ Resolved # NoPath
        /\ req.tool = "write_file" => req.content # Missing
        /\ req.tool = "edit_file" =>
              Missing \notin {req.old_text, req.new_text} /\ CString(req.old_text) # <<>>
        /\ safe' = Resolved /\ at' = "resolved"
        /\ UNCHANGED <<fs, g_tools, req, file, pos, lines, content, result, history>>
    BY <1>3 DEF ReadResolves, WriteResolves, EditResolves, Calling, ResolvesIf
  <2>2. UNCHANGED <<before, disturbed, short>>
    BY <2>1 DEF history
  <2>3. TypeOK'
    BY <1>1, <2>1, <2>2 DEF TypeOK
  <2>4. safe' \in Path
    BY <1>1, <2>1, ResolvedIsPath
  <2>5. ~disturbed' => safe' = Given' /\ Given' # NoPath
    BY <1>1, <2>1, <2>2 DEF Untouched, Given, Resolved
  <2>6. SafeAsGiven'
    BY <2>1, <2>4, <2>5 DEF SafeAsGiven
  <2>7. Registered' /\ Fresh' /\ ToolByPlace' /\ Untouched' /\ OpenAsNamed' /\ WrittenByPlace'
    BY <1>1, <2>1, <2>2 DEF Registered, Fresh, ToolByPlace, Untouched, OpenAsNamed, WrittenByPlace
  <2> QED BY <2>3, <2>6, <2>7
<1> QED BY <1>2, <1>3

LEMMA ReadOpensKeeps == ASSUME IInv, ReadOpens PROVE IInv'
<1> USE DEF IInv
<1>1. /\ at = "resolved" /\ at' = "reading" /\ req.tool = "read_file" /\ req.path # Missing
      /\ UNCHANGED <<fs, g_tools, req, safe, pos, lines, content, result, before, disturbed, short>>
  BY DEF ReadOpens, Opening, ToolByPlace, history
<1>2. TypeOK'
  BY <1>1 DEF TypeOK
<1>3. Registered' /\ Fresh' /\ ToolByPlace' /\ Untouched' /\ SafeAsGiven' /\ OpenAsNamed' /\ WrittenByPlace'
  BY <1>1 DEF Registered, Fresh, ToolByPlace, Untouched, SafeAsGiven, OpenAsNamed, WrittenByPlace
<1> QED BY <1>2, <1>3

(* Where a character is first, if anywhere.                                *)
FirstOf(s, c) ==
    LET I == {i \in 1 .. Len(s) : s[i] = c} IN IF I # {} THEN Min(I) ELSE 0

LEMMA FirstPlace ==
  ASSUME NEW S, NEW s \in Seq(S), NEW c
  PROVE  LET i == FirstOf(s, c)
         IN /\ i \in 0 .. Len(s)
            /\ i = 0 => \A j \in 1 .. Len(s) : s[j] # c
            /\ i # 0 => s[i] = c /\ \A j \in 1 .. i - 1 : s[j] # c
<1> DEFINE I == {i \in 1 .. Len(s) : s[i] = c}
<1>1. Len(s) \in Nat /\ I \in SUBSET Nat /\ \A j \in I : j \in 1 .. Len(s) /\ s[j] = c
  BY LenProperties
<1>2. FirstOf(s, c) = IF I # {} THEN Min(I) ELSE 0
  BY DEF FirstOf
<1>3. \A j \in 1 .. Len(s) : s[j] = c => j \in I
  OBVIOUS
<1> HIDE DEF I
<1>4. I # {} => Min(I) \in I /\ \A j \in I : Min(I) <= j
  <2> SUFFICES ASSUME I # {} PROVE Min(I) \in I /\ \A j \in I : Min(I) <= j
    OBVIOUS
  <2>1. \E i \in I : \A j \in I : i <= j
    BY <1>1, LeastNumber
  <2> QED BY <2>1 DEF Min
<1>5. CASE I = {}
  BY <1>1, <1>2, <1>3, <1>5
<1>6. CASE I # {}
  <2>1. PICK m \in I : FirstOf(s, c) = m /\ \A j \in I : m <= j
    BY <1>2, <1>4, <1>6
  <2>2. m \in 1 .. Len(s) /\ m \in Nat /\ m # 0 /\ s[m] = c
    BY <1>1
  <2>3. \A j \in 1 .. m - 1 : s[j] # c
    <3> SUFFICES ASSUME NEW j \in 1 .. m - 1, s[j] = c PROVE FALSE
      OBVIOUS
    <3>1. j \in 1 .. Len(s) /\ ~(m <= j)
      BY <1>1, <2>2
    <3> QED BY <1>3, <2>1, <3>1
  <2> QED BY <1>1, <2>1, <2>2, <2>3
<1> QED BY <1>5, <1>6

(* What fgets takes: a beginning of what is left, up to its first newline, *)
(* and no more than the buffer holds.                                      *)
LEMMA FgetsProperties ==
  ASSUME IInv
  PROVE  /\ Fgets \in Seq(Char) /\ Len(Fgets) \in Nat
         /\ FileAt(file) /\ pos <= Len(Data(file)) =>
               LET n == Len(Fgets)
               IN /\ pos + n <= Len(Data(file))
                  /\ \A i \in 1 .. n : Fgets[i] = Data(file)[pos + i]
                  /\ \A i \in 1 .. n - 1 : Fgets[i] # NL
                  /\ \/ pos + n = Len(Data(file))
                     \/ n > 0 /\ Fgets[n] = NL
                     \/ n = LineSize - 1
<1> DEFINE data == Data(file)
           rest == IF FileAt(file) THEN SubSeq(data, pos + 1, Len(data)) ELSE <<>>
           full == IF Len(rest) < LineSize THEN rest ELSE SubSeq(rest, 1, LineSize - 1)
           end  == FirstOf(full, NL)
<1>1. Fgets = IF end = 0 THEN full ELSE SubSeq(full, 1, end)
  BY DEF Fgets, SelectInSeq, FirstOf
<1>2. pos \in Nat /\ LineSize \in Nat /\ LineSize - 1 \in Nat /\ LineSize - 1 > 0
  BY LengthAssumption DEF IInv, TypeOK
<1>3. FileAt(file) => data \in Seq(Char) /\ Len(data) \in Nat
  <2>1. FileAt(file) => file \in DOMAIN fs
    BY DEF FileAt
  <2> QED BY <2>1, FileData DEF IInv, TypeOK
<1>4. /\ rest \in Seq(Char) /\ Len(rest) \in Nat
      /\ FileAt(file) /\ pos <= Len(data) =>
            Len(rest) = Len(data) - pos /\ \A i \in 1 .. Len(rest) : rest[i] = data[pos + i]
  <2>1. CASE ~FileAt(file)
    BY <2>1, EmptySeq
  <2>2. CASE FileAt(file)
    <3>1. \A i \in pos + 1 .. Len(data) : data[i] \in Char
      BY <1>2, <1>3, <2>2, ElementOfSeq
    <3>2. rest = SubSeq(data, pos + 1, Len(data))
      BY <2>2
    <3>3. pos + 1 \in Nat /\ pos + 1 \in Int /\ Len(data) \in Int
      BY <1>2, <1>3, <2>2
    <3> HIDE DEF rest, data
    <3>4. /\ rest \in Seq(Char)
          /\ Len(rest) = IF pos + 1 <= Len(data) THEN Len(data) - (pos + 1) + 1 ELSE 0
          /\ \A i \in 1 .. Len(data) - (pos + 1) + 1 : rest[i] = data[(pos + 1) + i - 1]
      BY <1>3, <2>2, <3>1, <3>2, <3>3, SubSeqProperties
    <3>5. \A i \in Int : (pos + 1) + i - 1 = pos + i
      BY <1>2
    <3> QED BY <1>2, <1>3, <2>2, <3>4, <3>5
  <2> QED BY <2>1, <2>2
<1> HIDE DEF rest
<1>5. /\ full \in Seq(Char) /\ Len(full) \in Nat /\ Len(full) <= Len(rest)
      /\ \A i \in 1 .. Len(full) : full[i] = rest[i]
      /\ Len(full) = Len(rest) \/ Len(full) = LineSize - 1
  <2>1. CASE Len(rest) < LineSize
    BY <1>4, <2>1
  <2>2. CASE ~(Len(rest) < LineSize)
    <3>1. \A i \in 1 .. LineSize - 1 : rest[i] \in Char
      BY <1>2, <1>4, <2>2, ElementOfSeq
    <3>2. full = SubSeq(rest, 1, LineSize - 1)
      BY <2>2
    <3> HIDE DEF full
    <3>3. full \in Seq(Char) /\ Len(full) = LineSize - 1
          /\ \A i \in 1 .. LineSize - 1 : full[i] = rest[i]
      BY <1>2, <1>4, <3>1, <3>2, SubSeqProperties
    <3> QED BY <1>2, <1>4, <2>2, <3>3
  <2> QED BY <2>1, <2>2
<1> HIDE DEF full
<1>6. /\ end \in 0 .. Len(full)
      /\ end = 0 => \A j \in 1 .. Len(full) : full[j] # NL
      /\ end # 0 => full[end] = NL /\ \A j \in 1 .. end - 1 : full[j] # NL
  BY <1>5, FirstPlace
<1> HIDE DEF end
<1>7. /\ Fgets \in Seq(Char) /\ Len(Fgets) = IF end = 0 THEN Len(full) ELSE end
      /\ \A i \in 1 .. Len(Fgets) : Fgets[i] = full[i]
  <2>1. CASE end = 0
    BY <1>1, <2>1, <1>5
  <2>2. CASE end # 0
    <3>1. \A i \in 1 .. end : full[i] \in Char
      BY <1>5, <1>6, ElementOfSeq
    <3>2. Fgets = SubSeq(full, 1, end) /\ end \in Nat /\ end >= 1
      BY <1>1, <1>5, <1>6, <2>2
    <3> QED BY <1>5, <2>2, <3>1, <3>2, SubSeqProperties
  <2> QED BY <2>1, <2>2
<1>8. Len(Fgets) \in Nat /\ Len(Fgets) <= Len(full)
  BY <1>5, <1>6, <1>7
<1>9. ASSUME FileAt(file), pos <= Len(data)
      PROVE  /\ pos + Len(Fgets) <= Len(data)
             /\ \A i \in 1 .. Len(Fgets) : Fgets[i] = data[pos + i]
             /\ \A i \in 1 .. Len(Fgets) - 1 : Fgets[i] # NL
             /\ \/ pos + Len(Fgets) = Len(data)
                \/ Len(Fgets) > 0 /\ Fgets[Len(Fgets)] = NL
                \/ Len(Fgets) = LineSize - 1
  <2>1. Len(rest) = Len(data) - pos /\ \A i \in 1 .. Len(rest) : rest[i] = data[pos + i]
    BY <1>4, <1>9
  <2>2. \A i \in 1 .. Len(Fgets) - 1 : Fgets[i] # NL
    BY <1>5, <1>6, <1>7, <1>8
  <2>3. \A i \in 1 .. Len(Fgets) : Fgets[i] = data[pos + i]
    BY <1>5, <1>7, <1>8, <2>1
  <2>4. \/ pos + Len(Fgets) = Len(data)
        \/ Len(Fgets) > 0 /\ Fgets[Len(Fgets)] = NL
        \/ Len(Fgets) = LineSize - 1
    <3>1. CASE end = 0
      BY <1>2, <1>3, <1>9, <1>5, <1>7, <2>1, <3>1
    <3>2. CASE end # 0
      <4>1. end \in 1 .. Len(Fgets) /\ end = Len(Fgets) /\ full[end] = NL
        BY <1>5, <1>6, <1>7, <3>2
      <4> QED BY <1>7, <1>8, <4>1
    <3> QED BY <3>1, <3>2
  <2> QED BY <1>2, <1>3, <1>9, <1>5, <1>8, <2>1, <2>2, <2>3, <2>4
<1> QED BY <1>7, <1>8, <1>9

LEMMA ReadsLineKeeps == ASSUME IInv, ReadsLine PROVE IInv'
<1> USE DEF IInv
<1> DEFINE taken == content \o CString(Fgets)
<1>1. taken \in Seq(Char)
  <2>1. CString(Fgets) \in Seq(Char) /\ content \in Seq(Char)
    BY FgetsProperties, CStringProperties DEF TypeOK
  <2> QED BY <2>1, ConcatProperties
<1>2. /\ at = "reading" /\ req.tool = "read_file"
      /\ UNCHANGED <<fs, g_tools, req, safe, file, before, disturbed, short>>
      /\ \/ /\ at' = "done" /\ result' = Result(TRUE, taken, TRUE)
            /\ UNCHANGED <<content, pos, lines>>
         \/ /\ content' = taken /\ pos' = pos + Len(Fgets) /\ lines' = lines + 1
            /\ UNCHANGED <<at, result>>
  BY DEF ReadsLine, Answer, history, ToolByPlace
<1> HIDE DEF taken
<1>3. pos' \in Nat /\ lines' \in Nat /\ content' \in Seq(Char) /\ result'.ok \in BOOLEAN
  <2>1. pos + Len(Fgets) \in Nat /\ lines + 1 \in Nat
    BY FgetsProperties DEF TypeOK
  <2>2. Result(TRUE, taken, TRUE).ok \in BOOLEAN
    BY DEF Result
  <2>3. pos \in Nat /\ lines \in Nat /\ content \in Seq(Char) /\ result.ok \in BOOLEAN
    BY DEF TypeOK
  <2> QED BY <1>1, <1>2, <2>1, <2>2, <2>3
<1>4. TypeOK'
  BY <1>2, <1>3 DEF TypeOK
<1>5. Registered' /\ Fresh' /\ ToolByPlace' /\ Untouched' /\ SafeAsGiven' /\ OpenAsNamed'
  BY <1>2 DEF Registered, Fresh, ToolByPlace, Untouched, SafeAsGiven, OpenAsNamed
<1>6. ~disturbed' => fs' = before'
  BY <1>2 DEF Untouched
<1>7. WrittenByPlace'
  BY <1>2, <1>6 DEF WrittenByPlace
<1> QED BY <1>4, <1>5, <1>7

LEMMA ReadEndsKeeps == ASSUME IInv, ReadEnds PROVE IInv'
<1> USE DEF IInv
<1>1. /\ at = "reading" /\ at' = "done" /\ req.tool = "read_file" /\ result'.ok \in BOOLEAN
      /\ UNCHANGED <<fs, g_tools, req, safe, file, content, pos, lines, before, disturbed, short>>
  BY DEF ReadEnds, Answer, history, ToolByPlace, Failure, Result
<1>2. TypeOK'
  BY <1>1 DEF TypeOK
<1>3. Registered' /\ Fresh' /\ ToolByPlace' /\ Untouched' /\ SafeAsGiven' /\ OpenAsNamed'
  BY <1>1 DEF Registered, Fresh, ToolByPlace, Untouched, SafeAsGiven, OpenAsNamed
<1>4. ~disturbed' => fs' = before'
  BY <1>1 DEF Untouched
<1>5. WrittenByPlace'
  BY <1>1, <1>4 DEF WrittenByPlace
<1> QED BY <1>2, <1>3, <1>5

LEMMA WriteOpensKeeps == ASSUME IInv, WriteOpens PROVE IInv'
<1> USE DEF IInv
<1>1. /\ at = "resolved" /\ at' = "open" /\ req.tool = "write_file"
      /\ req.path # Missing /\ req.content # Missing /\ req \in Requests
      /\ Opens(fs, safe) # NoPath
      /\ file' = Opens(fs, safe) /\ fs' = Emptied(file') /\ content' = CString(req.content)
      /\ UNCHANGED <<g_tools, req, safe, pos, lines, result, before, disturbed, short>>
  BY DEF WriteOpens, Opening, MayOpen, history, ToolByPlace, TypeOK
<1>2. PICK p \in Path : p = file'
  BY <1>1, OpensPath
<1>3. Given' = Given /\ (~disturbed => file' = Opens(before, Given)) /\ file' # NoPath
  BY <1>1, OpensPath DEF Given
<1>4. /\ DOMAIN fs' = DOMAIN fs \cup {p} /\ \A q \in DOMAIN fs \ {p} : fs'[q] = fs[q]
      /\ fs'[p] = File(<<>>) /\ fs'[p].data = <<>> /\ fs'[p].kind = "file" /\ IsNode(fs'[p])
  BY <1>1, <1>2, EmptiedIsFile
<1>5. IsFileSystem(fs')
  BY <1>2, <1>4, StaysFileSystem DEF TypeOK
<1>6. content' \in Seq(Char)
  BY <1>1, RequestTypes
<1>7. TypeOK'
  BY <1>1, <1>5, <1>6 DEF TypeOK
<1>8. FileAt(file)' /\ Data(file)' = <<>>
  BY <1>2, <1>4 DEF FileAt, Data
<1>9. /\ Registered' /\ Fresh' /\ ToolByPlace' /\ Untouched' /\ SafeAsGiven' /\ OpenAsNamed'
  BY <1>1, <1>3, <1>8 DEF Registered, Fresh, ToolByPlace, Untouched, SafeAsGiven, OpenAsNamed
<1>10. ContentAsked'
  BY <1>1 DEF ContentAsked
<1>11. WrittenByPlace'
  BY <1>1, <1>8, <1>10 DEF WrittenByPlace
<1> QED BY <1>7, <1>9, <1>11

(* A write to the open file, and how much of the content that is.          *)
LEMMA WriteKeepsFiles ==
  ASSUME IInv, FileAt(file), NEW from \in Nat, NEW s \in Seq(Char),
         fs' = Written(file, from, s), UNCHANGED file
  PROVE  /\ IsFileSystem(fs') /\ FileAt(file)'
         /\ DOMAIN fs' = DOMAIN fs /\ \A q \in DOMAIN fs \ {file} : fs'[q] = fs[q]
         /\ from = Len(Data(file)) => Data(file)' = Data(file) \o s
<1>1. IsFileSystem(fs) /\ file \in DOMAIN fs /\ file \in Path
  BY FileData DEF IInv, TypeOK, FileAt
<1>2. /\ DOMAIN fs' = DOMAIN fs /\ \A q \in DOMAIN fs \ {file} : fs'[q] = fs[q]
      /\ fs'[file].data \in Seq(Char) /\ fs'[file] = File(fs'[file].data)
      /\ from = Len(Data(file)) => fs'[file].data = Data(file) \o s
  BY <1>1, WrittenIsFile
<1>3. IsFileSystem(fs')
  BY <1>1, <1>2, StaysFileSystem DEF IsNode
<1>4. fs'[file].kind = "file"
  BY <1>2 DEF File
<1>5. FileAt(file)' /\ Data(file)' = fs'[file].data
  BY <1>1, <1>2, <1>4 DEF FileAt, Data
<1> QED BY <1>2, <1>3, <1>5

LEMMA Beginnings ==
  ASSUME NEW S, NEW s \in Seq(S), NEW n \in 0 .. Len(s)
  PROVE  /\ SubSeq(s, 1, n) \in Seq(S) /\ Len(SubSeq(s, 1, n)) = n /\ IsPrefix(SubSeq(s, 1, n), s)
         /\ \A i \in 1 .. n : SubSeq(s, 1, n)[i] = s[i]
         /\ SubSeq(s, n + 1, Len(s)) \in Seq(S)
         /\ \A m \in 0 .. n : SubSeq(s, m + 1, n) \in Seq(S)
                              /\ SubSeq(s, 1, m) \o SubSeq(s, m + 1, n) = SubSeq(s, 1, n)
<1>1. Len(s) \in Nat /\ \A i \in 1 .. Len(s) : s[i] \in S
  BY LenProperties, ElementOfSeq
<1>2. \A m \in Nat, k \in 0 .. Len(s) : SubSeq(s, m + 1, k) \in Seq(S)
  <2> SUFFICES ASSUME NEW m \in Nat, NEW k \in 0 .. Len(s) PROVE SubSeq(s, m + 1, k) \in Seq(S)
    OBVIOUS
  <2>1. \A i \in m + 1 .. k : s[i] \in S
    BY <1>1
  <2>2. m + 1 \in Int /\ k \in Int
    OBVIOUS
  <2> QED BY <2>1, <2>2, SubSeqProperties
<1>3. /\ SubSeq(s, 1, n) \in Seq(S) /\ Len(SubSeq(s, 1, n)) = n
      /\ \A i \in 1 .. n : SubSeq(s, 1, n)[i] = s[i]
  <2>1. \A i \in 1 .. n : s[i] \in S
    BY <1>1
  <2>2. n \in Int /\ n \in Nat /\ (1 <= n \/ n = 0)
    OBVIOUS
  <2>3. \A i \in 1 .. n - 1 + 1 : SubSeq(s, 1, n)[i] = s[1 + i - 1]
    BY <2>1, <2>2, SubSeqProperties
  <2>4. SubSeq(s, 1, n) \in Seq(S) /\ Len(SubSeq(s, 1, n)) = n
    BY <2>1, <2>2, SubSeqProperties
  <2>5. \A i \in 1 .. n : i \in 1 .. n - 1 + 1 /\ 1 + i - 1 = i
    BY <2>2
  <2> QED BY <2>3, <2>4, <2>5
<1>4. IsPrefix(SubSeq(s, 1, n), s)
  <2>1. PICK b : b = SubSeq(s, 1, n)
    OBVIOUS
  <2>2. b \in Seq(S) /\ Len(b) = n /\ \A i \in 1 .. n : s[i] = b[i]
    BY <1>3, <2>1
  <2>3. Len(b) <= Len(s) /\ \A i \in 1 .. Len(b) : s[i] = b[i]
    BY <1>1, <2>2
  <2> QED BY <2>1, <2>2, <2>3, UnderIsPrefix
<1>5. \A m \in 0 .. n : SubSeq(s, 1, m) \o SubSeq(s, m + 1, n) = SubSeq(s, 1, n)
  BY <1>1, ConcatAdjacentSubSeq
<1> QED BY <1>1, <1>2, <1>3, <1>4, <1>5

LEMMA WholeBlocks ==
  ASSUME IInv
  PROVE  AtOnce \in 0 .. Len(content) /\ Len(content) \in Nat /\ content \in Seq(Char)
<1>1. Len(content) \in Nat /\ content \in Seq(Char) /\ Block \in Nat /\ Block > 0
  BY LenProperties, LengthAssumption DEF IInv, TypeOK
<1>2. \A n, b \in Nat : b > 0 => n % b \in 0 .. n
  OBVIOUS
<1>3. Len(content) % Block \in 0 .. Len(content)
  BY <1>1, <1>2
<1> QED BY <1>1, <1>3 DEF AtOnce

LEMMA WritesBlocksKeeps == ASSUME IInv, WritesBlocks PROVE IInv'
<1> USE DEF IInv
<1> DEFINE s == SubSeq(content, 1, AtOnce)
<1>1. /\ at = "open" /\ at' = "buffered" /\ fs' = Written(file, 0, s)
      /\ UNCHANGED <<g_tools, req, safe, file, pos, lines, content, result, before, disturbed, short>>
      /\ FileAt(file)
  BY DEF WritesBlocks, history, OpenAsNamed
<1>2. s \in Seq(Char)
  BY WholeBlocks, Beginnings
<1>3. /\ IsFileSystem(fs') /\ FileAt(file)'
      /\ 0 = Len(Data(file)) => Data(file)' = Data(file) \o s
  BY <1>1, <1>2, WriteKeepsFiles
<1>4. TypeOK'
  BY <1>1, <1>3 DEF TypeOK
<1>5. Given' = Given /\ ContentAsked' = ContentAsked
  BY <1>1 DEF Given, ContentAsked, Edited
<1>6. Registered' /\ Fresh' /\ ToolByPlace' /\ Untouched' /\ SafeAsGiven' /\ OpenAsNamed'
  BY <1>1, <1>3, <1>5 DEF Registered, Fresh, ToolByPlace, Untouched, SafeAsGiven, OpenAsNamed
<1>7. ASSUME ~disturbed' PROVE Data(file)' = SubSeq(content, 1, AtOnce)' /\ ContentAsked'
  <2>1. Data(file) = <<>> /\ ContentAsked
    BY <1>1, <1>7 DEF WrittenByPlace
  <2>2. Data(file)' = <<>> \o s
    BY <1>3, <2>1, EmptySeq
  <2> HIDE DEF s
  <2>3. Data(file)' = s
    BY <1>2, <2>2, ConcatEmptySeq
  <2> QED BY <1>1, <1>5, <2>1, <2>3 DEF s, AtOnce
<1>8. WrittenByPlace'
  BY <1>1, <1>7 DEF WrittenByPlace
<1> QED BY <1>4, <1>6, <1>8

LEMMA BlocksFallShortKeeps == ASSUME IInv, BlocksFallShort PROVE IInv'
<1> USE DEF IInv
<1>1. /\ at = "open" /\ at' = "done" /\ FileAt(file) /\ short' = TRUE /\ result' = Failure
      /\ UNCHANGED <<g_tools, req, safe, file, pos, lines, content, before, disturbed>>
  BY DEF BlocksFallShort, Answer, OpenAsNamed
<1>2. PICK n \in 0 .. AtOnce - 1 : fs' = Written(file, 0, SubSeq(content, 1, n))
  BY DEF BlocksFallShort
<1>3. n \in 0 .. Len(content)
  BY WholeBlocks
<1> DEFINE s == SubSeq(content, 1, n)
<1>4. s \in Seq(Char) /\ IsPrefix(s, content)
  BY <1>3, WholeBlocks, Beginnings
<1>5. /\ IsFileSystem(fs') /\ FileAt(file)'
      /\ 0 = Len(Data(file)) => Data(file)' = Data(file) \o s
  BY <1>1, <1>2, <1>4, WriteKeepsFiles
<1>6. TypeOK'
  BY <1>1, <1>5 DEF TypeOK, Failure, Result
<1>7. Registered' /\ Fresh' /\ ToolByPlace' /\ Untouched' /\ SafeAsGiven' /\ OpenAsNamed'
  BY <1>1 DEF Registered, Fresh, ToolByPlace, Untouched, SafeAsGiven, OpenAsNamed
<1>8. ASSUME ~disturbed' PROVE IsPrefix(Data(file), content)'
  <2>1. Data(file) = <<>>
    BY <1>1, <1>8 DEF WrittenByPlace
  <2>2. Data(file)' = <<>> \o s
    BY <1>5, <2>1, EmptySeq
  <2> HIDE DEF s
  <2>3. Data(file)' = s
    BY <1>4, <2>2, ConcatEmptySeq
  <2> QED BY <1>1, <1>4, <2>3
<1>9. WrittenByPlace'
  BY <1>1, <1>8 DEF WrittenByPlace, Failure, Result
<1> QED BY <1>6, <1>7, <1>9

LEMMA ClosesKeeps == ASSUME IInv, Closes PROVE IInv'
<1> USE DEF IInv
<1>1. /\ at = "buffered" /\ at' = "done" /\ FileAt(file) /\ result'.ok = TRUE
      /\ UNCHANGED <<g_tools, req, safe, file, pos, lines, content, before, disturbed>>
  BY DEF Closes, Answer, OpenAsNamed, Result
<1>2. PICK n \in AtOnce .. Len(content) :
         /\ fs' = Written(file, AtOnce, SubSeq(content, AtOnce + 1, n))
         /\ short' = (n < Len(content))
  BY DEF Closes
<1>3. PICK k \in Nat : k = AtOnce
  BY WholeBlocks
<1>4. n \in 0 .. Len(content) /\ k \in 0 .. n /\ k \in 0 .. Len(content) /\ content \in Seq(Char)
  BY <1>3, WholeBlocks
<1> DEFINE s == SubSeq(content, k + 1, n)
<1>5. /\ s \in Seq(Char) /\ SubSeq(content, 1, k) \o s = SubSeq(content, 1, n)
      /\ IsPrefix(SubSeq(content, 1, n), content) /\ Len(SubSeq(content, 1, k)) = k
  BY <1>4, Beginnings
<1>6. /\ IsFileSystem(fs') /\ FileAt(file)'
      /\ k = Len(Data(file)) => Data(file)' = Data(file) \o s
  BY <1>1, <1>2, <1>3, <1>5, WriteKeepsFiles
<1>7. TypeOK'
  <2>1. short' \in BOOLEAN
    <3>1. (n < Len(content)) \in BOOLEAN
      BY <1>4
    <3> QED BY <1>2, <3>1, Zenon
  <2> QED BY <1>1, <1>6, <2>1 DEF TypeOK
<1>8. Registered' /\ Fresh' /\ ToolByPlace' /\ Untouched' /\ SafeAsGiven' /\ OpenAsNamed'
  BY <1>1 DEF Registered, Fresh, ToolByPlace, Untouched, SafeAsGiven, OpenAsNamed
<1>9. ContentAsked' = ContentAsked
  BY <1>1 DEF ContentAsked, Edited
<1>10. ASSUME ~disturbed'
       PROVE  /\ IsPrefix(Data(file), content)' /\ ContentAsked'
              /\ ~short' => Data(file)' = content'
  <2>1. Data(file) = SubSeq(content, 1, k) /\ ContentAsked
    BY <1>1, <1>3, <1>10 DEF WrittenByPlace
  <2>2. Data(file)' = SubSeq(content, 1, n)
    BY <1>5, <1>6, <2>1
  <2>3. ~short' => n = Len(content)
    <3>1. ~short' => ~(n < Len(content))
      BY <1>2, Zenon
    <3> QED BY <1>4, <3>1
  <2>4. SubSeq(content, 1, Len(content)) = content
    BY <1>4, SubSeqFull
  <2> QED BY <1>1, <1>5, <1>9, <2>1, <2>2, <2>3, <2>4
<1>11. WrittenByPlace'
  BY <1>1, <1>10 DEF WrittenByPlace
<1> QED BY <1>7, <1>8, <1>11

(* strstr: a place where the old text is, before the first zero byte of    *)
(* the content, and the first of them.                                     *)
LEMMA FoundProperties ==
  ASSUME NEW data \in Seq(Char), NEW old \in Seq(Char), Found(data, old) # 0
  PROVE  LET i == Found(data, old)
             s == CString(data)
         IN /\ i \in 1 .. Len(s) - Len(old) + 1 /\ SubSeq(s, i, i + Len(old) - 1) = old
            /\ \A j \in 1 .. i - 1 : SubSeq(s, j, j + Len(old) - 1) # old
<1> DEFINE s == CString(data)
           places == {i \in 1 .. Len(s) - Len(old) + 1 : SubSeq(s, i, i + Len(old) - 1) = old}
<1>1. Len(s) \in Nat /\ Len(old) \in Nat
  BY CStringProperties, LenProperties
<1>2. Found(data, old) = IF places = {} THEN 0 ELSE CHOOSE i \in places : \A j \in places : i <= j
  BY DEF Found
<1>3. /\ places \in SUBSET Nat
      /\ \A i \in places : i \in 1 .. Len(s) - Len(old) + 1 /\ SubSeq(s, i, i + Len(old) - 1) = old
      /\ \A i \in 1 .. Len(s) - Len(old) + 1 : SubSeq(s, i, i + Len(old) - 1) = old => i \in places
  OBVIOUS
<1> HIDE DEF places
<1>4. places # {}
  BY <1>2
<1>5. \E i \in places : \A j \in places : i <= j
  BY <1>3, <1>4, LeastNumber
<1>6. Found(data, old) \in places /\ \A j \in places : Found(data, old) <= j
  BY <1>2, <1>4, <1>5
<1>7. PICK m \in places : Found(data, old) = m /\ \A j \in places : m <= j
  BY <1>6
<1>8. m \in 1 .. Len(s) - Len(old) + 1 /\ SubSeq(s, m, m + Len(old) - 1) = old
  BY <1>3
<1>9. \A j \in 1 .. m - 1 : SubSeq(s, j, j + Len(old) - 1) # old
  <2> SUFFICES ASSUME NEW j \in 1 .. m - 1, SubSeq(s, j, j + Len(old) - 1) = old PROVE FALSE
    OBVIOUS
  <2> HIDE DEF s
  <2>1. j \in 1 .. Len(s) - Len(old) + 1 /\ ~(m <= j)
    BY <1>1, <1>8
  <2> QED BY <1>3, <1>7, <2>1
<1> QED BY <1>7, <1>8, <1>9

LEMMA ReplacedIsText ==
  ASSUME NEW data \in Seq(Char), NEW old \in Seq(Char), NEW new \in Seq(Char), NEW i,
         i \in 1 .. Len(CString(data)) - Len(old) + 1
  PROVE  Replaced(data, i, old, new) \in Seq(Char)
<1>1. /\ Len(old) \in Nat /\ Len(data) \in Nat /\ Len(CString(data)) \in 0 .. Len(data)
      /\ \A k \in 1 .. Len(data) : data[k] \in Char
  BY CStringProperties, LenProperties, ElementOfSeq
<1>2. PICK a \in Nat, b \in Nat : a = i - 1 /\ b = i + Len(old) /\ a <= Len(data) /\ b >= 1
  BY <1>1
<1>3. SubSeq(data, 1, a) \in Seq(Char)
  <2>1. \A k \in 1 .. a : data[k] \in Char
    BY <1>1, <1>2
  <2> QED BY <2>1, SubSeqProperties
<1>4. SubSeq(data, b, Len(data)) \in Seq(Char)
  <2>1. \A k \in b .. Len(data) : data[k] \in Char
    BY <1>1, <1>2
  <2>2. b \in Int /\ Len(data) \in Int
    BY <1>1
  <2> QED BY <2>1, <2>2, SubSeqProperties
<1>5. SubSeq(data, 1, a) \o new \in Seq(Char)
  BY <1>3, ConcatProperties
<1>6. (SubSeq(data, 1, a) \o new) \o SubSeq(data, b, Len(data)) \in Seq(Char)
  BY <1>4, <1>5, ConcatProperties
<1> QED BY <1>2, <1>6 DEF Replaced

(* edit_file has read the file that its path leads to.                     *)
LEMMA EditReadsKeeps == ASSUME IInv, EditReads PROVE IInv'
<1> USE DEF IInv
<1> DEFINE p   == Realpath(fs, safe)
           old == CString(req.old_text)
           new == CString(req.new_text)
           i   == Found(Data(p), old)
<1>1. /\ at = "resolved" /\ req.tool = "edit_file" /\ req \in Requests
      /\ req.path # Missing /\ req.old_text # Missing /\ req.new_text # Missing
      /\ old # <<>> /\ p # NoPath /\ FileAt(p)
      /\ i = 0 => Refuse
      /\ i # 0 => /\ content' = Replaced(Data(p), i, old, new) /\ file' = p /\ at' = "edited"
                  /\ UNCHANGED <<fs, g_tools, req, safe, pos, lines, result, before, disturbed, short>>
  BY DEF EditReads, Opening, history, ToolByPlace, TypeOK
<1>2. CASE i = 0
  BY <1>1, <1>2, RefuseKeeps
<1>3. CASE i # 0
  <2>1. p \in DOMAIN fs /\ (~disturbed => p = Opens(before, Given))
    BY <1>1, OpensPath DEF Realpath
  <2>2. Data(p) \in Seq(Char) /\ Len(Data(p)) \in Nat
    BY <1>1, <2>1, FileData DEF TypeOK
  <2>3. old \in Seq(Char) /\ new \in Seq(Char)
    BY <1>1, RequestTypes
  <2>4. i \in 1 .. Len(CString(Data(p))) - Len(old) + 1
    BY <1>3, <2>2, <2>3, FoundProperties
  <2> HIDE DEF p, i, old, new
  <2>5. content' \in Seq(Char)
    BY <1>1, <1>3, <2>2, <2>3, <2>4, ReplacedIsText
  <2>6. TypeOK'
    BY <1>1, <1>3, <2>5 DEF TypeOK
  <2>7. Given' = Given /\ FileAt(file)'
    BY <1>1, <1>3 DEF Given, FileAt
  <2>8. SafeAsGiven' /\ OpenAsNamed'
    BY <1>1, <1>3, <2>1, <2>7 DEF SafeAsGiven, OpenAsNamed
  <2>9. Registered' /\ Fresh' /\ ToolByPlace' /\ Untouched'
    BY <1>1, <1>3 DEF Registered, Fresh, ToolByPlace, Untouched
  <2>10. ASSUME ~disturbed' PROVE ContentAsked'
    <3>1. fs = before
      BY <1>1, <1>3, <2>10 DEF Untouched
    <3>2. before'[file'].data = Data(p) /\ file' \in DOMAIN before'
      BY <1>1, <1>3, <2>1, <3>1 DEF Data
    <3>3. Edited(before[file].data)' = Replaced(Data(p), i, old, new)
      BY <1>1, <1>3, <3>2 DEF Edited, i, old, new
    <3>4. Found(before[file].data, CString(req.old_text))' = i
      BY <1>1, <1>3, <3>2 DEF i, old
    <3> QED BY <1>1, <1>3, <2>2, <3>2, <3>3, <3>4 DEF ContentAsked, old
  <2>11. WrittenByPlace'
    BY <1>1, <1>3, <2>10 DEF WrittenByPlace
  <2> QED BY <2>6, <2>8, <2>9, <2>11
<1> QED BY <1>2, <1>3

LEMMA EditOpensKeeps == ASSUME IInv, EditOpens PROVE IInv'
<1> USE DEF IInv
<1>1. /\ at = "edited" /\ at' = "open" /\ Opens(fs, safe) # NoPath
      /\ file' = Opens(fs, safe) /\ fs' = Emptied(file')
      /\ UNCHANGED <<g_tools, req, safe, pos, lines, content, result, before, disturbed, short>>
  BY DEF EditOpens, MayOpen, history
<1>2. PICK p \in Path : p = file'
  BY <1>1, OpensPath
<1>3. Given' = Given /\ (~disturbed => file' = file /\ file' = Opens(before, Given)) /\ file' # NoPath
  BY <1>1, OpensPath DEF Given, OpenAsNamed
<1>4. /\ DOMAIN fs' = DOMAIN fs \cup {p} /\ \A q \in DOMAIN fs \ {p} : fs'[q] = fs[q]
      /\ fs'[p] = File(<<>>) /\ fs'[p].data = <<>> /\ fs'[p].kind = "file" /\ IsNode(fs'[p])
  BY <1>1, <1>2, EmptiedIsFile
<1>5. IsFileSystem(fs')
  BY <1>2, <1>4, StaysFileSystem DEF TypeOK
<1>6. TypeOK'
  BY <1>1, <1>5 DEF TypeOK
<1>7. FileAt(file)' /\ Data(file)' = <<>>
  BY <1>1, <1>2, <1>4 DEF FileAt, Data
<1>8. Registered' /\ Fresh' /\ ToolByPlace' /\ Untouched' /\ SafeAsGiven' /\ OpenAsNamed'
  BY <1>1, <1>3, <1>7 DEF Registered, Fresh, ToolByPlace, Untouched, SafeAsGiven, OpenAsNamed
<1>9. ~disturbed' => ContentAsked'
  <2>1. ~disturbed => ContentAsked
    BY <1>1 DEF WrittenByPlace
  <2> QED BY <1>1, <1>3, <2>1 DEF ContentAsked, Edited
<1>10. WrittenByPlace'
  BY <1>1, <1>7, <1>9 DEF WrittenByPlace
<1> QED BY <1>6, <1>8, <1>10

LEMMA EditReadsDirectoryKeeps == ASSUME IInv, EditReadsDirectory PROVE IInv'
<1> USE DEF IInv
<1>1. at = "resolved"
  BY DEF EditReadsDirectory, Opening
<1>2. CASE Refuse
  BY <1>1, <1>2, RefuseKeeps
<1>3. CASE at' = "dead" /\ UNCHANGED <<fs, g_tools, req, safe, file, pos, lines, content, result, history>>
  <2>1. UNCHANGED <<before, disturbed, short>>
    BY <1>3 DEF history
  <2>2. TypeOK'
    BY <1>1, <1>3, <2>1 DEF TypeOK
  <2>3. Registered' /\ Fresh' /\ ToolByPlace' /\ Untouched' /\ SafeAsGiven' /\ OpenAsNamed' /\ WrittenByPlace'
    BY <1>1, <1>3, <2>1 DEF Registered, Fresh, ToolByPlace, Untouched, SafeAsGiven, OpenAsNamed, WrittenByPlace
  <2> QED BY <2>2, <2>3
<1> QED BY <1>2, <1>3 DEF EditReadsDirectory

(* Another process changes one place; what a tool has open stays a file.   *)
LEMMA OtherChangesKeeps == ASSUME IInv, OtherChanges PROVE IInv'
<1> USE DEF IInv
<1>1. /\ at \notin {"start", "idle", "done", "dead"} /\ disturbed' = TRUE
      /\ UNCHANGED <<g_tools, at, req, safe, file, pos, lines, content, result, before, short>>
  BY DEF OtherChanges, tool
<1>2. PICK c \in Foreign :
         /\ Open /\ c.path = file => c.node.kind = "file"
         /\ fs' = IF c.node = Gone THEN [p \in DOMAIN fs \ {c.path} |-> fs[p]]
                  ELSE [p \in DOMAIN fs \cup {c.path} |-> IF p = c.path THEN c.node ELSE fs[p]]
  BY DEF OtherChanges
<1>3. PICK p \in Path : p = c.path
  BY FileSystemsAssumption
<1>4. PICK node : node = c.node /\ (node = Gone \/ IsNode(node))
  BY FileSystemsAssumption
<1>5. Gone.kind # "file"
  BY DEF Gone
<1>6. IsFileSystem(fs') /\ (Open /\ FileAt(file) => FileAt(file)')
  <2>1. CASE node = Gone
    <3>1. fs' = [q \in DOMAIN fs \ {p} |-> fs[q]]
      BY <1>2, <1>3, <1>4, <2>1
    <3>2. IsFileSystem(fs')
      BY <3>1 DEF TypeOK, IsFileSystem
    <3>3. Open => p # file
      BY <1>2, <1>3, <1>4, <1>5, <2>1
    <3> QED BY <1>1, <3>1, <3>2, <3>3 DEF FileAt
  <2>2. CASE node # Gone
    <3>1. fs' = [q \in DOMAIN fs \cup {p} |-> IF q = p THEN node ELSE fs[q]]
      BY <1>2, <1>3, <1>4, <2>2
    <3>2. /\ DOMAIN fs' = DOMAIN fs \cup {p} /\ \A q \in DOMAIN fs \ {p} : fs'[q] = fs[q]
          /\ fs'[p] = node
      BY <3>1
    <3>3. IsFileSystem(fs')
      BY <1>3, <1>4, <2>2, <3>2, StaysFileSystem DEF TypeOK
    <3>4. Open /\ p = file => node.kind = "file"
      BY <1>2, <1>3, <1>4
    <3> QED BY <1>1, <3>2, <3>3, <3>4 DEF FileAt
  <2> QED BY <2>1, <2>2
<1>7. TypeOK'
  BY <1>1, <1>6 DEF TypeOK
<1>8. Registered' /\ Fresh' /\ ToolByPlace' /\ WrittenByPlace'
  BY <1>1 DEF Registered, Fresh, ToolByPlace, WrittenByPlace
<1>9. Untouched' /\ SafeAsGiven'
  BY <1>1 DEF Untouched, SafeAsGiven
<1>10. OpenAsNamed'
  BY <1>1, <1>6 DEF OpenAsNamed, Open
<1> QED BY <1>7, <1>8, <1>9, <1>10

LEMMA NextKeeps == IInv /\ [Next]_vars => IInv'
<1> SUFFICES ASSUME IInv, [Next]_vars PROVE IInv'
  OBVIOUS
<1>1. CASE UNCHANGED vars
  <2>1. UNCHANGED <<fs, g_tools, at, req, safe, file, pos, lines, content, result, before, disturbed, short>>
    BY <1>1 DEF vars, tool, history
  <2>2. TypeOK' /\ Registered' /\ Fresh' /\ ToolByPlace' /\ Untouched'
    BY <2>1 DEF IInv, TypeOK, Registered, Fresh, ToolByPlace, Untouched
  <2>3. Given' = Given /\ ContentAsked' = ContentAsked
    BY <2>1 DEF Given, ContentAsked, Edited
  <2>4. SafeAsGiven' /\ OpenAsNamed' /\ WrittenByPlace'
    BY <2>1, <2>3 DEF IInv, SafeAsGiven, OpenAsNamed, WrittenByPlace, FileAt, Data, AtOnce
  <2> QED BY <2>2, <2>4 DEF IInv
<1>2. CASE Start
  BY <1>2, StartKeeps
<1>3. CASE Call
  BY <1>3, CallKeeps
<1>4. CASE ToolResultFree
  BY <1>4, ToolResultFreeKeeps
<1>5. CASE OtherChanges
  BY <1>5, OtherChangesKeeps
<1>6. CASE Step
  <2>1. CASE ReadRefuses \/ WriteRefuses \/ EditRefuses \/ EditOpenFails
    BY <2>1, RefuseKeeps DEF ReadRefuses, WriteRefuses, EditRefuses, EditOpenFails, Opening
  <2>2. CASE ReadOpens
    BY <2>2, ReadOpensKeeps
  <2>3. CASE ReadsLine
    BY <2>3, ReadsLineKeeps
  <2>4. CASE ReadEnds
    BY <2>4, ReadEndsKeeps
  <2>5. CASE WriteOpens
    BY <2>5, WriteOpensKeeps
  <2>6. CASE WritesBlocks
    BY <2>6, WritesBlocksKeeps
  <2>7. CASE BlocksFallShort
    BY <2>7, BlocksFallShortKeeps
  <2>8. CASE Closes
    BY <2>8, ClosesKeeps
  <2>9. CASE EditReadsDirectory
    BY <2>9, EditReadsDirectoryKeeps
  <2>10. CASE EditReads
    BY <2>10, EditReadsKeeps
  <2>11. CASE EditOpens
    BY <2>11, EditOpensKeeps
  <2>12. CASE ReadResolves \/ WriteResolves \/ EditResolves
    BY <2>12, ResolvesKeeps
  <2> QED BY <1>6, <2>1, <2>2, <2>3, <2>4, <2>5, <2>6, <2>7, <2>8, <2>9, <2>10, <2>11, <2>12 DEF Step
<1> QED BY <1>1, <1>2, <1>3, <1>4, <1>5, <1>6 DEF Next

(* The inductive invariant of the file tools, with their type correctness. *)
THEOREM FilesInvariant == Spec => []IInv
BY InitEstablishes, NextKeeps, PTL DEF Spec
-----------------------------------------------------------------------------
(* Wherever the program is killed, the file a tool writes holds what it    *)
(* held, or a beginning of what it is to hold.                             *)
THEOREM FileOldOrBeginning == Spec => []OldOrBeginning
<1>1. IInv => OldOrBeginning
  <2> SUFFICES ASSUME IInv, ~disturbed, at \notin {"start", "idle"}
               PROVE  /\ fs # before => IsPrefix(Data(file), content)
                      /\ at = "done" /\ ~result.ok /\ ~short => fs = before
    BY DEF OldOrBeginning
  <2>1. at \in {"called", "resolved", "reading", "edited", "dead"} => fs = before
    BY DEF IInv, Untouched
  <2>2. at = "open" => IsPrefix(Data(file), content)
    <3>1. content \in Seq(Char) /\ 0 \in 0 .. Len(content) /\ SubSeq(content, 1, 0) = <<>>
      BY WholeBlocks, SubSeqEmpty
    <3>2. IsPrefix(<<>>, content)
      BY <3>1, Beginnings
    <3> QED BY <3>2 DEF IInv, WrittenByPlace
  <2>3. at = "buffered" => IsPrefix(Data(file), content)
    <3>1. IsPrefix(SubSeq(content, 1, AtOnce), content)
      BY WholeBlocks, Beginnings
    <3> QED BY <3>1 DEF IInv, WrittenByPlace
  <2>4. at = "done" => /\ fs # before => IsPrefix(Data(file), content)
                       /\ ~result.ok /\ ~short => fs = before
    BY DEF IInv, WrittenByPlace
  <2> QED BY <2>1, <2>2, <2>3, <2>4 DEF IInv, TypeOK
<1> QED BY <1>1, FilesInvariant, PTL

(* Whatever tools ran before, resolve_workspace_path gives exactly the     *)
(* paths that lead inside, each leading where it was asked to, and inside  *)
(* or nowhere unless it is a dangling link.                                *)
(* With the working directory "/" it does refuse: after the prefix "/" no  *)
(* path has another slash.                                                 *)
WorkdirIsNotRoot == Workdir # <<>>

THEOREM PathsResolveRight == ASSUME WorkdirIsNotRoot PROVE Spec => []ResolvesRight
<1>1. ASSUME IInv PROVE ResolvesRight
  <2> SUFFICES ASSUME at = "idle", NEW r \in Requests, r.path # Missing
               PROVE  ResolvesAsAsked(fs, r.path)
    BY DEF ResolvesRight
  <2>1. IsTree(fs) /\ r.path.names \in Path
    BY <1>1, RequestTypes, FileSystemIsTree DEF IInv, TypeOK
  <2> QED BY <2>1, ResolutionComes, WorkdirIsNotRoot DEF WorkdirIsNotRoot
<1>2. IInv => ResolvesRight
  BY <1>1
<1> QED BY <1>2, FilesInvariant, PTL
-----------------------------------------------------------------------------
(* The first place of a text in another is where the library's definition  *)
(* of replacing it has it.                                                 *)
OccursAt(t, s, i) == i \in 1 .. Len(t) - Len(s) + 1 /\ SubSeq(t, i, i + Len(s) - 1) = s

(* A part of a beginning is a part of the whole.                           *)
LEMMA PartOfBeginning ==
  ASSUME NEW S, NEW t \in Seq(S), NEW n \in 0 .. Len(t), NEW i \in 1 .. n, NEW j \in i .. n
  PROVE  SubSeq(SubSeq(t, 1, n), i, j) = SubSeq(t, i, j)
<1>1. Len(t) \in Nat
  BY LenProperties
<1>2. /\ 1 \in 1 .. Len(t) /\ n \in 1 .. Len(t)
      /\ i \in 1 .. n - 1 + 1 /\ j \in 1 .. n - 1 + 1 /\ 1 + i - 1 = i /\ 1 + j - 1 = j
  BY <1>1
<1>3. SubSeq(SubSeq(t, 1, n), i, j) = SubSeq(t, 1 + i - 1, 1 + j - 1)
  BY <1>2, SubSeqOfSubSeq
<1> QED BY <1>2, <1>3

LEMMA OccursInBeginning ==
  ASSUME NEW S, NEW t \in Seq(S), NEW s \in Seq(S), s # <<>>, NEW n \in 0 .. Len(t), NEW i
  PROVE  OccursAt(SubSeq(t, 1, n), s, i) <=> OccursAt(t, s, i) /\ i + Len(s) - 1 <= n
<1>1. Len(t) \in Nat /\ Len(s) \in Nat /\ Len(SubSeq(t, 1, n)) = n
  BY LenProperties, Beginnings
<1>2. Len(s) >= 1
  BY <1>1, EmptySeq
<1>3. ASSUME i \in 1 .. n - Len(s) + 1
      PROVE  SubSeq(SubSeq(t, 1, n), i, i + Len(s) - 1) = SubSeq(t, i, i + Len(s) - 1)
  <2>1. i \in 1 .. n /\ i + Len(s) - 1 \in i .. n
    BY <1>1, <1>2, <1>3
  <2> QED BY <2>1, PartOfBeginning
<1>4. i \in 1 .. n - Len(s) + 1 <=> i \in 1 .. Len(t) - Len(s) + 1 /\ i + Len(s) - 1 <= n
  BY <1>1, <1>2
<1> QED BY <1>1, <1>3, <1>4 DEF OccursAt

LEMMA PartsAreOccurrences ==
  ASSUME NEW S, NEW t \in Seq(S), NEW s \in Seq(S), s # <<>>
  PROVE  s \in SubSeqs(t) <=> \E i : OccursAt(t, s, i)
<1>1. Len(t) \in Nat /\ Len(s) \in Nat /\ Len(s) >= 1
  BY LenProperties, EmptySeq
<1>2. ASSUME s \in SubSeqs(t) PROVE \E i : OccursAt(t, s, i)
  <2>1. PICK i \in 0 .. Len(t), j \in 0 .. Len(t) : s = SubSeq(t, i + 1, j)
    BY <1>2 DEF SubSeqs
  <2>2. i + 1 <= j
    BY <1>1, <2>1, SubSeqEmpty
  <2>3. \A k \in i + 1 .. j : t[k] \in S
    BY <1>1, ElementOfSeq
  <2>4. Len(s) = j - (i + 1) + 1
    BY <1>1, <2>1, <2>2, <2>3, SubSeqProperties
  <2>5. PICK m : m = i + 1
    OBVIOUS
  <2>6. m \in 1 .. Len(t) - Len(s) + 1 /\ m + Len(s) - 1 = j
    BY <1>1, <2>2, <2>4, <2>5
  <2>7. OccursAt(t, s, m)
    BY <2>1, <2>5, <2>6 DEF OccursAt
  <2> QED BY <2>7
<1>3. ASSUME NEW i, OccursAt(t, s, i) PROVE s \in SubSeqs(t)
  <2>1. i \in 1 .. Len(t) - Len(s) + 1 /\ SubSeq(t, i, i + Len(s) - 1) = s
    BY <1>3 DEF OccursAt
  <2>2. PICK a \in 0 .. Len(t), b \in 0 .. Len(t) : a + 1 = i /\ b = i + Len(s) - 1
    <3>1. i - 1 \in 0 .. Len(t) /\ i + Len(s) - 1 \in 0 .. Len(t) /\ (i - 1) + 1 = i
      BY <1>1, <2>1
    <3> QED BY <3>1
  <2>3. s = SubSeq(t, a + 1, b)
    BY <2>1, <2>2
  <2> QED BY <2>3 DEF SubSeqs
<1> QED BY <1>2, <1>3

LEMMA FirstOccurrence ==
  ASSUME NEW S, NEW t \in Seq(S), NEW s \in Seq(S), s # <<>>, NEW i \in Nat,
         OccursAt(t, s, i), \A j \in 1 .. i - 1 : ~OccursAt(t, s, j)
  PROVE  s \in SubSeqs(t) /\ IndexFirstSubSeq(s, t) = i
<1>1. Len(t) \in Nat /\ Len(s) \in Nat /\ Len(s) >= 1
  BY LenProperties, EmptySeq
<1>2. s \in SubSeqs(t)
  BY PartsAreOccurrences
<1> DEFINE In(n) == s \in SubSeqs(SubSeq(t, 1, n))
<1>3. PICK e \in 0 .. Len(t) : e = i + Len(s) - 1 /\ e - (Len(s) - 1) = i
  <2>1. i + Len(s) - 1 \in 0 .. Len(t) /\ (i + Len(s) - 1) - (Len(s) - 1) = i
    BY <1>1 DEF OccursAt
  <2> QED BY <2>1
<1>4. \A n \in 0 .. Len(t) : In(n) <=> \E j : OccursAt(t, s, j) /\ j + Len(s) - 1 <= n
  <2> SUFFICES ASSUME NEW n \in 0 .. Len(t)
               PROVE  In(n) <=> \E j : OccursAt(t, s, j) /\ j + Len(s) - 1 <= n
    OBVIOUS
  <2>1. SubSeq(t, 1, n) \in Seq(S)
    BY Beginnings
  <2>2. In(n) <=> \E j : OccursAt(SubSeq(t, 1, n), s, j)
    BY <2>1, PartsAreOccurrences
  <2>3. \A j : OccursAt(SubSeq(t, 1, n), s, j) <=> OccursAt(t, s, j) /\ j + Len(s) - 1 <= n
    BY OccursInBeginning
  <2> QED BY <2>2, <2>3
<1>5. In(e)
  BY <1>1, <1>3, <1>4
<1>6. \A n \in 0 .. e - 1 : ~In(n)
  <2> SUFFICES ASSUME NEW n \in 0 .. e - 1, In(n) PROVE FALSE
    OBVIOUS
  <2>1. n \in 0 .. Len(t)
    BY <1>1
  <2> HIDE DEF In
  <2>2. PICK j : OccursAt(t, s, j) /\ j + Len(s) - 1 <= n
    BY <1>4, <2>1
  <2>3. j \in 1 .. i - 1
    BY <1>1, <1>3, <2>1, <2>2 DEF OccursAt
  <2> QED BY <2>2, <2>3
<1>7. IndexFirstSubSeq(s, t) =
         (CHOOSE n \in 0 .. Len(t) : In(n) /\ \A j \in 0 .. n - 1 : ~In(j)) - (Len(s) - 1)
  BY DEF IndexFirstSubSeq
<1> HIDE DEF In
<1>8. \A n \in 0 .. Len(t) : In(n) /\ (\A j \in 0 .. n - 1 : ~In(j)) => n = e
  <2> SUFFICES ASSUME NEW n \in 0 .. Len(t), In(n), \A j \in 0 .. n - 1 : ~In(j), n # e PROVE FALSE
    OBVIOUS
  <2>1. n \in 0 .. e - 1 \/ e \in 0 .. n - 1
    BY <1>1
  <2> QED BY <1>5, <1>6, <2>1
<1>9. (CHOOSE n \in 0 .. Len(t) : In(n) /\ \A j \in 0 .. n - 1 : ~In(j)) = e
  BY <1>5, <1>6, <1>8
<1> QED BY <1>2, <1>3, <1>7, <1>9

(* What strstr finds, edit_file replaces: the first occurrence.            *)
LEMMA ReplacesTheFirst ==
  ASSUME NEW data \in Seq(Char), NEW old \in Seq(Char), old # <<>>, NEW new \in Seq(Char),
         Found(data, old) # 0
  PROVE  Replaced(data, Found(data, old), old, new) = ReplaceFirstSubSeq(new, old, data)
<1> DEFINE s == CString(data)
<1>1. PICK i : i = Found(data, old)
  OBVIOUS
<1>2. PICK n \in 0 .. Len(data) : s = SubSeq(data, 1, n) /\ Len(s) = n
  BY CStringProperties
<1>3. /\ i \in 1 .. Len(s) - Len(old) + 1 /\ SubSeq(s, i, i + Len(old) - 1) = old
      /\ \A j \in 1 .. i - 1 : SubSeq(s, j, j + Len(old) - 1) # old
  BY <1>1, FoundProperties
<1> HIDE DEF s
<1>4. Len(data) \in Nat /\ Len(old) \in Nat /\ Len(old) >= 1
  BY LenProperties, EmptySeq
<1>5. OccursAt(s, old, i) /\ i \in Nat
  BY <1>3 DEF OccursAt
<1>6. \A j \in 1 .. i - 1 : ~OccursAt(s, old, j)
  BY <1>3 DEF OccursAt
<1>7. \A j : OccursAt(s, old, j) <=> OccursAt(data, old, j) /\ j + Len(old) - 1 <= n
  BY <1>2, OccursInBeginning
<1>8. \A j \in 1 .. i - 1 : ~OccursAt(data, old, j)
  <2> SUFFICES ASSUME NEW j \in 1 .. i - 1, OccursAt(data, old, j) PROVE FALSE
    OBVIOUS
  <2>1. j + Len(old) - 1 <= n
    BY <1>2, <1>3, <1>4
  <2> QED BY <1>6, <1>7, <2>1
<1>9. old \in SubSeqs(data) /\ IndexFirstSubSeq(old, data) = i
  BY <1>5, <1>7, <1>8, FirstOccurrence
<1> QED BY <1>1, <1>9 DEF Replaced, ReplaceFirstSubSeq, ReplaceSubSeqAt

(* A change that was reported as made is the one that was asked for.       *)
THEOREM FileChangeIsExact == Spec => []ChangeIsExact
<1>1. IInv => ChangeIsExact
  <2> SUFFICES ASSUME IInv, at = "done", req.tool \in {"write_file", "edit_file"},
                      result.ok, ~short, ~disturbed
               PROVE  Data(file) =
                        IF req.tool = "write_file" THEN CString(req.content)
                        ELSE ReplaceFirstSubSeq(CString(req.new_text), CString(req.old_text),
                                                before[file].data)
    BY DEF ChangeIsExact, At
  <2>1. Data(file) = content /\ ContentAsked
    BY DEF IInv, WrittenByPlace
  <2>2. CASE req.tool = "write_file"
    BY <2>1, <2>2 DEF ContentAsked
  <2>3. CASE req.tool = "edit_file"
    <3>1. req \in Requests
      BY DEF IInv, TypeOK
    <3>2. /\ before[file].data \in Seq(Char) /\ CString(req.old_text) # <<>>
          /\ Found(before[file].data, CString(req.old_text)) # 0
          /\ content = Edited(before[file].data)
          /\ CString(req.old_text) \in Seq(Char) /\ CString(req.new_text) \in Seq(Char)
      BY <2>1, <2>3, <3>1, RequestTypes DEF ContentAsked
    <3> QED BY <2>1, <2>3, <3>2, ReplacesTheFirst DEF Edited
  <2> QED BY <2>2, <2>3
<1> QED BY <1>1, FilesInvariant, PTL
-----------------------------------------------------------------------------
(* What the registry tells of a tool that changes files.                   *)
LEMMA ChangersAreNoReaders ==
  ASSUME NEW tools, tools = <<BashDef, ReadFileDef, WriteFileDef, EditFileDef>>,
         NEW name \in {"write_file", "edit_file"}
  PROVE  ToolFind(tools, name).read_only = FALSE
<1> DEFINE I == {i \in 1 .. Len(tools) : tools[i].name = name}
<1>1. /\ Len(tools) = 4
      /\ tools[1] = BashDef /\ tools[2] = ReadFileDef /\ tools[3] = WriteFileDef /\ tools[4] = EditFileDef
  OBVIOUS
<1>2. /\ tools[1].name = "bash" /\ tools[2].name = "read_file"
      /\ tools[3].name = "write_file" /\ tools[3].read_only = FALSE
      /\ tools[4].name = "edit_file" /\ tools[4].read_only = FALSE
  BY <1>1 DEF BashDef, ReadFileDef, WriteFileDef, EditFileDef, Def
<1>3. I \in SUBSET Nat /\ I # {} /\ \A i \in I : tools[i].read_only = FALSE
  <2>1. 3 \in I \/ 4 \in I
    BY <1>1, <1>2
  <2>2. \A i \in I : i \in {3, 4}
    BY <1>1, <1>2
  <2> QED BY <1>2, <2>1, <2>2
<1>4. ToolFind(tools, name) = IF I = {} \/ Min(I) = 0 THEN NoTool ELSE tools[Min(I)]
  BY DEF ToolFind, SelectInSeq
<1>5. \A i \in I : i # 0
  OBVIOUS
<1> HIDE DEF I
<1>6. Min(I) \in I
  <2>1. \E i \in I : \A j \in I : i <= j
    BY <1>3, LeastNumber
  <2> QED BY <2>1 DEF Min
<1>7. ToolFind(tools, name) = tools[Min(I)]
  BY <1>3, <1>4, <1>5, <1>6
<1> QED BY <1>3, <1>6, <1>7

(* A tool that writes has its file from a path that leads inside.          *)
LEMMA NamedIsInside ==
  ASSUME IInv, req.path # Missing, req \in Requests, Given # NoPath
  PROVE  /\ LeadsAsAsked(before, Workdir \o req.path.names, Given)
         /\ \/ Opens(before, Given) = NoPath \/ Inside(Opens(before, Given))
            \/ Dangling(before, Workdir \o req.path.names, Given)
<1>1. IsTree(before) /\ req.path.names \in Path
  BY RequestTypes, FileSystemIsTree DEF IInv, TypeOK
<1> QED BY <1>1, ResolutionLeads DEF Given

NamedChange ==
    /\ ~ToolFind(g_tools, req.tool).read_only
    /\ DOMAIN fs' \subseteq DOMAIN fs \cup {file'}
    /\ \A p \in DOMAIN fs \ {file'} : fs'[p] = fs[p]
    /\ ~disturbed =>
          LET asked == Workdir \o req.path.names
              given == ResolveWorkspacePath(before, req.path)
          IN /\ given # NoPath /\ file' = Opens(before, given)
             /\ LeadsAsAsked(before, asked, given)
             /\ Inside(file') \/ Dangling(before, asked, given)

(* What is left to show of a step, once it is known which file it changes. *)
LEMMA NamedChangeFrom ==
  ASSUME IInv, req.path # Missing, req \in Requests,
         at \in {"resolved", "edited", "open", "buffered"}, req.tool \in {"write_file", "edit_file"},
         file' # NoPath, ~disturbed => file' = Opens(before, Given),
         DOMAIN fs' \subseteq DOMAIN fs \cup {file'}, \A p \in DOMAIN fs \ {file'} : fs'[p] = fs[p]
  PROVE  NamedChange
<1>1. ~ToolFind(g_tools, req.tool).read_only
  BY ChangersAreNoReaders DEF IInv, Registered
<1>2. ~disturbed => Given # NoPath
  BY DEF IInv, SafeAsGiven
<1> QED BY <1>1, <1>2, NamedIsInside DEF NamedChange, Given

LEMMA StepChangesNamed ==
  ASSUME IInv, Step, fs' # fs
  PROVE  NamedChange
<1>1. \/ WriteOpens \/ EditOpens
      \/ \E from \in Nat, s \in Seq(Char) : /\ at \in {"open", "buffered"} /\ UNCHANGED file
                                            /\ fs' = Written(file, from, s)
  <2>1. ASSUME WritesBlocks \/ BlocksFallShort \/ Closes
        PROVE  \E from \in Nat, s \in Seq(Char) : /\ at \in {"open", "buffered"} /\ UNCHANGED file
                                                  /\ fs' = Written(file, from, s)
    <3>1. \A n \in 0 .. Len(content) : SubSeq(content, 1, n) \in Seq(Char)
      BY WholeBlocks, Beginnings
    <3>2. CASE WritesBlocks
      <4>1. SubSeq(content, 1, AtOnce) \in Seq(Char)
        BY <3>1, WholeBlocks
      <4> QED BY <3>2, <4>1 DEF WritesBlocks
    <3>3. CASE BlocksFallShort
      <4>1. PICK n \in 0 .. AtOnce - 1 : fs' = Written(file, 0, SubSeq(content, 1, n))
        BY <3>3 DEF BlocksFallShort
      <4>2. SubSeq(content, 1, n) \in Seq(Char)
        BY <3>1, WholeBlocks
      <4> QED BY <3>3, <4>1, <4>2 DEF BlocksFallShort, Answer
    <3>4. CASE Closes
      <4>1. PICK n \in AtOnce .. Len(content) :
               fs' = Written(file, AtOnce, SubSeq(content, AtOnce + 1, n))
        BY <3>4 DEF Closes
      <4>2. PICK k \in Nat : k = AtOnce
        BY WholeBlocks
      <4>3. n \in 0 .. Len(content) /\ k \in 0 .. n
        BY <4>2, WholeBlocks
      <4>4. SubSeq(content, k + 1, n) \in Seq(Char)
        BY <4>3, WholeBlocks, Beginnings
      <4> QED BY <3>4, <4>1, <4>2, <4>4 DEF Closes, Answer
    <3> QED BY <2>1, <3>2, <3>3, <3>4
  <2>2. ASSUME \/ ReadRefuses \/ ReadOpens \/ ReadsLine \/ ReadEnds \/ WriteRefuses
               \/ EditRefuses \/ EditReadsDirectory \/ EditReads \/ EditOpenFails
               \/ ReadResolves \/ WriteResolves \/ EditResolves
        PROVE  fs' = fs
    BY <2>2 DEF ReadRefuses, ReadOpens, ReadsLine, ReadEnds, WriteRefuses, EditRefuses,
           EditReadsDirectory, EditReads, EditOpenFails, ReadResolves, WriteResolves, EditResolves,
           ResolvesIf, Refuse
  <2> QED BY <2>1, <2>2 DEF Step
<1>2. ASSUME at \in {"resolved", "edited", "open", "buffered"}
      PROVE  req.path # Missing /\ req \in Requests
  BY <1>2 DEF IInv, TypeOK, ToolByPlace
<1>3. CASE WriteOpens
  <2>1. /\ at = "resolved" /\ req.tool = "write_file" /\ Opens(fs, safe) # NoPath
        /\ file' = Opens(fs, safe) /\ fs' = Emptied(file')
    BY <1>3 DEF WriteOpens, Opening, MayOpen
  <2>2. ~disturbed => file' = Opens(before, Given)
    BY <2>1, OpensPath
  <2>3. DOMAIN fs' = DOMAIN fs \cup {file'} /\ \A q \in DOMAIN fs \ {file'} : fs'[q] = fs[q]
    BY <2>1, EmptiedIsFile
  <2> QED BY <1>2, <2>1, <2>2, <2>3, NamedChangeFrom
<1>4. CASE EditOpens
  <2>1. /\ at = "edited" /\ req.tool = "edit_file" /\ Opens(fs, safe) # NoPath
        /\ file' = Opens(fs, safe) /\ fs' = Emptied(file')
    BY <1>4 DEF EditOpens, MayOpen, IInv, ToolByPlace
  <2>2. ~disturbed => file' = Opens(before, Given)
    BY <2>1, OpensPath
  <2>3. DOMAIN fs' = DOMAIN fs \cup {file'} /\ \A q \in DOMAIN fs \ {file'} : fs'[q] = fs[q]
    BY <2>1, EmptiedIsFile
  <2> QED BY <1>2, <2>1, <2>2, <2>3, NamedChangeFrom
<1>5. ASSUME NEW from \in Nat, NEW s \in Seq(Char), at \in {"open", "buffered"}, UNCHANGED file,
             fs' = Written(file, from, s)
      PROVE  NamedChange
  <2>1. /\ FileAt(file) /\ file # NoPath /\ req.tool \in {"write_file", "edit_file"}
        /\ ~disturbed => file = Opens(before, Given)
    BY <1>5 DEF IInv, OpenAsNamed, ToolByPlace
  <2>2. DOMAIN fs' = DOMAIN fs /\ \A q \in DOMAIN fs \ {file} : fs'[q] = fs[q]
    BY <1>5, <2>1, WriteKeepsFiles
  <2> QED BY <1>2, <1>5, <2>1, <2>2, NamedChangeFrom
<1> QED BY <1>1, <1>3, <1>4, <1>5

(* Whatever else runs, a step of a tool changes the file it has opened,    *)
(* and that is, if nobody moved it meanwhile, the file of its path.        *)
THEOREM OnlyTheNamedFile == Spec => OnlyNamedFileChanges
<1>1. IInv /\ [Next]_vars => [Step /\ fs' # fs => NamedChange]_vars
  BY StepChangesNamed
<1>2. Spec => [][Step /\ fs' # fs => NamedChange]_vars
  BY <1>1, FilesInvariant, PTL DEF Spec
<1> QED BY <1>2 DEF OnlyNamedFileChanges, NamedChange
-----------------------------------------------------------------------------
(* Reading: what was read is a beginning of the file, without what is in a *)
(* line after a zero byte; every line but the last is a part of a line of  *)
(* the file, or one whole.                                                 *)
Clean(data, n) == \A i \in 1 .. n : data[i] # NUL

ReadWell(data, n, text, l) ==
    /\ Clean(data, n) => text = SubSeq(data, 1, n)
    /\ ~Clean(data, n) => IsPrefix(CString(data), text)
    /\ Count(text) <= l
    /\ ShortLines(data) /\ Clean(data, Len(data)) /\ n # Len(data) =>
          Count(text) = l /\ (n > 0 => data[n] = NL)

ReadSoFar ==
    at = "reading" /\ FileAt(file) /\ ~disturbed =>
        /\ pos <= Len(Data(file)) /\ (lines > 0 => pos > 0)
        /\ Len(content) < MaxOutput /\ (LineLimit > 0 => lines <= LineLimit)
        /\ ReadWell(Data(file), pos, content, lines)

LEMMA CountType ==
  ASSUME NEW s \in Seq(Char)
  PROVE  Count(s) \in Nat /\ IsFiniteSet({i \in DOMAIN s : s[i] = NL})
<1> DEFINE A == {i \in DOMAIN s : s[i] = NL}
<1>1. Len(s) \in Nat /\ DOMAIN s = 1 .. Len(s)
  BY LenProperties
<1>2. Count(s) = Cardinality(A)
  BY DEF Count
<1>3. IsFiniteSet(A) /\ Cardinality(A) \in Nat
  <2>1. IsFiniteSet(1 .. Len(s))
    BY <1>1, FS_Interval
  <2>2. A \subseteq 1 .. Len(s)
    BY <1>1
  <2> HIDE DEF A
  <2> QED BY <2>1, <2>2, FS_Subset, FS_CardinalityType
<1> QED BY <1>2, <1>3

(* How many lines a text has that grows by a part of one.                  *)
LEMMA CountGrows ==
  ASSUME NEW s \in Seq(Char), NEW u \in Seq(Char), \A i \in 1 .. Len(u) - 1 : u[i] # NL
  PROVE  /\ Count(s) \in Nat /\ s \o u \in Seq(Char) /\ Count(s \o u) \in Nat
         /\ Count(s \o u) = IF u # <<>> /\ u[Len(u)] = NL THEN Count(s) + 1 ELSE Count(s)
<1> DEFINE A == {i \in DOMAIN s : s[i] = NL}
           su == s \o u
           B == {i \in DOMAIN su : su[i] = NL}
<1>1. Len(s) \in Nat /\ Len(u) \in Nat /\ DOMAIN s = 1 .. Len(s)
  BY LenProperties
<1>2. /\ su \in Seq(Char) /\ Len(su) = Len(s) + Len(u)
      /\ \A i \in 1 .. Len(s) + Len(u) : su[i] = IF i <= Len(s) THEN s[i] ELSE u[i - Len(s)]
  BY ConcatProperties
<1> HIDE DEF su
<1>3. DOMAIN su = 1 .. Len(s) + Len(u)
  BY <1>1, <1>2, LenProperties
<1>4. Count(s) = Cardinality(A) /\ Count(su) = Cardinality(B)
  BY DEF Count
<1>5. IsFiniteSet(A) /\ Cardinality(A) \in Nat
  BY <1>4, CountType
<1>6. CASE u # <<>> /\ u[Len(u)] = NL
  <2>1. Len(u) >= 1
    BY <1>1, <1>6, EmptySeq
  <2>2. PICK x \in Nat : x = Len(s) + Len(u)
    BY <1>1
  <2>3. x - Len(s) = Len(u) /\ x \in 1 .. Len(s) + Len(u) /\ x > Len(s)
    BY <1>1, <2>1, <2>2
  <2>4. su[x] = NL
    BY <1>1, <1>2, <1>6, <2>3
  <2>5. B = A \cup {x}
    <3>1. \A i \in 1 .. Len(s) + Len(u) : i \in B <=> i \in A \/ i = x
      <4> SUFFICES ASSUME NEW i \in 1 .. Len(s) + Len(u) PROVE su[i] = NL <=> i \in A \/ i = x
        BY <1>3
      <4>1. CASE i <= Len(s)
        BY <1>1, <1>2, <2>3, <4>1
      <4>2. CASE i > Len(s) /\ i # x
        <5>1. i - Len(s) \in 1 .. Len(u) - 1
          BY <1>1, <2>2, <4>2
        <5>2. su[i] # NL
          BY SMTT(20), <1>1, <1>2, <4>2, <5>1
        <5>3. i \notin A
          BY <1>1, <4>2
        <5> QED BY <4>2, <5>2, <5>3
      <4> QED BY <1>1, <2>2, <2>4, <4>1, <4>2
    <3>2. A \cup {x} \subseteq 1 .. Len(s) + Len(u)
      BY <1>1, <2>3
    <3> QED BY <1>3, <3>1, <3>2
  <2>6. x \notin A
    BY <1>1, <2>3
  <2> HIDE DEF A, B
  <2>7. Cardinality(B) = Cardinality(A) + 1
    BY <1>5, <2>5, <2>6, FS_AddElement
  <2> QED BY <1>2, <1>4, <1>5, <1>6, <2>7 DEF su
<1>7. CASE ~(u # <<>> /\ u[Len(u)] = NL)
  <2>1. \A i \in 1 .. Len(u) : u[i] # NL
    BY <1>1, <1>7
  <2>2. B = A
    <3>1. \A i \in 1 .. Len(s) + Len(u) : i \in B <=> i \in A
      <4> SUFFICES ASSUME NEW i \in 1 .. Len(s) + Len(u) PROVE su[i] = NL <=> i \in A
        BY <1>3
      <4>1. CASE i <= Len(s)
        BY <1>1, <1>2, <4>1
      <4>2. CASE i > Len(s)
        <5>1. i - Len(s) \in 1 .. Len(u)
          BY <1>1, <4>2
        <5>2. su[i] # NL
          BY <1>1, <1>2, <2>1, <4>2, <5>1
        <5> QED BY <1>1, <4>2, <5>2
      <4> QED BY <1>1, <4>1, <4>2
    <3>2. A \subseteq 1 .. Len(s) + Len(u)
      BY <1>1
    <3> QED BY <1>3, <3>1, <3>2
  <2> QED BY <1>2, <1>4, <1>5, <1>7, <2>2 DEF su
<1> QED BY <1>6, <1>7

(* What is read from a text without a zero byte is a beginning of the      *)
(* string that it is; CString ends where the first zero byte is.           *)
LEMMA CleanIsString ==
  ASSUME NEW data \in Seq(Char), NEW n \in 0 .. Len(data)
  PROVE  /\ Clean(data, n) => IsPrefix(SubSeq(data, 1, n), CString(data))
         /\ Clean(data, n) /\ (n = Len(data) \/ data[n + 1] = NUL) => CString(data) = SubSeq(data, 1, n)
<1>1. PICK m \in 0 .. Len(data) :
         /\ CString(data) = SubSeq(data, 1, m) /\ Len(CString(data)) = m
         /\ \A i \in 1 .. m : data[i] # NUL /\ CString(data)[i] = data[i]
         /\ m < Len(data) => data[m + 1] = NUL
  BY CStringProperties
<1>2. Len(data) \in Nat /\ CString(data) \in Seq(Char)
  BY LenProperties, CStringProperties
<1>3. Clean(data, n) => n <= m
  <2> SUFFICES ASSUME Clean(data, n), ~(n <= m) PROVE FALSE
    OBVIOUS
  <2>1. m + 1 \in 1 .. n /\ m < Len(data)
    BY <1>2
  <2> QED BY <1>1, <2>1 DEF Clean
<1>4. Clean(data, n) => IsPrefix(SubSeq(data, 1, n), CString(data))
  <2> SUFFICES ASSUME Clean(data, n) PROVE IsPrefix(SubSeq(data, 1, n), CString(data))
    OBVIOUS
  <2>1. PICK b : b = SubSeq(data, 1, n)
    OBVIOUS
  <2>2. b \in Seq(Char) /\ Len(b) = n /\ \A i \in 1 .. n : b[i] = data[i]
    BY <2>1, Beginnings
  <2>3. Len(b) <= Len(CString(data)) /\ \A i \in 1 .. Len(b) : CString(data)[i] = b[i]
    BY <1>1, <1>3, <2>2
  <2> QED BY <1>2, <2>1, <2>2, <2>3, UnderIsPrefix
<1>5. ASSUME Clean(data, n), n = Len(data) \/ data[n + 1] = NUL PROVE n = m
  <2> SUFFICES ASSUME n < m PROVE FALSE
    BY <1>3, <1>5
  <2>1. n + 1 \in 1 .. m /\ n # Len(data)
    BY <1>2
  <2> QED BY <1>1, <1>5, <2>1
<1> QED BY <1>1, <1>4, <1>5

(* What fgets takes keeps the reading well.                                *)
Takes(data, n, g) ==
    /\ Len(g) > 0 /\ n + Len(g) <= Len(data)
    /\ \A i \in 1 .. Len(g) : g[i] = data[n + i]
    /\ \A i \in 1 .. Len(g) - 1 : g[i] # NL
    /\ n + Len(g) = Len(data) \/ g[Len(g)] = NL \/ Len(g) = LineSize - 1

LEMMA LineIsTaken ==
  ASSUME NEW data \in Seq(Char), NEW n \in 0 .. Len(data), NEW s \in Seq(Char), NEW l \in Nat,
         ReadWell(data, n, s, l), NEW g \in Seq(Char), Takes(data, n, g)
  PROVE  ReadWell(data, n + Len(g), s \o CString(g), l + 1)
<1> DEFINE c == CString(g)
           taken == s \o c
<1>1. /\ Len(data) \in Nat /\ Len(g) \in Nat /\ Len(g) >= 1 /\ Len(s) \in Nat /\ n \in Nat
      /\ \A i \in 1 .. Len(g) : g[i] = data[n + i]
      /\ n + Len(g) <= Len(data)
  BY LenProperties DEF Takes
<1>2. PICK m \in 0 .. Len(g) :
         /\ c = SubSeq(g, 1, m) /\ Len(c) = m
         /\ \A i \in 1 .. m : g[i] # NUL /\ c[i] = g[i]
         /\ m < Len(g) => g[m + 1] = NUL
  BY CStringProperties
<1>3. c \in Seq(Char)
  BY CStringProperties
<1> HIDE DEF c
<1>4. PICK n1 \in 0 .. Len(data) : n1 = n + Len(g)
  BY <1>1
<1>5. /\ taken \in Seq(Char) /\ Len(taken) = Len(s) + m
      /\ \A i \in 1 .. Len(s) + m : taken[i] = IF i <= Len(s) THEN s[i] ELSE c[i - Len(s)]
  <2>1. /\ taken \in Seq(Char) /\ Len(taken) = Len(s) + Len(c)
        /\ \A i \in 1 .. Len(s) + Len(c) :
              taken[i] = IF i <= Len(s) THEN s[i] ELSE c[i - Len(s)]
    BY <1>3, ConcatProperties
  <2>2. Len(c) = m
    BY <1>2
  <2> HIDE DEF taken
  <2> QED BY <2>1, <2>2
<1>6. \A i \in 1 .. m - 1 : c[i] # NL
  BY <1>1, <1>2 DEF Takes
<1>7. /\ Count(s) \in Nat /\ Count(taken) \in Nat
      /\ Count(taken) = IF c # <<>> /\ c[m] = NL THEN Count(s) + 1 ELSE Count(s)
  BY <1>2, <1>3, <1>6, CountGrows
<1> HIDE DEF taken
(* Up to the zero byte, what was read is what the file has there.          *)
<1>8. ASSUME Clean(data, n)
      PROVE  /\ n + m \in 0 .. Len(data) /\ Clean(data, n + m)
             /\ taken = SubSeq(data, 1, n + m)
  <2>1. s = SubSeq(data, 1, n) /\ Len(s) = n /\ \A i \in 1 .. n : s[i] = data[i]
    <3>1. s = SubSeq(data, 1, n)
      BY <1>8 DEF ReadWell
    <3>2. Len(SubSeq(data, 1, n)) = n /\ \A i \in 1 .. n : SubSeq(data, 1, n)[i] = data[i]
      BY Beginnings
    <3> QED BY <3>1, <3>2
  <2>2. PICK k \in 0 .. Len(data) : k = n + m
    BY <1>1
  <2>3. \A i \in 1 .. k : taken[i] = data[i]
    <3> SUFFICES ASSUME NEW i \in 1 .. k PROVE taken[i] = data[i]
      OBVIOUS
    <3>1. CASE i <= n
      BY <1>1, <1>5, <2>1, <2>2, <3>1
    <3>2. CASE i > n
      <4>1. PICK j \in 1 .. m : j = i - n /\ n + j = i
        <5>1. i - n \in 1 .. m /\ n + (i - n) = i
          BY <1>1, <2>2, <3>2
        <5> QED BY <5>1
      <4>2. taken[i] = c[j]
        <5>1. i \in 1 .. Len(s) + m /\ ~(i <= Len(s)) /\ i - Len(s) = j
          BY <1>1, <2>1, <2>2, <3>2, <4>1
        <5> QED BY <1>5, <5>1
      <4>3. c[j] = data[i]
        BY <1>1, <1>2, <4>1
      <4> QED BY <4>2, <4>3
    <3> QED BY <1>1, <3>1, <3>2
  <2>4. SubSeq(data, 1, k) \in Seq(Char) /\ Len(SubSeq(data, 1, k)) = k
        /\ \A i \in 1 .. k : SubSeq(data, 1, k)[i] = data[i]
    BY Beginnings
  <2>5. taken = SubSeq(data, 1, k)
    <3>1. PICK b : b = SubSeq(data, 1, k)
      OBVIOUS
    <3>2. b \in Seq(Char) /\ Len(b) = Len(taken) /\ \A i \in 1 .. Len(taken) : taken[i] = b[i]
      BY <1>5, <2>1, <2>2, <2>3, <2>4, <3>1
    <3> QED BY <1>5, <3>1, <3>2, SeqEqual
  <2>6. Clean(data, k)
    <3> SUFFICES ASSUME NEW i \in 1 .. k PROVE data[i] # NUL
      BY DEF Clean
    <3>1. CASE i <= n
      BY <1>8, <3>1 DEF Clean
    <3>2. CASE i > n
      <4>1. PICK j \in 1 .. m : n + j = i
        <5>1. i - n \in 1 .. m /\ n + (i - n) = i
          BY <1>1, <2>2, <3>2
        <5> QED BY <5>1
      <4>2. g[j] # NUL /\ g[j] = data[n + j]
        BY SMTT(20), <1>1, <1>2, <4>1
      <4> QED BY <4>1, <4>2
    <3> QED BY <1>1, <3>1, <3>2
  <2> QED BY <2>2, <2>5, <2>6
<1>9. Clean(data, n1) => m = Len(g) /\ Clean(data, n)
  <2> SUFFICES ASSUME Clean(data, n1) PROVE m = Len(g) /\ Clean(data, n)
    OBVIOUS
  <2>1. Clean(data, n)
    BY <1>1, <1>4 DEF Clean
  <2>2. ASSUME m < Len(g) PROVE FALSE
    <3>1. PICK j \in 1 .. Len(g) : j = m + 1
      BY <1>1, <2>2
    <3>2. g[j] = NUL /\ g[j] = data[n + j] /\ n + j \in 1 .. n1
      BY <1>1, <1>2, <1>4, <2>2, <3>1
    <3> QED BY <3>2 DEF Clean
  <2> QED BY <1>1, <2>1, <2>2
<1>10. Clean(data, n1) => taken = SubSeq(data, 1, n1)
  BY <1>4, <1>8, <1>9
<1>11. ASSUME ~Clean(data, n1) PROVE IsPrefix(CString(data), taken)
  <2>1. CString(data) \in Seq(Char) /\ Len(CString(data)) \in Nat
    BY CStringProperties, LenProperties
  <2>2. CASE ~Clean(data, n)
    <3>1. IsPrefix(CString(data), s)
      BY <2>2 DEF ReadWell
    <3>2. Len(CString(data)) <= Len(s) /\ \A i \in 1 .. Len(CString(data)) : s[i] = CString(data)[i]
      BY <2>1, <3>1, UnderIsPrefix
    <3>3. PICK b : b = CString(data)
      OBVIOUS
    <3>4. b \in Seq(Char) /\ Len(b) \in Nat /\ Len(b) <= Len(s) /\ Len(b) <= Len(taken)
      BY <1>1, <1>5, <2>1, <3>2, <3>3
    <3>5. \A i \in 1 .. Len(b) : taken[i] = b[i]
      <4> SUFFICES ASSUME NEW i \in 1 .. Len(b) PROVE taken[i] = b[i]
        OBVIOUS
      <4>1. i \in 1 .. Len(s) + m /\ i <= Len(s)
        BY <1>1, <3>4
      <4>2. taken[i] = s[i]
        BY <1>5, <4>1
      <4> QED BY <3>2, <3>3, <4>2
    <3> QED BY <1>5, <3>3, <3>4, <3>5, UnderIsPrefix
  <2>3. CASE Clean(data, n)
    <3>1. PICK k \in 0 .. Len(data) : k = n + m /\ Clean(data, k) /\ taken = SubSeq(data, 1, k)
      BY <1>8, <2>3
    <3>2. m < Len(g)
      BY <1>1, <1>4, <1>11, <3>1
    <3>3. data[k + 1] = NUL
      <4>1. PICK j \in 1 .. Len(g) : j = m + 1 /\ n + j = k + 1
        BY <1>1, <3>1, <3>2
      <4> QED BY <1>1, <1>2, <3>2, <4>1
    <3>4. CString(data) = taken
      BY <3>1, <3>3, CleanIsString
    <3>5. IsPrefix(taken, taken)
      BY <1>5, UnderIsPrefix, LenProperties
    <3> QED BY <3>4, <3>5
  <2> QED BY <2>2, <2>3
<1>12. Count(taken) <= l + 1
  BY <1>7 DEF ReadWell
<1>13. ASSUME ShortLines(data), Clean(data, Len(data)), n1 # Len(data)
       PROVE  Count(taken) = l + 1 /\ data[n1] = NL
  <2>1. Clean(data, n1)
    BY <1>1, <1>13 DEF Clean
  <2>2. m = Len(g) /\ n # Len(data)
    BY <1>1, <1>4, <1>9, <2>1
  <2>3. Count(s) = l
    BY <1>13, <2>2 DEF ReadWell
  <2>4. g[m] = NL
    <3> SUFFICES ASSUME g[m] # NL PROVE FALSE
      OBVIOUS
    <3>1. LineSize \in Nat /\ m = LineSize - 1
      BY <1>1, <1>4, <1>13, <2>2, LengthAssumption DEF Takes
    <3>2. PICK a \in Nat, b \in Nat : a = n + 1 /\ b = a + LineSize - 2 /\ b = n + m
      BY <1>1, <2>2, <3>1
    <3>3. a \in 1 .. Len(data) - LineSize + 1
      <4>1. n + m < Len(data) /\ Len(data) \in Nat /\ n \in Nat
        BY <1>1, <1>4, <1>13, <2>2
      <4> QED BY <3>1, <3>2, <4>1
    <3>4. NL \in ToSet(SubSeq(data, a, b))
      BY <1>13, <3>2, <3>3 DEF ShortLines
    <3>5. /\ SubSeq(data, a, b) \in Seq(Char) /\ Len(SubSeq(data, a, b)) = m
          /\ \A i \in 1 .. m : SubSeq(data, a, b)[i] = g[i]
      <4>1. \A i \in a .. b : data[i] \in Char
        BY <1>1, <2>2, <3>2, ElementOfSeq
      <4>2. /\ SubSeq(data, a, b) \in Seq(Char)
            /\ Len(SubSeq(data, a, b)) = IF a <= b THEN b - a + 1 ELSE 0
            /\ \A i \in 1 .. b - a + 1 : SubSeq(data, a, b)[i] = data[a + i - 1]
        BY <4>1, SubSeqProperties
      <4>3. b - a + 1 = m /\ \A i \in 1 .. m : a + i - 1 = n + i
        BY <1>1, <2>2, <3>2
      <4> QED BY <1>1, <2>2, <4>2, <4>3
    <3>6. PICK i \in DOMAIN SubSeq(data, a, b) : SubSeq(data, a, b)[i] = NL
      BY <3>4 DEF ToSet
    <3>7. DOMAIN SubSeq(data, a, b) = 1 .. m
      BY <3>5, LenProperties
    <3>8. i \in 1 .. m /\ g[i] = NL /\ i # m
      BY <3>5, <3>6, <3>7
    <3> QED BY <1>1, <2>2, <3>8 DEF Takes
  <2>5. c # <<>> /\ c[m] = NL
    BY <1>1, <1>2, <2>2, <2>4, EmptySeq
  <2>6. data[n1] = NL
    BY <1>1, <1>4, <2>2, <2>4
  <2> QED BY <1>7, <2>3, <2>5, <2>6
<1>14. ReadWell(data, n1, taken, l + 1)
  BY <1>10, <1>11, <1>12, <1>13 DEF ReadWell
<1> QED BY <1>4, <1>14 DEF taken, c

(* A beginning of the file that the tool may answer with.                  *)
LEMMA ReadingIsFaithful ==
  ASSUME NEW data \in Seq(Char), NEW n \in 0 .. Len(data), NEW s \in Seq(Char), NEW l \in Nat,
         ReadWell(data, n, s, l)
  PROVE  /\ IsPrefix(s, CString(data)) \/ IsPrefix(CString(data), s)
         /\ NUL \notin ToSet(data) => Clean(data, Len(data)) /\ s = SubSeq(data, 1, n)
         /\ s = <<>> => (Clean(data, n) /\ n = 0) \/ data = <<>> \/ data[1] = NUL
<1>1. Len(data) \in Nat /\ DOMAIN data = 1 .. Len(data)
  BY LenProperties
<1>2. Clean(data, n) => IsPrefix(s, CString(data))
  BY CleanIsString DEF ReadWell
<1>3. NUL \notin ToSet(data) => Clean(data, Len(data)) /\ Clean(data, n)
  BY <1>1 DEF ToSet, Clean
<1>4. ASSUME s = <<>>, Clean(data, n) PROVE n = 0
  <2>1. Len(SubSeq(data, 1, n)) = n
    BY Beginnings
  <2> QED BY <1>4, <2>1, EmptySeq DEF ReadWell
<1>5. ASSUME s = <<>>, ~Clean(data, n), data # <<>> PROVE data[1] = NUL
  <2>1. PICK m \in 0 .. Len(data) : Len(CString(data)) = m /\ (m < Len(data) => data[m + 1] = NUL)
    BY CStringProperties
  <2>2. IsPrefix(CString(data), s) /\ CString(data) \in Seq(Char)
    BY <1>5, CStringProperties DEF ReadWell
  <2>3. m <= Len(s)
    BY <2>1, <2>2, UnderIsPrefix
  <2>4. m = 0 /\ Len(data) # 0
    BY <1>1, <1>5, <2>1, <2>3, EmptySeq
  <2>5. 0 + 1 = 1 /\ 0 < Len(data)
    BY <1>1, <2>4
  <2> QED BY <2>1, <2>4, <2>5
<1> QED BY <1>2, <1>3, <1>4, <1>5 DEF ReadWell

LEMMA LimitIsNumber ==
  ASSUME IInv, at = "reading"
  PROVE  LineLimit \in Nat
<1>1. req \in Requests /\ req.tool = "read_file"
  BY DEF IInv, TypeOK, ToolByPlace
<1>2. req.limit = Missing \/ req.limit \in Int
  BY <1>1, RequestTypes
<1> QED BY <1>2 DEF LineLimit

(* The text is empty when the tool opens its file.                         *)
LEMMA ReadOpensWell == ASSUME IInv, ReadOpens PROVE ReadSoFar' /\ ReadIsFaithful'
<1>1. /\ at = "resolved" /\ at' = "reading" /\ UNCHANGED <<fs, pos, lines, content, disturbed, req>>
      /\ pos = 0 /\ lines = 0 /\ content = <<>> /\ LineLimit' = LineLimit
  BY DEF ReadOpens, Opening, history, IInv, Fresh, LineLimit
<1>2. ASSUME FileAt(file)'
      PROVE  /\ 0 <= Len(Data(file)') /\ ReadWell(Data(file)', 0, <<>>, 0)
  <2>1. PICK p : p = file'
    OBVIOUS
  <2>2. FileAt(p) /\ Data(file)' = Data(p)
    BY <1>1, <1>2, <2>1 DEF FileAt, Data
  <2>3. Data(p) \in Seq(Char) /\ Len(Data(p)) \in Nat
    BY <2>2, FileData DEF FileAt, IInv, TypeOK
  <2>4. SubSeq(Data(p), 1, 0) = <<>> /\ Clean(Data(p), 0)
    BY SubSeqEmpty DEF Clean
  <2>5. Count(<<>>) = 0
    BY FS_EmptySet DEF Count
  <2> QED BY <2>2, <2>3, <2>4, <2>5 DEF ReadWell
<1>3. 0 < MaxOutput /\ Len(<<>>) = 0
  BY LengthAssumption
<1>4. (LineLimit > 0 => 0 <= LineLimit)'
  <2>1. LineLimit' \in Int
    <3>1. req \in Requests /\ req.tool = "read_file"
      BY <1>1 DEF ReadOpens, Opening, IInv, TypeOK
    <3>2. req.limit = Missing \/ req.limit \in Int
      BY <3>1, RequestTypes
    <3> QED BY <1>1, <3>2 DEF LineLimit
  <2> QED BY <2>1
<1>5. ReadSoFar'
  BY <1>1, <1>2, <1>3, <1>4 DEF ReadSoFar
<1> QED BY <1>1, <1>5 DEF ReadIsFaithful, At

LEMMA ReadsLineWell == ASSUME IInv, ReadSoFar, ReadsLine PROVE ReadSoFar' /\ ReadIsFaithful'
<1> DEFINE data  == Data(file)
           g     == Fgets
           taken == content \o CString(g)
<1>1. /\ at = "reading" /\ g # <<>> /\ ~LimitPassed
      /\ UNCHANGED <<fs, req, safe, file, disturbed>>
      /\ \/ /\ Len(taken) >= MaxOutput
            /\ at' = "done" /\ result' = Result(TRUE, taken, TRUE)
         \/ /\ ~(Len(taken) >= MaxOutput)
            /\ at' = "reading" /\ content' = taken /\ pos' = pos + Len(g) /\ lines' = lines + 1
  BY DEF ReadsLine, Answer, history
<1>2. LineLimit' = LineLimit /\ FileAt(file)' = FileAt(file) /\ Data(file)' = data
  BY <1>1 DEF LineLimit, FileAt, Data
<1>3. SUFFICES ASSUME FileAt(file), ~disturbed PROVE ReadSoFar' /\ ReadIsFaithful'
  BY <1>1, <1>2 DEF ReadSoFar, ReadIsFaithful
<1>4. /\ data \in Seq(Char) /\ Len(data) \in Nat /\ content \in Seq(Char) /\ pos \in Nat /\ lines \in Nat
      /\ g \in Seq(Char) /\ Len(g) \in Nat /\ Len(g) > 0
  <2>1. data \in Seq(Char) /\ Len(data) \in Nat
    BY <1>3, FileData DEF FileAt, IInv, TypeOK
  <2>2. g \in Seq(Char) /\ Len(g) \in Nat
    BY FgetsProperties
  <2>3. Len(g) # 0
    BY <1>1, <2>2, EmptySeq
  <2> HIDE DEF g, data
  <2> QED BY <2>1, <2>2, <2>3 DEF IInv, TypeOK
<1>5. /\ pos <= Len(data) /\ (lines > 0 => pos > 0) /\ Len(content) < MaxOutput
      /\ ReadWell(data, pos, content, lines)
  BY <1>1, <1>3 DEF ReadSoFar
<1>6. Takes(data, pos, g)
  <2>1. /\ pos + Len(g) <= Len(data)
        /\ \A i \in 1 .. Len(g) : g[i] = data[pos + i]
        /\ \A i \in 1 .. Len(g) - 1 : g[i] # NL
        /\ pos + Len(g) = Len(data) \/ (Len(g) > 0 /\ g[Len(g)] = NL) \/ Len(g) = LineSize - 1
    BY <1>3, <1>5, FgetsProperties
  <2> HIDE DEF g, data
  <2> QED BY <1>4, <2>1 DEF Takes
<1>7. LineLimit \in Nat /\ (LineLimit > 0 => lines + 1 <= LineLimit)
  BY <1>1, <1>4, LimitIsNumber DEF LimitPassed
<1> HIDE DEF data, g
<1>8. taken \in Seq(Char) /\ Len(taken) \in Nat
  <2>1. CString(g) \in Seq(Char)
    BY <1>4, CStringProperties
  <2> QED BY <1>4, <2>1, ConcatProperties, LenProperties
<1>9. PICK n \in 0 .. Len(data), l \in Nat : n = pos + Len(g) /\ l = lines + 1 /\ n > 0
  <2>1. pos + Len(g) \in 0 .. Len(data) /\ lines + 1 \in Nat /\ pos + Len(g) > 0
    BY <1>4, <1>6 DEF Takes
  <2> QED BY <2>1
<1>10. pos \in 0 .. Len(data)
  BY <1>4, <1>5
<1>11. ReadWell(data, n, taken, l)
  BY <1>4, <1>5, <1>6, <1>9, <1>10, LineIsTaken
<1> HIDE DEF taken
<1>12. CASE Len(taken) >= MaxOutput
  <2>1. at' = "done" /\ result' = Result(TRUE, taken, TRUE)
    BY <1>1, <1>12
  <2>2. result'.ok = TRUE /\ result'.text = taken /\ result'.noted = TRUE
    BY <2>1 DEF Result
  <2>3. IsPrefix(taken, CString(data)) \/ IsPrefix(CString(data), taken)
    BY <1>4, <1>8, <1>11, ReadingIsFaithful
  <2>4. Count(taken) <= l
    BY <1>11 DEF ReadWell
  <2>5. Count(taken) \in Nat
    BY <1>8, CountType
  <2>6. LineLimit > 0 => Count(taken) <= LineLimit
    BY <1>7, <1>9, <2>4, <2>5
  <2>7. ReadIsFaithful'
    BY <1>2, <1>12, <2>2, <2>3, <2>6 DEF ReadIsFaithful
  <2> QED BY <2>1, <2>7 DEF ReadSoFar
<1>13. CASE ~(Len(taken) >= MaxOutput)
  <2>1. at' = "reading" /\ content' = taken /\ pos' = n /\ lines' = l
    BY <1>1, <1>9, <1>13
  <2>2. Len(taken) < MaxOutput
    BY <1>8, <1>13, LengthAssumption
  <2>3. LineLimit > 0 => l <= LineLimit
    BY <1>7, <1>9
  <2>4. ReadSoFar'
    BY <1>2, <1>4, <1>9, <1>11, <2>1, <2>2, <2>3 DEF ReadSoFar
  <2> QED BY <2>1, <2>4 DEF ReadIsFaithful, At
<1> QED BY <1>12, <1>13

LEMMA ReadEndsWell == ASSUME IInv, ReadSoFar, ReadEnds PROVE ReadSoFar' /\ ReadIsFaithful'
<1> DEFINE data == Data(file)
<1>1. /\ at = "reading" /\ at' = "done" /\ (Fgets = <<>> \/ LimitPassed)
      /\ result' = IF content = <<>> THEN Failure ELSE Result(TRUE, content, FALSE)
      /\ UNCHANGED <<fs, req, safe, file, disturbed>>
  BY DEF ReadEnds, Answer, history
<1>2. LineLimit' = LineLimit /\ FileAt(file)' = FileAt(file) /\ Data(file)' = data
  BY <1>1 DEF LineLimit, FileAt, Data
<1>3. ReadSoFar'
  BY <1>1 DEF ReadSoFar
<1>4. SUFFICES ASSUME FileAt(file), ~disturbed PROVE ReadIsFaithful'
  BY <1>1, <1>2, <1>3 DEF ReadIsFaithful
<1>5. /\ data \in Seq(Char) /\ Len(data) \in Nat /\ content \in Seq(Char) /\ Len(content) \in Nat
      /\ pos \in Nat /\ lines \in Nat
  <2>1. data \in Seq(Char) /\ Len(data) \in Nat
    BY <1>4, FileData DEF FileAt, IInv, TypeOK
  <2> HIDE DEF data
  <2> QED BY <2>1, LenProperties DEF IInv, TypeOK
<1>6. /\ pos <= Len(data) /\ (lines > 0 => pos > 0) /\ Len(content) < MaxOutput
      /\ LineLimit > 0 => lines <= LineLimit
      /\ ReadWell(data, pos, content, lines)
  BY <1>1, <1>4 DEF ReadSoFar
<1>7. Fgets = <<>> => pos = Len(data)
  <2>1. \/ pos + Len(Fgets) = Len(data)
        \/ Len(Fgets) > 0
        \/ Len(Fgets) = LineSize - 1
    BY <1>4, <1>6, FgetsProperties
  <2>2. LineSize - 1 \in Nat /\ LineSize - 1 > 0
    BY LengthAssumption
  <2>3. Len(<<>>) = 0
    OBVIOUS
  <2> HIDE DEF data
  <2> QED BY <1>5, <2>1, <2>2, <2>3
<1>8. LineLimit \in Nat /\ (LimitPassed => LineLimit > 0 /\ lines = LineLimit /\ lines > 0)
  BY <1>1, <1>5, <1>6, LimitIsNumber DEF LimitPassed
<1> HIDE DEF data
<1>9. pos \in 0 .. Len(data)
  BY <1>5, <1>6
<1>10. /\ IsPrefix(content, CString(data)) \/ IsPrefix(CString(data), content)
       /\ NUL \notin ToSet(data) => Clean(data, Len(data)) /\ content = SubSeq(data, 1, pos)
       /\ content = <<>> => (Clean(data, pos) /\ pos = 0) \/ data = <<>> \/ data[1] = NUL
  BY <1>5, <1>6, <1>9, ReadingIsFaithful
<1>11. CASE content = <<>>
  <2>1. result'.ok = FALSE
    BY <1>1, <1>11 DEF Failure, Result
  <2>2. data = <<>> \/ data[1] = NUL
    <3>1. pos = 0 => data = <<>>
      <4>1. pos = 0 => Len(data) = 0
        BY <1>1, <1>5, <1>6, <1>7, <1>8
      <4> QED BY <1>5, <4>1, EmptySeq
    <3> QED BY <1>10, <1>11, <3>1
  <2> QED BY <1>2, <2>1, <2>2 DEF ReadIsFaithful
<1>12. CASE content # <<>>
  <2>1. result'.ok = TRUE /\ result'.text = content /\ result'.noted = FALSE
    BY <1>1, <1>12 DEF Result
  <2>2. ASSUME content # data, NUL \notin ToSet(data)
        PROVE  /\ LineLimit > 0
               /\ ShortLines(data) => Count(content) = LineLimit /\ Last(content) = NL
    <3>1. content = SubSeq(data, 1, pos) /\ Clean(data, Len(data))
      BY <1>10, <2>2
    <3>2. pos # Len(data)
      BY <1>5, <2>2, <3>1, SubSeqFull
    <3>3. LineLimit > 0 /\ lines = LineLimit /\ pos > 0
      BY <1>1, <1>6, <1>7, <1>8, <3>2
    <3>4. Len(content) = pos /\ content[pos] = data[pos]
      <4>1. PICK b : b = SubSeq(data, 1, pos)
        OBVIOUS
      <4>2. Len(b) = pos /\ \A i \in 1 .. pos : b[i] = data[i]
        BY <1>5, <1>9, <4>1, Beginnings
      <4>3. pos \in 1 .. pos
        BY <1>5, <3>3
      <4> QED BY <3>1, <4>1, <4>2, <4>3
    <3>5. ShortLines(data) => Count(content) = lines /\ data[pos] = NL
      BY <1>6, <3>1, <3>2, <3>3 DEF ReadWell
    <3> QED BY <3>3, <3>4, <3>5 DEF Last
  <2>3. ~(Len(content) >= MaxOutput)
    BY <1>5, <1>6, LengthAssumption
  <2>4. LineLimit > 0 => Count(content) <= LineLimit
    <3>1. Count(content) \in Nat
      BY <1>5, CountType
    <3>2. Count(content) <= lines
      BY <1>6 DEF ReadWell
    <3> QED BY <1>5, <1>6, <1>8, <3>1, <3>2
  <2> QED BY <1>2, <1>10, <2>1, <2>2, <2>3, <2>4 DEF ReadIsFaithful
<1> QED BY <1>11, <1>12

ReadingInv == IInv /\ ReadSoFar /\ ReadIsFaithful

LEMMA ReadingKept == ReadingInv /\ [Next]_vars => ReadingInv'
<1> SUFFICES ASSUME IInv, ReadSoFar, ReadIsFaithful, [Next]_vars
             PROVE  ReadSoFar' /\ ReadIsFaithful'
  BY NextKeeps DEF ReadingInv
<1>1. CASE UNCHANGED vars
  BY <1>1 DEF vars, tool, history, ReadSoFar, ReadIsFaithful, At, FileAt, Data, LineLimit
<1>2. ASSUME at' \notin {"reading", "done"} PROVE ReadSoFar' /\ ReadIsFaithful'
  BY <1>2 DEF ReadSoFar, ReadIsFaithful, At
<1>3. ASSUME at' = "done", req'.tool # "read_file" \/ file' = NoPath
      PROVE  ReadSoFar' /\ ReadIsFaithful'
  BY <1>3 DEF ReadSoFar, ReadIsFaithful, At
<1>4. ASSUME disturbed' = TRUE PROVE ReadSoFar' /\ ReadIsFaithful'
  BY <1>4 DEF ReadSoFar, ReadIsFaithful
<1>5. ASSUME at \in {"called", "resolved", "edited"}, Refuse PROVE ReadSoFar' /\ ReadIsFaithful'
  <2>1. at' = "done" /\ req' = req /\ file' = file
    BY <1>5 DEF Refuse, Answer
  <2>2. req.tool # "read_file" \/ file = NoPath
    BY <1>5 DEF IInv, Fresh, ToolByPlace
  <2> QED BY <1>3, <2>1, <2>2
<1>6. CASE Start
  BY <1>2, <1>6 DEF Start
<1>7. CASE Call
  <2>1. at' \in {"called", "done"} /\ file' = NoPath
    BY <1>7 DEF Call, IInv, Fresh
  <2> QED BY <1>2, <1>3, <2>1
<1>8. CASE ToolResultFree
  BY <1>2, <1>8 DEF ToolResultFree
<1>9. CASE OtherChanges
  BY <1>4, <1>9 DEF OtherChanges
<1>10. CASE ReadRefuses \/ WriteRefuses \/ EditRefuses \/ EditOpenFails
  BY <1>5, <1>10 DEF ReadRefuses, WriteRefuses, EditRefuses, EditOpenFails, Opening
<1>11. CASE WriteOpens \/ WritesBlocks \/ EditOpens
  BY <1>2, <1>11 DEF WriteOpens, WritesBlocks, EditOpens
<1>12. CASE BlocksFallShort \/ Closes
  <2>1. at' = "done" /\ req' = req /\ at \in {"open", "buffered"}
    BY <1>12 DEF BlocksFallShort, Closes, Answer
  <2> QED BY <1>3, <2>1 DEF IInv, ToolByPlace
<1>13. CASE EditReadsDirectory
  <2>1. (Refuse /\ at = "resolved") \/ at' = "dead"
    BY <1>13 DEF EditReadsDirectory, Opening
  <2> QED BY <1>2, <1>5, <2>1
<1>14. CASE EditReads
  <2>1. (Refuse /\ at = "resolved") \/ at' = "edited"
    BY <1>14 DEF EditReads, Opening
  <2> QED BY <1>2, <1>5, <2>1
<1>15. CASE ReadOpens
  BY <1>15, ReadOpensWell
<1>16. CASE ReadsLine
  BY <1>16, ReadsLineWell
<1>17. CASE ReadEnds
  BY <1>17, ReadEndsWell
<1>18. CASE ReadResolves \/ WriteResolves \/ EditResolves
  <2>1. (Refuse /\ at = "called") \/ at' = "resolved"
    BY <1>18 DEF ReadResolves, WriteResolves, EditResolves, ResolvesIf, Calling
  <2> QED BY <1>2, <1>5, <2>1
<1> QED BY <1>1, <1>6, <1>7, <1>8, <1>9, <1>10, <1>11, <1>12, <1>13, <1>14, <1>15, <1>16, <1>17, <1>18
        DEF Next, Step

(* What read_file answers with is what the file begins with.               *)
THEOREM FileReadIsFaithful == Spec => []ReadIsFaithful
<1>1. Init => ReadingInv
  BY InitEstablishes DEF Init, ReadingInv, ReadSoFar, ReadIsFaithful, At
<1>2. ReadingInv => ReadIsFaithful
  BY DEF ReadingInv
<1> QED BY <1>1, <1>2, ReadingKept, PTL DEF Spec
=============================================================================
