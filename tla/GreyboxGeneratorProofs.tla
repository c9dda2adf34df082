----------------------- MODULE GreyboxGeneratorProofs -----------------------
(***************************************************************************)
(* Theorems about the greybox generator for any tools, executions, batch   *)
(* size and number of crashes. The argument: what a snapshot must satisfy  *)
(* is stated of one snapshot (GeneratorOK), and each method of the         *)
(* generator is shown to keep it; that mutations of a batch and the        *)
(* selections of the scheduler are recursive is dealt with once, in        *)
(* SpendingsKeep and OnlyInKeeps, by a least counterexample. The campaign  *)
(* then only moves snapshots: BatchOK says that the files of a batch lead  *)
(* from the saved snapshot to the one in memory.                           *)
(***************************************************************************)
EXTENDS GreyboxGenerator, FiniteSetTheorems, SequenceTheorems, WellFoundedInduction, TLAPS

-----------------------------------------------------------------------------
(* Sequences. *)

LEMMA LeastNatural ==
  ASSUME NEW S \in SUBSET Nat, S # {}
  PROVE  \E s \in S : \A r \in S : s <= r
<1>1. \E s \in S : \A r \in S : ~ (<<r, s>> \in OpToRel(<, Nat))
  BY NatLessThanWellFounded, WFMin, Zenon
<1>2. \A r, s \in Nat : r < s => <<r, s>> \in OpToRel(<, Nat)
  BY DEF OpToRel
<1>3. \E s \in S : \A r \in S : ~ (r < s)
  BY <1>1, <1>2, Zenon
<1> QED BY <1>3

LEMMA Members ==
  ASSUME NEW X, NEW s \in Seq(X)
  PROVE  ToSet(s) = {s[i] : i \in 1 .. Len(s)} /\ ToSet(s) \in SUBSET X
  BY DEF ToSet

LEMMA NoMembers == ToSet(<<>>) = {}
  BY DEF ToSet

LEMMA Distinct ==
  ASSUME NEW X, NEW s \in Seq(X)
  PROVE  IsInjective(s) <=> \A i, j \in 1 .. Len(s) : s[i] = s[j] => i = j
  BY DEF IsInjective

LEMMA AppendedMembers ==
  ASSUME NEW X, NEW s \in Seq(X), NEW x \in X
  PROVE  /\ Append(s, x) \in Seq(X) /\ ToSet(Append(s, x)) = ToSet(s) \cup {x}
         /\ IsInjective(s) /\ x \notin ToSet(s) => IsInjective(Append(s, x))
<1> DEFINE t == Append(s, x)
<1>1. /\ t \in Seq(X) /\ Len(t) = Len(s) + 1 /\ t[Len(s) + 1] = x
      /\ \A i \in 1 .. Len(s) : t[i] = s[i]
  OBVIOUS
<1>2. \A i \in 1 .. Len(t) : i = Len(s) + 1 \/ i \in 1 .. Len(s)
  BY <1>1
<1>3. ToSet(t) = {t[i] : i \in 1 .. Len(t)} /\ ToSet(s) = {s[i] : i \in 1 .. Len(s)}
  BY <1>1, Members
<1>4. Len(s) + 1 \in 1 .. Len(t) /\ \A i \in 1 .. Len(s) : i \in 1 .. Len(t)
  BY <1>1
<1> HIDE DEF t
<1>5. ToSet(t) = ToSet(s) \cup {x}
  BY <1>1, <1>2, <1>3, <1>4
<1>6. ASSUME IsInjective(s), x \notin ToSet(s) PROVE IsInjective(t)
  <2>1. \A i, j \in 1 .. Len(s) : s[i] = s[j] => i = j
    BY <1>6, Distinct
  <2>2. \A i \in 1 .. Len(s) : s[i] # x
    BY <1>3, <1>6
  <2>3. \A i, j \in 1 .. Len(t) : t[i] = t[j] => i = j
    BY <1>1, <1>2, <2>1, <2>2
  <2> QED BY <1>1, <2>3, Distinct
<1> QED BY <1>1, <1>5, <1>6 DEF t

LEMMA JoinedMembers ==
  ASSUME NEW X, NEW s \in Seq(X), NEW t \in Seq(X)
  PROVE  /\ s \o t \in Seq(X) /\ ToSet(s \o t) = ToSet(s) \cup ToSet(t)
         /\ IsInjective(s) /\ IsInjective(t) /\ ToSet(s) \cap ToSet(t) = {} => IsInjective(s \o t)
<1> DEFINE u == s \o t
<1>1. /\ u \in Seq(X) /\ Len(u) = Len(s) + Len(t)
      /\ \A i \in 1 .. Len(s) : u[i] = s[i]
      /\ \A i \in 1 .. Len(t) : u[Len(s) + i] = t[i]
      /\ \A i \in Len(s) + 1 .. Len(u) : u[i] = t[i - Len(s)]
  OBVIOUS
<1>2. \A i \in 1 .. Len(u) :
        \/ i \in 1 .. Len(s)
        \/ i - Len(s) \in 1 .. Len(t) /\ i \in Len(s) + 1 .. Len(u)
  BY <1>1
<1>3. /\ ToSet(u) = {u[i] : i \in 1 .. Len(u)}
      /\ ToSet(s) = {s[i] : i \in 1 .. Len(s)} /\ ToSet(t) = {t[i] : i \in 1 .. Len(t)}
  BY <1>1, Members
<1>4. /\ \A i \in 1 .. Len(s) : i \in 1 .. Len(u)
      /\ \A i \in 1 .. Len(t) : Len(s) + i \in 1 .. Len(u)
  BY <1>1
<1>8. \A i, j \in 1 .. Len(u) : i - Len(s) = j - Len(s) => i = j
  OBVIOUS
<1> HIDE DEF u
<1>5. ToSet(u) = ToSet(s) \cup ToSet(t)
  <2>1. ToSet(u) \subseteq ToSet(s) \cup ToSet(t)
    BY <1>1, <1>2, <1>3
  <2>2. ToSet(s) \subseteq ToSet(u) /\ ToSet(t) \subseteq ToSet(u)
    BY <1>1, <1>3, <1>4
  <2> QED BY <2>1, <2>2
<1>6. ASSUME IsInjective(s), IsInjective(t), ToSet(s) \cap ToSet(t) = {} PROVE IsInjective(u)
  <2>1. /\ \A i, j \in 1 .. Len(s) : s[i] = s[j] => i = j
        /\ \A i, j \in 1 .. Len(t) : t[i] = t[j] => i = j
    BY <1>6, Distinct
  <2>2. \A i \in 1 .. Len(s) : \A j \in 1 .. Len(t) : s[i] # t[j]
    BY <1>3, <1>6
  <2>3. ASSUME NEW i \in 1 .. Len(u), NEW j \in 1 .. Len(u), u[i] = u[j] PROVE i = j
    <3>1. CASE i \in 1 .. Len(s) /\ j \in 1 .. Len(s)
      BY <3>1, <1>1, <2>1, <2>3
    <3>2. CASE i \in 1 .. Len(s) /\ j \notin 1 .. Len(s)
      BY <3>2, <1>1, <1>2, <2>2, <2>3
    <3>3. CASE i \notin 1 .. Len(s) /\ j \in 1 .. Len(s)
      BY <3>3, <1>1, <1>2, <2>2, <2>3
    <3>4. CASE i \notin 1 .. Len(s) /\ j \notin 1 .. Len(s)
      BY <3>4, <1>1, <1>2, <1>8, <2>1, <2>3
    <3> QED BY <3>1, <3>2, <3>3, <3>4
  <2> QED BY <1>1, <2>3, Distinct
<1> QED BY <1>1, <1>5, <1>6 DEF u

LEMMA HeadAndTail ==
  ASSUME NEW X, NEW s \in Seq(X), s # <<>>
  PROVE  /\ Head(s) \in X /\ Tail(s) \in Seq(X) /\ ToSet(s) = ToSet(Tail(s)) \cup {Head(s)}
         /\ IsInjective(s) => IsInjective(Tail(s)) /\ Head(s) \notin ToSet(Tail(s))
<1> DEFINE t == Tail(s)
<1>1. /\ t \in Seq(X) /\ Len(s) = Len(t) + 1 /\ s[1] = Head(s) /\ Head(s) \in X
      /\ \A i \in 1 .. Len(t) : t[i] = s[i + 1]
  OBVIOUS
<1>2. /\ \A i \in 1 .. Len(s) : i # 1 => i - 1 \in 1 .. Len(t) /\ (i - 1) + 1 = i
      /\ 1 \in 1 .. Len(s)
      /\ \A i \in 1 .. Len(t) : i + 1 \in 1 .. Len(s) /\ i + 1 # 1
      /\ \A i, j \in 1 .. Len(t) : i + 1 = j + 1 => i = j
  BY <1>1
<1>3. ToSet(t) = {t[i] : i \in 1 .. Len(t)} /\ ToSet(s) = {s[i] : i \in 1 .. Len(s)}
  BY <1>1, Members
<1> HIDE DEF t
<1>4. ToSet(s) = ToSet(t) \cup {Head(s)}
  <2>1. \A i \in 1 .. Len(s) : i # 1 => s[i] = t[i - 1]
    BY <1>1, <1>2
  <2>3. ToSet(s) \subseteq ToSet(t) \cup {Head(s)}
    BY <1>1, <1>2, <1>3, <2>1
  <2>2. ToSet(t) \cup {Head(s)} \subseteq ToSet(s)
    BY <1>1, <1>2, <1>3
  <2> QED BY <2>2, <2>3
<1>5. ASSUME IsInjective(s) PROVE IsInjective(t) /\ Head(s) \notin ToSet(t)
  <2>1. \A i, j \in 1 .. Len(s) : s[i] = s[j] => i = j
    BY <1>5, Distinct
  <2>2. \A i, j \in 1 .. Len(t) : t[i] = t[j] => i = j
    BY <1>1, <1>2, <2>1
  <2>3. \A i \in 1 .. Len(t) : t[i] # Head(s)
    BY <1>1, <1>2, <2>1
  <2> QED BY <1>1, <1>3, <2>2, <2>3, Distinct
<1> QED BY <1>1, <1>4, <1>5 DEF t

\* What OnlyIn and Spendings define by recursion, each as what its function satisfies.
Sifts(f, s, S, n) ==
  f = [k \in 0 .. n |-> IF k = 0 THEN <<>>
                        ELSE IF s[k] \in S THEN Append(f[k - 1], s[k]) ELSE f[k - 1]]
Spends(f, g, n) == f = [k \in 0 .. n |-> IF k = 0 THEN g ELSE Spent(f[k - 1])]

LEMMA SiftsExist ==
  ASSUME NEW s, NEW S, NEW n \in Nat
  PROVE  \E f : Sifts(f, s, S, n)
<1> DEFINE Next_(f, k) == IF s[k] \in S THEN Append(f[k - 1], s[k]) ELSE f[k - 1]
<1> DEFINE Bad == {k \in Nat : ~ \E f : Sifts(f, s, S, k)}
<1>1. SUFFICES ASSUME Bad # {} PROVE FALSE
  OBVIOUS
<1>2. PICK k \in Bad : \A r \in Bad : k <= r
  <2>1. Bad \in SUBSET Nat
    OBVIOUS
  <2> HIDE DEF Bad
  <2> QED BY <1>1, <2>1, LeastNatural
<1>3. CASE k = 0
  <2> DEFINE f == [i \in 0 .. 0 |-> <<>>]
  <2>1. Sifts(f, s, S, 0)
    BY DEF Sifts
  <2> QED BY <2>1, <1>3
<1>4. CASE k # 0
  <2>1. k \in Nat /\ k - 1 \in Nat /\ k - 1 \notin Bad
    BY <1>2, <1>4
  <2>2. PICK e : Sifts(e, s, S, k - 1)
    BY <2>1
  <2> DEFINE f == [i \in 0 .. k |-> IF i = k THEN Next_(e, k) ELSE e[i]]
  <2>3. \A i \in 0 .. k - 1 : e[i] = IF i = 0 THEN <<>> ELSE Next_(e, i)
    BY <2>2 DEF Sifts
  <2>4. \A i \in 0 .. k : i # k => i \in 0 .. k - 1 /\ f[i] = e[i]
    BY <2>1
  <2>5. f[k] = Next_(e, k)
    BY <2>1
  <2>6. f = [i \in 0 .. k |-> f[i]]
    OBVIOUS
  <2> HIDE DEF f
  <2>7. ASSUME NEW i \in 0 .. k PROVE f[i] = IF i = 0 THEN <<>> ELSE Next_(f, i)
    <3>1. i # 0 => i - 1 \in 0 .. k /\ i - 1 # k
      BY <2>1
    <3>2. i # 0 => f[i - 1] = e[i - 1]
      BY <3>1, <2>4
    <3>3. CASE i = k
      BY <3>2, <3>3, <2>5, <1>4
    <3>4. CASE i # k
      BY <3>2, <3>4, <2>3, <2>4
    <3> QED BY <3>3, <3>4
  <2>8. Sifts(f, s, S, k)
    BY <2>6, <2>7 DEF Sifts
  <2> QED BY <2>8
<1> QED BY <1>3, <1>4

LEMMA SpendsExist ==
  ASSUME NEW g, NEW n \in Nat
  PROVE  \E f : Spends(f, g, n)
<1> DEFINE Bad == {k \in Nat : ~ \E f : Spends(f, g, k)}
<1>1. SUFFICES ASSUME Bad # {} PROVE FALSE
  OBVIOUS
<1>2. PICK k \in Bad : \A r \in Bad : k <= r
  <2>1. Bad \in SUBSET Nat
    OBVIOUS
  <2> HIDE DEF Bad
  <2> QED BY <1>1, <2>1, LeastNatural
<1>3. CASE k = 0
  <2> DEFINE f == [i \in 0 .. 0 |-> g]
  <2>1. Spends(f, g, 0)
    BY DEF Spends
  <2> QED BY <2>1, <1>3
<1>4. CASE k # 0
  <2>1. k \in Nat /\ k - 1 \in Nat /\ k - 1 \notin Bad
    BY <1>2, <1>4
  <2>2. PICK e : Spends(e, g, k - 1)
    BY <2>1
  <2> DEFINE f == [i \in 0 .. k |-> IF i = k THEN Spent(e[k - 1]) ELSE e[i]]
  <2>3. \A i \in 0 .. k - 1 : e[i] = IF i = 0 THEN g ELSE Spent(e[i - 1])
    BY <2>2 DEF Spends
  <2>4. \A i \in 0 .. k : i # k => i \in 0 .. k - 1 /\ f[i] = e[i]
    BY <2>1
  <2>5. f[k] = Spent(e[k - 1])
    BY <2>1
  <2>6. f = [i \in 0 .. k |-> f[i]]
    OBVIOUS
  <2> HIDE DEF f
  <2>7. ASSUME NEW i \in 0 .. k PROVE f[i] = IF i = 0 THEN g ELSE Spent(f[i - 1])
    <3>1. i # 0 => i - 1 \in 0 .. k /\ i - 1 # k
      BY <2>1
    <3>2. i # 0 => f[i - 1] = e[i - 1]
      BY <3>1, <2>4
    <3>3. CASE i = k
      BY <3>2, <3>3, <2>5, <1>4
    <3>4. CASE i # k
      BY <3>2, <3>4, <2>3, <2>4
    <3> QED BY <3>3, <3>4
  <2>8. Spends(f, g, k)
    BY <2>6, <2>7 DEF Spends
  <2> QED BY <2>8
<1> QED BY <1>3, <1>4

\* The members of S in s, none lost and none doubled.
LEMMA OnlyInKeeps ==
  ASSUME NEW X, NEW s \in Seq(X), NEW S
  PROVE  /\ OnlyIn(s, S) \in Seq(X) /\ ToSet(OnlyIn(s, S)) = ToSet(s) \cap S
         /\ IsInjective(s) => IsInjective(OnlyIn(s, S))
<1> DEFINE n == Len(s)
<1> DEFINE f == CHOOSE e : Sifts(e, s, S, n)
<1> DEFINE Seen(k) == {s[i] : i \in 1 .. k}
<1> DEFINE Good(k) == /\ f[k] \in Seq(X) /\ ToSet(f[k]) = Seen(k) \cap S
                      /\ IsInjective(s) => IsInjective(f[k])
<1> DEFINE Bad == {k \in 0 .. n : ~ Good(k)}
<1>1. n \in Nat
  OBVIOUS
<1>2. OnlyIn(s, S) = f[n]
  BY DEF OnlyIn, Sifts
<1>3. Sifts(f, s, S, n)
  BY <1>1, SiftsExist
<1> HIDE DEF f
<1>4. f[0] = <<>>
  BY <1>1, <1>3 DEF Sifts
<1>5. \A k \in 1 .. n : f[k] = IF s[k] \in S THEN Append(f[k - 1], s[k]) ELSE f[k - 1]
  <2>1. \A k \in 1 .. n : k \in 0 .. n /\ k # 0
    BY <1>1
  <2> QED BY <2>1, <1>3 DEF Sifts
<1>6. ASSUME Bad # {} PROVE FALSE
  <2>1. PICK k \in Bad : \A r \in Bad : k <= r
    <3>1. Bad \in SUBSET Nat
      BY <1>1
    <3> HIDE DEF Bad
    <3> QED BY <1>6, <3>1, LeastNatural
  <2>2. CASE k = 0
    <3>1. Seen(0) = {}
      OBVIOUS
    <3>2. IsInjective(<<>>)
      BY DEF IsInjective
    <3>3. <<>> \in Seq(X)
      OBVIOUS
    <3>4. Good(0)
      BY <3>1, <3>2, <3>3, <1>4, NoMembers
    <3> QED BY <3>4, <2>2
  <2>3. CASE k # 0
    <3>1. k \in 1 .. n /\ k - 1 \in 0 .. n /\ s[k] \in X /\ k - 1 \notin Bad
      <4>1. k \in 1 .. n /\ k - 1 \in 0 .. n /\ s[k] \in X /\ ~ (k <= k - 1)
        BY <2>3, <1>1
      <4> HIDE DEF Bad
      <4> QED BY <4>1, <2>1
    <3>2. Good(k - 1)
      BY <3>1
    <3>3. Seen(k) = Seen(k - 1) \cup {s[k]}
      <4>1. 1 .. k = (1 .. k - 1) \cup {k}
        BY <3>1
      <4> QED BY <4>1
    <3>4. IsInjective(s) => s[k] \notin Seen(k - 1)
      <4>1. \A i \in 1 .. k - 1 : i \in 1 .. n /\ i # k
        BY <3>1, <1>1
      <4>2. IsInjective(s) => \A i, j \in 1 .. n : s[i] = s[j] => i = j
        BY Distinct
      <4> QED BY <4>1, <4>2, <3>1
    <3> DEFINE e == f[k - 1]
    <3>5. e \in Seq(X) /\ ToSet(e) = Seen(k - 1) \cap S /\ (IsInjective(s) => IsInjective(e))
      BY <3>2
    <3> HIDE DEF e, Seen
    <3>6. CASE s[k] \in S
      <4>1. f[k] = Append(e, s[k])
        BY <3>1, <3>6, <1>5 DEF e
      <4>2. /\ Append(e, s[k]) \in Seq(X) /\ ToSet(Append(e, s[k])) = ToSet(e) \cup {s[k]}
            /\ IsInjective(e) /\ s[k] \notin ToSet(e) => IsInjective(Append(e, s[k]))
        BY <3>1, <3>5, AppendedMembers
      <4>3. Good(k)
        BY <4>1, <4>2, <3>3, <3>4, <3>5, <3>6
      <4> QED BY <4>3
    <3>7. CASE s[k] \notin S
      <4>1. f[k] = e
        BY <3>1, <3>7, <1>5 DEF e
      <4>2. Good(k)
        BY <4>1, <3>3, <3>5, <3>7
      <4> QED BY <4>2
    <3> QED BY <3>6, <3>7
  <2> QED BY <2>2, <2>3
<1>7. n \in 0 .. n
  BY <1>1
<1>8. Good(n)
  BY <1>6, <1>7
<1>9. ToSet(s) = Seen(n)
  BY Members
<1> QED BY <1>2, <1>8, <1>9

-----------------------------------------------------------------------------
(* What holds of every snapshot of the generator. *)

\* The scheduler: every seed that can still be mutated is in the queue or being spent, once.
SchedulerOK(g) ==
  /\ g \in Snapshot
  /\ g.queue \in Seq(Position(g)) /\ g.pending \in Position(g) \cup {None}
  /\ IsInjective(g.queue) /\ g.pending \notin ToSet(g.queue)
  /\ \A i \in Position(g) :
       /\ g.corpus[i].energy <= g.corpus[i].base
       /\ g.corpus[i].energy > 0 => i \in ToSet(g.queue) \cup {g.pending}
  /\ \A i \in ToSet(g.queue) : g.corpus[i].energy > 0

Shown(g, i) == g.corpus[i].seq

\* A reward is a seed with a number up to the energy it earned.
Rewards(g) == {u \in Position(g) \X (1 .. 3) : u[2] <= g.corpus[u[1]].base}

\* The corpus: what was observed is what the earning seeds show, each sequence once.
CoverageOK(g) ==
  /\ {Shown(g, i) : i \in Earning(g)} = g.seqs
  /\ \A i, j \in Earning(g) : Shown(g, i) = Shown(g, j) => i = j
  /\ g.tools = UNION {ToSet(Shown(g, i)) : i \in Earning(g)}
  /\ g.trans = UNION {Transitions(Shown(g, i)) : i \in Earning(g)}
  /\ g.corpus # <<>> => 1 \in Earning(g)
  /\ IsFiniteSet(g.tools) /\ IsFiniteSet(g.trans) /\ IsFiniteSet(g.seqs) /\ IsFiniteSet(Rewards(g))
  /\ Cardinality(Rewards(g)) <= Cardinality(g.tools) + Cardinality(g.trans) + Cardinality(g.seqs)

GeneratorOK(g) == SchedulerOK(g) /\ CoverageOK(g)

\* Snapshots that have observed and retained the same.
Alike(h, g) ==
  /\ h.tools = g.tools /\ h.trans = g.trans /\ h.seqs = g.seqs
  /\ Len(h.corpus) = Len(g.corpus)
  /\ \A i \in Position(g) : /\ h.corpus[i].base = g.corpus[i].base
                            /\ h.corpus[i].seq = g.corpus[i].seq

LEMMA AlikeCovers ==
  ASSUME NEW g \in Snapshot, NEW h \in Snapshot, CoverageOK(g), Alike(h, g)
  PROVE  CoverageOK(h)
<1>1. Position(h) = Position(g)
  BY DEF Position, Alike
<1>2. Earning(h) = Earning(g)
  BY <1>1 DEF Earning, Alike
<1>3. \A i \in Earning(g) : Shown(h, i) = Shown(g, i)
  BY DEF Earning, Shown, Alike
<1>4. Rewards(h) = Rewards(g)
  BY <1>1 DEF Rewards, Alike
<1>5. h.corpus = <<>> <=> g.corpus = <<>>
  BY DEF Snapshot, Alike
<1>6. /\ {Shown(h, i) : i \in Earning(h)} = {Shown(g, i) : i \in Earning(g)}
      /\ {ToSet(Shown(h, i)) : i \in Earning(h)} = {ToSet(Shown(g, i)) : i \in Earning(g)}
      /\ {Transitions(Shown(h, i)) : i \in Earning(h)}
           = {Transitions(Shown(g, i)) : i \in Earning(g)}
  BY <1>2, <1>3
<1>7. \A i, j \in Earning(h) : Shown(h, i) = Shown(h, j) => i = j
  BY <1>2, <1>3 DEF CoverageOK
<1>8. h.tools = g.tools /\ h.trans = g.trans /\ h.seqs = g.seqs
  BY DEF Alike
<1> QED BY <1>2, <1>4, <1>5, <1>6, <1>7, <1>8 DEF CoverageOK

\* Sorting by energy loses no queued seed and doubles none.
LEMMA SortedQueue ==
  ASSUME NEW g, g.queue \in Seq(Position(g)),
         \A i \in ToSet(g.queue) : g.corpus[i].energy \in 1 .. 3
  PROVE  /\ ByEnergy(g) \in Seq(Position(g)) /\ ToSet(ByEnergy(g)) = ToSet(g.queue)
         /\ IsInjective(g.queue) => IsInjective(ByEnergy(g))
<1> DEFINE Having(n) == {i \in Position(g) : g.corpus[i].energy = n}
<1> DEFINE Of(n) == OnlyIn(g.queue, Having(n))
<1> HIDE DEF Having, Of
<1>1. ByEnergy(g) = Of(3) \o Of(2) \o Of(1)
  BY DEF ByEnergy, Of, Having
<1>2. ASSUME NEW n \in 1 .. 3
      PROVE  /\ Of(n) \in Seq(Position(g)) /\ ToSet(Of(n)) = ToSet(g.queue) \cap Having(n)
             /\ IsInjective(g.queue) => IsInjective(Of(n))
  BY OnlyInKeeps DEF Of
<1>3. ToSet(g.queue) \subseteq Position(g)
  BY Members
<1>4. ToSet(g.queue) \subseteq Having(3) \cup Having(2) \cup Having(1)
  BY <1>3 DEF Having
<1>5. /\ Having(3) \cap Having(2) = {} /\ Having(3) \cap Having(1) = {}
      /\ Having(2) \cap Having(1) = {}
  BY DEF Having
<1>6. /\ Of(3) \o Of(2) \in Seq(Position(g))
      /\ ToSet(Of(3) \o Of(2)) = ToSet(Of(3)) \cup ToSet(Of(2))
      /\ IsInjective(g.queue) => IsInjective(Of(3) \o Of(2))
  <2>1. ToSet(Of(3)) \cap ToSet(Of(2)) = {}
    BY <1>2, <1>5
  <2>2. Of(3) \in Seq(Position(g)) /\ Of(2) \in Seq(Position(g))
    BY <1>2
  <2>3. IsInjective(g.queue) => IsInjective(Of(3)) /\ IsInjective(Of(2))
    BY <1>2
  <2> QED BY <2>1, <2>2, <2>3, JoinedMembers
<1>7. /\ ByEnergy(g) \in Seq(Position(g))
      /\ ToSet(ByEnergy(g)) = ToSet(Of(3) \o Of(2)) \cup ToSet(Of(1))
      /\ IsInjective(g.queue) => IsInjective(ByEnergy(g))
  <2>1. ToSet(Of(3) \o Of(2)) \cap ToSet(Of(1)) = {}
    BY <1>2, <1>5, <1>6
  <2>2. Of(1) \in Seq(Position(g))
    BY <1>2
  <2>3. IsInjective(g.queue) => IsInjective(Of(1))
    BY <1>2
  <2> DEFINE front == Of(3) \o Of(2)
  <2>4. front \in Seq(Position(g)) /\ ToSet(front) \cap ToSet(Of(1)) = {}
    BY <1>6, <2>1
  <2> HIDE DEF front
  <2>5. /\ front \o Of(1) \in Seq(Position(g))
        /\ ToSet(front \o Of(1)) = ToSet(front) \cup ToSet(Of(1))
        /\ IsInjective(front) /\ IsInjective(Of(1)) => IsInjective(front \o Of(1))
    BY <2>2, <2>4, JoinedMembers
  <2> QED BY <1>1, <1>6, <2>3, <2>5 DEF front
<1> QED BY <1>2, <1>4, <1>6, <1>7

\* A snapshot from which the next seed is chosen: queued is what has energy.
Waiting(r) ==
  /\ r \in Snapshot /\ r.queue \in Seq(Position(r)) /\ IsInjective(r.queue)
  /\ \A i \in Position(r) : /\ r.corpus[i].energy <= r.corpus[i].base
                            /\ r.corpus[i].energy > 0 <=> i \in ToSet(r.queue)

LEMMA SeedAt ==
  ASSUME NEW g \in Snapshot, NEW i \in Position(g)
  PROVE  /\ g.corpus[i] \in Seed /\ g.corpus[i].energy \in 0 .. 3
         /\ g.corpus[i].base \in 0 .. 3 /\ g.corpus[i].seq \in Runs
<1>1. g.corpus \in Seq(Seed)
  BY DEF Snapshot
<1>2. g.corpus[i] \in Seed
  BY <1>1 DEF Position
<1> QED BY <1>2 DEF Seed

\* A corpus of which the energies alone are new.
WithEnergies(g, e) == [i \in Position(g) |-> [g.corpus[i] EXCEPT !.energy = e[i]]]

LEMMA NewEnergies ==
  ASSUME NEW g \in Snapshot, NEW e \in [Position(g) -> 0 .. 3]
  PROVE  LET corpus == WithEnergies(g, e)
         IN  /\ corpus \in Seq(Seed) /\ Len(corpus) = Len(g.corpus)
             /\ \A i \in Position(g) : /\ corpus[i].energy = e[i]
                                       /\ corpus[i].base = g.corpus[i].base
                                       /\ corpus[i].seq = g.corpus[i].seq
<1> DEFINE corpus == WithEnergies(g, e)
<1>1. Len(g.corpus) \in Nat
  BY DEF Snapshot
<1>2. ASSUME NEW i \in Position(g)
      PROVE  /\ corpus[i] \in Seed /\ corpus[i].energy = e[i]
             /\ corpus[i].base = g.corpus[i].base /\ corpus[i].seq = g.corpus[i].seq
  <2>1. g.corpus[i] \in Seed /\ e[i] \in 0 .. 3
    BY SeedAt
  <2>2. corpus[i] = [g.corpus[i] EXCEPT !.energy = e[i]]
    BY DEF WithEnergies
  <2> HIDE DEF corpus
  <2> QED BY <2>1, <2>2 DEF Seed
<1>3. corpus \in [1 .. Len(g.corpus) -> Seed]
  <2>1. corpus = [i \in 1 .. Len(g.corpus) |-> corpus[i]]
    BY DEF WithEnergies, Position
  <2>2. \A i \in 1 .. Len(g.corpus) : corpus[i] \in Seed
    BY <1>2 DEF Position
  <2> HIDE DEF corpus
  <2> QED BY <2>1, <2>2
<1>4. corpus \in Seq(Seed) /\ Len(corpus) = Len(g.corpus)
  <2> HIDE DEF corpus
  <2>1. corpus \in Seq(Seed)
    BY <1>1, <1>3, SeqDef
  <2>2. DOMAIN corpus = 1 .. Len(g.corpus)
    BY <1>3
  <2> QED BY <1>1, <2>1, <2>2
<1> QED BY <1>2, <1>4

\* An empty queue is filled with all seeds that ever earned energy; another one stays.
LEMMA RecycledWaits ==
  ASSUME NEW g, SchedulerOK(g), ~Spending(g)
  PROVE  Waiting(Recycled(g)) /\ Alike(Recycled(g), g)
<1>1. g \in Snapshot
  BY DEF SchedulerOK
<1>2. CASE g.queue # <<>>
  <2>1. Recycled(g) = g
    BY <1>2 DEF Recycled
  <2>2. Alike(g, g)
    BY DEF Alike
  <2>3. ASSUME NEW i \in Position(g), g.corpus[i].energy > 0 PROVE i \in ToSet(g.queue)
    <3>1. i # g.pending
      BY <2>3, NoneAssumption DEF Spending, Position, SchedulerOK
    <3> QED BY <2>3, <3>1 DEF SchedulerOK
  <2>4. Waiting(g)
    BY <1>1, <2>3 DEF Waiting, SchedulerOK
  <2> QED BY <2>1, <2>2, <2>4
<1>3. CASE g.queue = <<>>
  <2> DEFINE e == [i \in Position(g) |-> g.corpus[i].base]
  <2> DEFINE corpus == WithEnergies(g, e)
  <2> DEFINE r == Recycled(g)
  <2>1. e \in [Position(g) -> 0 .. 3]
    BY <1>1, SeedAt
  <2>2. /\ corpus \in Seq(Seed) /\ Len(corpus) = Len(g.corpus)
        /\ \A i \in Position(g) : /\ corpus[i].energy = g.corpus[i].base
                                  /\ corpus[i].base = g.corpus[i].base
                                  /\ corpus[i].seq = g.corpus[i].seq
    <3>1. \A i \in Position(g) : e[i] = g.corpus[i].base
      OBVIOUS
    <3> HIDE DEF e
    <3>2. /\ corpus \in Seq(Seed) /\ Len(corpus) = Len(g.corpus)
          /\ \A i \in Position(g) : /\ corpus[i].energy = e[i]
                                    /\ corpus[i].base = g.corpus[i].base
                                    /\ corpus[i].seq = g.corpus[i].seq
      BY <1>1, <2>1, NewEnergies
    <3> QED BY <3>1, <3>2
  <2>3. r = [g EXCEPT !.corpus = corpus, !.queue = Earned(g)]
    <3>1. DOMAIN g.corpus = Position(g)
      BY <1>1 DEF Snapshot, Position
    <3>2. corpus = [i \in DOMAIN g.corpus |->
                      [g.corpus[i] EXCEPT !.energy = g.corpus[i].base]]
      BY <3>1 DEF WithEnergies
    <3> QED BY <1>3, <3>2, Zenon DEF Recycled, RecycledAlways
  <2> DEFINE all == [i \in Position(g) |-> i]
  <2>4. all \in Seq(Position(g)) /\ IsInjective(all) /\ ToSet(all) = Position(g)
    <3>1. Len(g.corpus) \in Nat
      BY <1>1 DEF Snapshot
    <3>2. all \in [1 .. Len(g.corpus) -> Position(g)]
      BY DEF Position
    <3>3. all \in Seq(Position(g))
      <4> HIDE DEF all
      <4> QED BY <3>1, <3>2, SeqDef, Zenon
    <3> QED BY <3>3 DEF ToSet, IsInjective
  <2>5. /\ Earned(g) \in Seq(Position(g)) /\ IsInjective(Earned(g))
        /\ ToSet(Earned(g)) = Earning(g)
    <3>1. Earning(g) \subseteq Position(g)
      BY DEF Earning
    <3>2. Earned(g) = OnlyIn(all, Earning(g))
      BY DEF Earned
    <3> HIDE DEF all
    <3>3. /\ OnlyIn(all, Earning(g)) \in Seq(Position(g)) /\ IsInjective(OnlyIn(all, Earning(g)))
          /\ ToSet(OnlyIn(all, Earning(g))) = ToSet(all) \cap Earning(g)
      BY <2>4, OnlyInKeeps, Zenon
    <3>4. ToSet(all) \cap Earning(g) = Earning(g)
      BY <2>4, <3>1
    <3> QED BY <3>2, <3>3, <3>4, Zenon
  <2> HIDE DEF corpus, e
  <2>6. /\ r.corpus = corpus /\ r.queue = Earned(g) /\ r \in Snapshot
        /\ r.tools = g.tools /\ r.trans = g.trans /\ r.seqs = g.seqs
    <3>1. Earned(g) \in Seq(Nat)
      BY <2>5 DEF Position
    <3> QED BY <1>1, <2>2, <2>3, <3>1 DEF Snapshot
  <2> HIDE DEF r
  <2>7. Position(r) = Position(g)
    BY <2>2, <2>6 DEF Position
  <2>8. Alike(r, g)
    BY <2>2, <2>6 DEF Alike
  <2>9. ASSUME NEW i \in Position(r)
        PROVE  /\ r.corpus[i].energy <= r.corpus[i].base
               /\ r.corpus[i].energy > 0 <=> i \in ToSet(r.queue)
    <3>1. g.corpus[i].base \in 0 .. 3
      BY <1>1, <2>7, SeedAt
    <3> QED BY <2>2, <2>5, <2>6, <2>7, <3>1 DEF Earning
  <2> QED BY <2>5, <2>6, <2>7, <2>8, <2>9 DEF Waiting, r
<1> QED BY <1>2, <1>3

\* After the bootstrap there is always a seed to choose, and it has energy to pay with.
LEMMA ChosenPays ==
  ASSUME NEW g, GeneratorOK(g), g.corpus # <<>>
  PROVE  /\ SchedulerOK(Chosen(g)) /\ Alike(Chosen(g), g)
         /\ Chosen(g).pending \in Position(g)
         /\ Chosen(g).corpus[Chosen(g).pending].energy > 0
<1>1. g \in Snapshot /\ SchedulerOK(g)
  BY DEF GeneratorOK, SchedulerOK
<1>2. CASE Spending(g)
  <2>1. Chosen(g) = g
    BY <1>2 DEF Chosen
  <2>2. Alike(g, g)
    BY DEF Alike
  <2> QED BY <1>1, <1>2, <2>1, <2>2 DEF Spending, SchedulerOK
<1>3. CASE ~Spending(g)
  <2> DEFINE r == Recycled(g)
  <2> DEFINE q == ByEnergy(r)
  <2>1. Waiting(r) /\ Alike(r, g) /\ r \in Snapshot
    BY <1>1, <1>3, RecycledWaits DEF Waiting
  <2>2. Position(r) = Position(g)
    BY <2>1 DEF Alike, Position
  <2> HIDE DEF r
  <2>3. \A i \in ToSet(r.queue) : r.corpus[i].energy \in 1 .. 3
    <3>1. ToSet(r.queue) \subseteq Position(r)
      BY <2>1, Members DEF Waiting
    <3>2. \A i \in Position(r) : r.corpus[i].energy \in 0 .. 3
      BY <2>1, SeedAt
    <3> QED BY <2>1, <3>1, <3>2 DEF Waiting
  <2>4. q \in Seq(Position(r)) /\ ToSet(q) = ToSet(r.queue) /\ IsInjective(q)
    BY <2>1, <2>3, SortedQueue DEF Waiting
  <2>5. q # <<>>
    <3>1. SUFFICES ASSUME q = <<>> PROVE FALSE
      OBVIOUS
    <3>2. ToSet(r.queue) = {}
      BY <2>4, <3>1, NoMembers
    <3>3. g.queue = <<>>
      <4>1. CASE g.queue # <<>>
        <5>1. r = g
          BY <4>1 DEF r, Recycled
        <5>2. g.queue \in Seq(Nat)
          BY <1>1 DEF Snapshot
        <5>3. 1 \in DOMAIN g.queue
          BY <4>1, <5>2
        <5> QED BY <3>2, <5>1, <5>3 DEF ToSet
      <4> QED BY <4>1
    <3>4. 1 \in Earning(g)
      BY DEF GeneratorOK, CoverageOK
    <3>5. r.corpus[1].energy = g.corpus[1].base
      <4>1. r.corpus = [i \in DOMAIN g.corpus |-> [g.corpus[i] EXCEPT !.energy = g.corpus[i].base]]
        BY <1>1, <3>3 DEF r, Recycled, RecycledAlways, Snapshot
      <4>2. 1 \in DOMAIN g.corpus /\ g.corpus[1] \in Seed
        BY <1>1, <3>4, SeedAt DEF Earning, Position, Snapshot
      <4> QED BY <4>1, <4>2 DEF Seed
    <3> QED BY <2>1, <2>2, <3>2, <3>4, <3>5 DEF Waiting, Earning
  <2>6. Chosen(g) = [r EXCEPT !.pending = Head(q), !.queue = Tail(q)]
    BY <1>3, <2>5 DEF Chosen, r
  <2>7. /\ Head(q) \in Position(r) /\ Tail(q) \in Seq(Position(r))
        /\ ToSet(q) = ToSet(Tail(q)) \cup {Head(q)} /\ IsInjective(Tail(q))
        /\ Head(q) \notin ToSet(Tail(q))
    BY <2>4, <2>5, HeadAndTail
  <2> DEFINE c == Chosen(g)
  <2> HIDE DEF q
  <2>8. /\ c \in Snapshot /\ c.corpus = r.corpus /\ c.pending = Head(q) /\ c.queue = Tail(q)
        /\ c.tools = r.tools /\ c.trans = r.trans /\ c.seqs = r.seqs
    <3>1. Head(q) \in Nat /\ Tail(q) \in Seq(Nat)
      BY <2>7 DEF Position
    <3> QED BY <2>1, <2>6, <3>1 DEF Snapshot
  <2> HIDE DEF c
  <2>9. Position(c) = Position(r)
    BY <2>8 DEF Position
  <2>10. SchedulerOK(c)
    <3>1. /\ c.queue \in Seq(Position(c)) /\ c.pending \in Position(c)
          /\ IsInjective(c.queue) /\ c.pending \notin ToSet(c.queue)
      BY <2>7, <2>8, <2>9
    <3>2. ToSet(c.queue) \cup {c.pending} = ToSet(r.queue)
      BY <2>4, <2>7, <2>8
    <3>3. \A i \in Position(c) : /\ c.corpus[i].energy <= c.corpus[i].base
                                 /\ c.corpus[i].energy > 0 <=> i \in ToSet(r.queue)
      BY <2>1, <2>8, <2>9 DEF Waiting
    <3>4. ToSet(c.queue) \subseteq Position(c)
      BY <3>1, Members
    <3> QED BY <2>8, <3>1, <3>2, <3>3, <3>4 DEF SchedulerOK
  <2>11. Alike(c, g)
    BY <2>1, <2>8 DEF Alike
  <2>12. c.pending \in Position(g) /\ c.corpus[c.pending].energy > 0
    <3>1. c.pending \in ToSet(r.queue)
      BY <2>4, <2>7, <2>8
    <3> QED BY <2>1, <2>2, <2>7, <2>8, <3>1 DEF Waiting
  <2> QED BY <2>10, <2>11, <2>12 DEF c
<1> QED BY <1>2, <1>3

\* A mutation takes one unit from one seed.
LEMMA SpentKeeps ==
  ASSUME NEW g, GeneratorOK(g), g.corpus # <<>>
  PROVE  /\ GeneratorOK(Spent(g)) /\ Len(Spent(g).corpus) = Len(g.corpus)
         /\ Spent(g).pending \in Position(g)
<1> DEFINE c == Chosen(g)
<1> DEFINE h == Spent(g)
<1> DEFINE e == [i \in Position(c) |-> IF i = c.pending THEN c.corpus[i].energy - 1
                                       ELSE c.corpus[i].energy]
<1>1. /\ SchedulerOK(c) /\ Alike(c, g) /\ c.pending \in Position(g)
      /\ c.corpus[c.pending].energy > 0
  BY ChosenPays
<1>2. g \in Snapshot /\ c \in Snapshot /\ CoverageOK(g)
  BY <1>1 DEF GeneratorOK, SchedulerOK
<1>3. Position(c) = Position(g) /\ DOMAIN c.corpus = Position(c)
  BY <1>1, <1>2 DEF Alike, Position, Snapshot
<1>4. c.pending # None
  BY <1>1, NoneAssumption DEF Position
<1>5. e \in [Position(c) -> 0 .. 3] /\ \A i \in Position(c) : e[i] <= c.corpus[i].energy
  <2>1. ASSUME NEW i \in Position(c) PROVE e[i] \in 0 .. 3 /\ e[i] <= c.corpus[i].energy
    <3>1. c.corpus[i].energy \in 0 .. 3
      BY <1>2, SeedAt
    <3> QED BY <3>1, <1>1
  <2>2. e = [i \in Position(c) |-> e[i]]
    OBVIOUS
  <2> HIDE DEF e
  <2> QED BY <2>1, <2>2
<1>6. h = [c EXCEPT !.corpus = WithEnergies(c, e)]
  <2>1. ASSUME NEW i \in Position(c)
        PROVE  (IF i = c.pending THEN [c.corpus[i] EXCEPT !.energy = @ - 1] ELSE c.corpus[i])
                  = [c.corpus[i] EXCEPT !.energy = e[i]]
    <3>1. c.corpus[i] \in Seed
      BY <1>2, SeedAt
    <3> QED BY <3>1 DEF Seed
  <2> DEFINE Paid(i) == IF i = c.pending THEN [c.corpus[i] EXCEPT !.energy = @ - 1]
                        ELSE c.corpus[i]
  <2> DEFINE New(i) == [c.corpus[i] EXCEPT !.energy = e[i]]
  <2>4. \A i \in Position(c) : Paid(i) = New(i)
    BY <2>1
  <2>5. WithEnergies(c, e) = [i \in Position(c) |-> New(i)]
    BY DEF WithEnergies
  <2>2. WithEnergies(c, e) = [i \in DOMAIN c.corpus |-> Paid(i)]
    <3> HIDE DEF Paid, New, c, e
    <3> QED BY <1>3, <2>4, <2>5
  <2> HIDE DEF c, e
  <2>3. h = [c EXCEPT !.corpus = [i \in DOMAIN c.corpus |->
          IF i = c.pending THEN [c.corpus[i] EXCEPT !.energy = @ - 1] ELSE c.corpus[i]]]
    BY <1>4, Zenon DEF Spent, c
  <2> QED BY <2>2, <2>3
<1> HIDE DEF e, c
<1>7. /\ WithEnergies(c, e) \in Seq(Seed) /\ Len(WithEnergies(c, e)) = Len(c.corpus)
      /\ \A i \in Position(c) : /\ WithEnergies(c, e)[i].energy = e[i]
                                /\ WithEnergies(c, e)[i].base = c.corpus[i].base
                                /\ WithEnergies(c, e)[i].seq = c.corpus[i].seq
  BY <1>2, <1>5, NewEnergies
<1>8. /\ h \in Snapshot /\ h.corpus = WithEnergies(c, e) /\ h.pending = c.pending
      /\ h.queue = c.queue /\ h.tools = c.tools /\ h.trans = c.trans /\ h.seqs = c.seqs
  BY <1>2, <1>6, <1>7 DEF Snapshot
<1> HIDE DEF h
<1>9. Position(h) = Position(c)
  BY <1>7, <1>8 DEF Position
<1>10. Alike(h, g)
  BY <1>1, <1>3, <1>7, <1>8 DEF Alike
<1>11. CoverageOK(h)
  BY <1>2, <1>8, <1>10, AlikeCovers
<1>12. SchedulerOK(h)
  <2>1. /\ h.queue \in Seq(Position(h)) /\ h.pending \in Position(h)
        /\ IsInjective(h.queue) /\ h.pending \notin ToSet(h.queue)
    BY <1>1, <1>3, <1>8, <1>9 DEF SchedulerOK
  <2>2. ASSUME NEW i \in Position(h)
        PROVE  /\ h.corpus[i].energy <= h.corpus[i].base
               /\ h.corpus[i].energy > 0 => i \in ToSet(h.queue) \cup {h.pending}
    <3>1. /\ c.corpus[i].energy \in 0 .. 3 /\ c.corpus[i].base \in 0 .. 3
          /\ e[i] \in 0 .. 3 /\ e[i] <= c.corpus[i].energy
      BY <1>2, <1>5, <1>9, SeedAt
    <3> QED BY <1>1, <1>7, <1>8, <1>9, <3>1 DEF SchedulerOK
  <2>3. ASSUME NEW i \in ToSet(h.queue) PROVE h.corpus[i].energy > 0
    <3>1. i \in Position(c) /\ i # c.pending
      BY <1>8, <1>9, <2>1, Members
    <3>2. e[i] = c.corpus[i].energy
      BY <3>1 DEF e
    <3> QED BY <1>1, <1>7, <1>8, <3>1, <3>2 DEF SchedulerOK
  <2> QED BY <1>8, <2>1, <2>2, <2>3 DEF SchedulerOK
<1> QED BY <1>1, <1>7, <1>8, <1>10, <1>11, <1>12 DEF GeneratorOK, Alike, h

\* However many mutations a batch makes, each has a seed and leaves the generator in order.
LEMMA SpendingsKeep ==
  ASSUME NEW g, GeneratorOK(g), g.corpus # <<>>, NEW n \in Nat
  PROVE  \A k \in 0 .. n :
           /\ GeneratorOK(Spendings(g, n)[k]) /\ Len(Spendings(g, n)[k].corpus) = Len(g.corpus)
           /\ k # 0 => Spendings(g, n)[k].pending \in Position(g)
<1> DEFINE f == CHOOSE e : Spends(e, g, n)
<1> DEFINE Good(k) == /\ GeneratorOK(f[k]) /\ Len(f[k].corpus) = Len(g.corpus)
                      /\ k # 0 => f[k].pending \in Position(g)
<1> DEFINE Bad == {k \in 0 .. n : ~ Good(k)}
<1>1. Spendings(g, n) = f
  BY DEF Spendings, Spends
<1>2. Spends(f, g, n)
  BY SpendsExist
<1> HIDE DEF f
<1>3. f[0] = g
  BY <1>2 DEF Spends
<1>4. \A k \in 1 .. n : f[k] = Spent(f[k - 1])
  <2>1. \A k \in 1 .. n : k \in 0 .. n /\ k # 0
    OBVIOUS
  <2> QED BY <2>1, <1>2 DEF Spends
<1>5. ASSUME Bad # {} PROVE FALSE
  <2>1. PICK k \in Bad : \A r \in Bad : k <= r
    <3>1. Bad \in SUBSET Nat
      OBVIOUS
    <3> HIDE DEF Bad
    <3> QED BY <1>5, <3>1, LeastNatural
  <2>2. CASE k = 0
    <3>1. Good(0)
      BY <1>3
    <3> QED BY <3>1, <2>2
  <2>3. CASE k # 0
    <3>1. k \in 1 .. n /\ k - 1 \in 0 .. n /\ k - 1 \notin Bad
      <4>1. k \in 1 .. n /\ k - 1 \in 0 .. n /\ ~ (k <= k - 1)
        BY <2>3
      <4> HIDE DEF Bad
      <4> QED BY <4>1, <2>1
    <3> DEFINE p == f[k - 1]
    <3>2. GeneratorOK(p) /\ Len(p.corpus) = Len(g.corpus)
      BY <3>1
    <3>3. f[k] = Spent(p)
      BY <3>1, <1>4
    <3> HIDE DEF p
    <3>4. p.corpus # <<>> /\ Position(p) = Position(g)
      <4>1. g.corpus \in Seq(Seed)
        BY DEF GeneratorOK, SchedulerOK, Snapshot
      <4>2. Len(g.corpus) # 0
        BY <4>1
      <4> QED BY <3>2, <4>2 DEF Position
    <3>5. /\ GeneratorOK(Spent(p)) /\ Len(Spent(p).corpus) = Len(p.corpus)
          /\ Spent(p).pending \in Position(p)
      BY <3>2, <3>4, SpentKeeps
    <3>6. Good(k)
      BY <3>2, <3>3, <3>4, <3>5
    <3> QED BY <3>6
  <2> QED BY <2>2, <2>3
<1> QED BY <1>1, <1>5

-----------------------------------------------------------------------------
(* Folds. *)

\* A set to which another brings something new has grown.
LEMMA Grows ==
  ASSUME NEW A, IsFiniteSet(A), NEW B, IsFiniteSet(B), NEW C, C = A \cup B
  PROVE  /\ IsFiniteSet(C) /\ Cardinality(A) \in Nat /\ Cardinality(C) \in Nat
         /\ Cardinality(A) + (IF B \subseteq A THEN 0 ELSE 1) <= Cardinality(C)
<1>1. IsFiniteSet(C)
  BY FS_Union
<1>2. Cardinality(A) \in Nat /\ Cardinality(C) \in Nat
  BY <1>1, FS_CardinalityType
<1>3. CASE B \subseteq A
  <2>1. C = A
    BY <1>3
  <2> QED BY <1>1, <1>2, <1>3, <2>1
<1>4. CASE ~ B \subseteq A
  <2>1. PICK x \in B : x \notin A
    BY <1>4
  <2>2. IsFiniteSet(A \cup {x}) /\ Cardinality(A \cup {x}) = Cardinality(A) + 1
    BY <2>1, FS_AddElement
  <2>3. Cardinality(A \cup {x}) <= Cardinality(C)
    BY <1>1, <2>1, FS_Subset
  <2> QED BY <1>1, <1>2, <1>4, <2>2, <2>3
<1> QED BY <1>3, <1>4

LEMMA FiniteRange ==
  ASSUME NEW n \in Int, NEW X, NEW f \in [1 .. n -> X]
  PROVE  IsFiniteSet({f[i] : i \in 1 .. n})
<1> DEFINE T == {f[i] : i \in 1 .. n}
<1>1. f \in Surjection(1 .. n, T)
  BY DEF Surjection
<1>2. IsFiniteSet(1 .. n)
  BY FS_Interval
<1> QED BY <1>1, <1>2, FS_Surjection

\* What an execution shows is finite and of the types of the snapshot.
LEMMA RunShows ==
  ASSUME NEW run \in Runs
  PROVE  /\ ToSet(run) \in SUBSET Tools /\ Transitions(run) \in SUBSET (Tools \X Tools)
         /\ IsFiniteSet(ToSet(run)) /\ IsFiniteSet(Transitions(run))
<1>1. run \in Seq(Tools)
  BY RunsAssumption
<1>2. Len(run) \in Nat
  BY <1>1
<1>3. ToSet(run) = {run[i] : i \in 1 .. Len(run)} /\ ToSet(run) \in SUBSET Tools
  BY <1>1, Members
<1>4. run \in [1 .. Len(run) -> Tools] /\ Len(run) \in Int
  BY <1>1
<1>5. IsFiniteSet(ToSet(run))
  BY <1>3, <1>4, FiniteRange
<1> DEFINE steps == [i \in 1 .. Len(run) - 1 |-> <<run[i], run[i + 1]>>]
<1>6. steps \in [1 .. Len(run) - 1 -> Tools \X Tools]
  <2>1. \A i \in 1 .. Len(run) - 1 : run[i] \in Tools /\ run[i + 1] \in Tools
    BY <1>1, <1>2
  <2> QED BY <2>1
<1>7. Transitions(run) = {steps[i] : i \in 1 .. Len(run) - 1}
  BY DEF Transitions
<1> HIDE DEF steps
<1>8. Len(run) - 1 \in Int
  BY <1>2
<1>9. IsFiniteSet(Transitions(run))
  BY <1>6, <1>7, <1>8, FiniteRange
<1>10. Transitions(run) \in SUBSET (Tools \X Tools)
  BY <1>6, <1>7
<1> QED BY <1>3, <1>5, <1>9, <1>10

LEMMA EnergyCounts ==
  ASSUME NEW g, NEW run
  PROVE  /\ Energy(g, run) \in 0 .. 3
         /\ Energy(g, run) = 0 <=> /\ ToSet(run) \subseteq g.tools
                                   /\ Transitions(run) \subseteq g.trans /\ run \in g.seqs
<1> DEFINE a == ToSet(run) \subseteq g.tools
<1> DEFINE b == Transitions(run) \subseteq g.trans
<1> DEFINE c == run \in g.seqs
<1>1. Energy(g, run) = Unit(~a) + Unit(~b) + Unit(~c)
  BY DEF Energy
<1> HIDE DEF a, b, c
<1>2. /\ Unit(~a) \in 0 .. 1 /\ (Unit(~a) = 0 <=> a)
      /\ Unit(~b) \in 0 .. 1 /\ (Unit(~b) = 0 <=> b)
      /\ Unit(~c) \in 0 .. 1 /\ (Unit(~c) = 0 <=> c)
  BY DEF Unit
<1> DEFINE x == Unit(~a)
<1> DEFINE y == Unit(~b)
<1> DEFINE z == Unit(~c)
<1> HIDE DEF x, y, z
<1>3. /\ x \in 0 .. 1 /\ y \in 0 .. 1 /\ z \in 0 .. 1 /\ Energy(g, run) = x + y + z
      /\ (x = 0 <=> a) /\ (y = 0 <=> b) /\ (z = 0 <=> c)
  BY <1>1, <1>2 DEF x, y, z
<1>4. Energy(g, run) \in 0 .. 3 /\ (Energy(g, run) = 0 <=> x = 0 /\ y = 0 /\ z = 0)
  BY <1>3
<1> QED BY <1>3, <1>4, Zenon DEF a, b, c

\* An execution that repeats a known sequence shows nothing new at all.
LEMMA KnownSequence ==
  ASSUME NEW g, GeneratorOK(g), NEW run \in g.seqs
  PROVE  ToSet(run) \subseteq g.tools /\ Transitions(run) \subseteq g.trans
<1>1. PICK i \in Earning(g) : run = Shown(g, i)
  BY DEF GeneratorOK, CoverageOK
<1>2. /\ ToSet(Shown(g, i)) \in {ToSet(Shown(g, j)) : j \in Earning(g)}
      /\ Transitions(Shown(g, i)) \in {Transitions(Shown(g, j)) : j \in Earning(g)}
  OBVIOUS
<1>3. /\ g.tools = UNION {ToSet(Shown(g, j)) : j \in Earning(g)}
      /\ g.trans = UNION {Transitions(Shown(g, j)) : j \in Earning(g)}
  BY DEF GeneratorOK, CoverageOK
<1> DEFINE ts == {ToSet(Shown(g, j)) : j \in Earning(g)}
<1> DEFINE es == {Transitions(Shown(g, j)) : j \in Earning(g)}
<1>4. ToSet(run) \in ts /\ Transitions(run) \in es /\ g.tools = UNION ts /\ g.trans = UNION es
  BY <1>1, <1>2, <1>3, Zenon
<1> HIDE DEF ts, es
<1> QED BY <1>4

\* The execution is one more seed, behind those there were.
Longer(h, g, run) ==
  LET n == Len(g.corpus)
      e == Energy(g, run)
  IN  /\ h.tools = g.tools \cup ToSet(run) /\ h.trans = g.trans \cup Transitions(run)
      /\ h.seqs = g.seqs \cup {run} /\ h.pending = g.pending
      /\ h.queue = IF e > 0 THEN Append(g.queue, n + 1) ELSE g.queue
      /\ h \in Snapshot /\ Len(h.corpus) = n + 1 /\ n \in Nat
      /\ \A i \in Position(g) : h.corpus[i] = g.corpus[i]
      /\ h.corpus[n + 1].seq = run /\ h.corpus[n + 1].energy = e /\ h.corpus[n + 1].base = e

LEMMA FoldInitialLengthens ==
  ASSUME NEW g \in Snapshot, NEW run \in Runs
  PROVE  Longer(FoldInitial(g, run), g, run)
<1> DEFINE n == Len(g.corpus)
<1> DEFINE e == Energy(g, run)
<1> DEFINE s == [seq |-> run, energy |-> e, base |-> e]
<1> DEFINE h == FoldInitial(g, run)
<1> DEFINE o == Observed(g, run)
<1>1. e \in 0 .. 3 /\ ToSet(run) \in SUBSET Tools /\ Transitions(run) \in SUBSET (Tools \X Tools)
  BY EnergyCounts, RunShows
<1>2. /\ o \in Snapshot /\ o.corpus = g.corpus /\ o.queue = g.queue /\ o.pending = g.pending
      /\ o.tools = g.tools \cup ToSet(run) /\ o.trans = g.trans \cup Transitions(run)
      /\ o.seqs = g.seqs \cup {run}
  <2> DEFINE ts == ToSet(run)
  <2> DEFINE es == Transitions(run)
  <2>1. o = [g EXCEPT !.tools = @ \cup ts, !.trans = @ \cup es, !.seqs = @ \cup {run}]
    BY DEF Observed
  <2>2. ts \in SUBSET Tools /\ es \in SUBSET (Tools \X Tools)
    BY <1>1
  <2> HIDE DEF ts, es, o
  <2>3. /\ o \in Snapshot /\ o.corpus = g.corpus /\ o.queue = g.queue /\ o.pending = g.pending
        /\ o.tools = g.tools \cup ts /\ o.trans = g.trans \cup es /\ o.seqs = g.seqs \cup {run}
    BY <2>1, <2>2 DEF Snapshot
  <2> QED BY <2>3 DEF ts, es
<1>3. n \in Nat /\ g.corpus \in Seq(Seed) /\ g.queue \in Seq(Nat)
  BY DEF Snapshot
<1> HIDE DEF e, o
<1>4. s \in Seed /\ s.seq = run /\ s.energy = e /\ s.base = e
  BY <1>1 DEF Seed
<1> DEFINE q == IF e > 0 THEN Append(g.queue, n + 1) ELSE g.queue
<1>5. h = [o EXCEPT !.corpus = Append(g.corpus, s), !.queue = q]
  <2>1. h = Retained(o, run, e)
    BY DEF FoldInitial, o, e
  <2>2. h = [o EXCEPT !.corpus = Append(@, [seq |-> run, energy |-> e, base |-> e]),
                      !.queue = IF e > 0 THEN Append(@, Len(o.corpus) + 1) ELSE @]
    BY <2>1, Zenon DEF Retained
  <2> HIDE DEF h
  <2> QED BY <1>2, <2>2 DEF Snapshot
<1> HIDE DEF s, h
<1>6. /\ Append(g.corpus, s) \in Seq(Seed) /\ Len(Append(g.corpus, s)) = n + 1
      /\ Append(g.corpus, s)[n + 1] = s
      /\ \A i \in 1 .. n : Append(g.corpus, s)[i] = g.corpus[i]
  BY <1>3, <1>4
<1>7. q \in Seq(Nat)
  BY <1>3
<1> HIDE DEF n, q
<1>8. /\ h \in Snapshot /\ h.corpus = Append(g.corpus, s) /\ h.queue = q
      /\ h.pending = o.pending /\ h.tools = o.tools /\ h.trans = o.trans /\ h.seqs = o.seqs
  BY <1>2, <1>5, <1>6, <1>7 DEF Snapshot
<1>9. /\ Len(h.corpus) = n + 1 /\ h.corpus[n + 1] = s
      /\ \A i \in Position(g) : h.corpus[i] = g.corpus[i]
  BY <1>6, <1>8 DEF Position, n
<1> QED BY <1>2, <1>3, <1>4, <1>8, <1>9, Zenon DEF Longer, n, q, h, e

LEMMA LongerEarns ==
  ASSUME NEW g \in Snapshot, NEW run \in Runs, NEW h, Longer(h, g, run)
  PROVE  LET n == Len(g.corpus)
             e == Energy(g, run)
         IN  /\ Position(h) = Position(g) \cup {n + 1} /\ n + 1 \notin Position(g)
             /\ Earning(h) = Earning(g) \cup (IF e > 0 THEN {n + 1} ELSE {})
             /\ \A i \in Earning(g) : i \in Position(g) /\ Shown(h, i) = Shown(g, i)
             /\ Shown(h, n + 1) = run
             /\ Rewards(h) = Rewards(g) \cup ({n + 1} \X (1 .. e))
<1> DEFINE n == Len(g.corpus)
<1> DEFINE e == Energy(g, run)
<1>1. /\ n \in Nat /\ Len(h.corpus) = n + 1 /\ h.corpus[n + 1].base = e
      /\ h.corpus[n + 1].seq = run /\ \A i \in Position(g) : h.corpus[i] = g.corpus[i]
  BY DEF Longer
<1>2. Position(h) = Position(g) \cup {n + 1} /\ n + 1 \notin Position(g)
  BY <1>1 DEF Position
<1>3. e \in 0 .. 3
  BY EnergyCounts
<1> HIDE DEF e
<1>4. Earning(h) = Earning(g) \cup (IF e > 0 THEN {n + 1} ELSE {})
  BY <1>1, <1>2 DEF Earning
<1>5. \A i \in Earning(g) : i \in Position(g) /\ Shown(h, i) = Shown(g, i)
  BY <1>1 DEF Earning, Shown
<1>6. Shown(h, n + 1) = run
  BY <1>1 DEF Shown
<1>7. Rewards(h) = Rewards(g) \cup ({n + 1} \X (1 .. e))
  <2> HIDE DEF n
  <2> DEFINE P == Position(g)
  <2> DEFINE fits(u) == u[2] <= h.corpus[u[1]].base
  <2>1. Rewards(h) = {u \in (P \cup {n + 1}) \X (1 .. 3) : fits(u)}
    BY <1>2 DEF Rewards
  <2>2. (P \cup {n + 1}) \X (1 .. 3) = (P \X (1 .. 3)) \cup ({n + 1} \X (1 .. 3))
    OBVIOUS
  <2>3. Rewards(g) = {u \in P \X (1 .. 3) : fits(u)}
    BY <1>1 DEF Rewards
  <2>4. {n + 1} \X (1 .. e) = {u \in {n + 1} \X (1 .. 3) : fits(u)}
    <3>1. \A u \in {n + 1} \X (1 .. 3) : fits(u) <=> u[2] <= e
      BY <1>1
    <3>2. {n + 1} \X (1 .. e) = {u \in {n + 1} \X (1 .. 3) : u[2] <= e}
      <4>1. \A u \in {n + 1} \X (1 .. e) : u \in {n + 1} \X (1 .. 3) /\ u[2] <= e
        BY <1>3
      <4>2. \A u \in {n + 1} \X (1 .. 3) : u[2] <= e => u \in {n + 1} \X (1 .. e)
        BY <1>3
      <4> QED BY <4>1, <4>2
    <3> HIDE DEF fits
    <3> QED BY <3>1, <3>2
  <2> HIDE DEF fits, P
  <2> QED BY <2>1, <2>2, <2>3, <2>4
<1> QED BY <1>2, <1>4, <1>5, <1>6, <1>7 DEF e

LEMMA LongerSchedules ==
  ASSUME NEW g, GeneratorOK(g), NEW run \in Runs, NEW h, Longer(h, g, run)
  PROVE  SchedulerOK(h)
<1> DEFINE n == Len(g.corpus)
<1> DEFINE e == Energy(g, run)
<1>1. SchedulerOK(g) /\ g \in Snapshot
  BY DEF GeneratorOK, SchedulerOK
<1>2. Position(h) = Position(g) \cup {n + 1} /\ n + 1 \notin Position(g)
  BY <1>1, LongerEarns
<1>3. /\ h \in Snapshot /\ h.pending = g.pending /\ n \in Nat
      /\ h.queue = IF e > 0 THEN Append(g.queue, n + 1) ELSE g.queue
      /\ \A i \in Position(g) : h.corpus[i] = g.corpus[i]
      /\ h.corpus[n + 1].energy = e /\ h.corpus[n + 1].base = e
  BY DEF Longer
<1>4. e \in 0 .. 3
  BY EnergyCounts
<1>5. /\ g.queue \in Seq(Position(h)) /\ ToSet(g.queue) \subseteq Position(g)
      /\ n + 1 \notin ToSet(g.queue) /\ n + 1 \in Position(h)
  <2>1. g.queue \in Seq(Position(g))
    BY <1>1 DEF SchedulerOK
  <2>2. g.queue \in Seq(Position(h))
    <3>1. Position(g) \subseteq Position(h)
      BY <1>2
    <3> HIDE DEF n
    <3> QED BY <2>1, <3>1
  <2>3. ToSet(g.queue) \subseteq Position(g)
    BY <2>1, Members
  <2> QED BY <1>2, <2>2, <2>3
<1> HIDE DEF n, e
<1>6. /\ h.queue \in Seq(Position(h)) /\ IsInjective(h.queue)
      /\ ToSet(h.queue) = ToSet(g.queue) \cup (IF e > 0 THEN {n + 1} ELSE {})
  <2>1. IsInjective(g.queue)
    BY <1>1 DEF SchedulerOK
  <2>2. CASE e > 0
    <3>1. /\ Append(g.queue, n + 1) \in Seq(Position(h)) /\ IsInjective(Append(g.queue, n + 1))
          /\ ToSet(Append(g.queue, n + 1)) = ToSet(g.queue) \cup {n + 1}
      BY <1>5, <2>1, AppendedMembers
    <3> QED BY <1>3, <2>2, <3>1
  <2>3. CASE ~(e > 0)
    BY <1>3, <1>5, <2>1, <2>3
  <2> QED BY <2>2, <2>3
<1>7. h.pending \in Position(h) \cup {None} /\ h.pending \notin ToSet(h.queue)
  <2>1. /\ g.pending \in Position(g) \cup {None} /\ g.pending \notin ToSet(g.queue)
        /\ n + 1 # None
    BY <1>1, <1>3, NoneAssumption DEF SchedulerOK
  <2> QED BY <1>2, <1>3, <1>6, <2>1
<1>8. ASSUME NEW i \in Position(h)
      PROVE  /\ h.corpus[i].energy <= h.corpus[i].base
             /\ h.corpus[i].energy > 0 => i \in ToSet(h.queue) \cup {h.pending}
  <2>1. CASE i = n + 1
    BY <1>3, <1>4, <1>6, <2>1
  <2>2. CASE i # n + 1
    BY <1>1, <1>2, <1>3, <1>6, <2>2 DEF SchedulerOK
  <2> QED BY <2>1, <2>2
<1>9. ASSUME NEW i \in ToSet(h.queue) PROVE h.corpus[i].energy > 0
  <2>1. CASE i \in ToSet(g.queue)
    BY <1>1, <1>3, <1>5, <2>1 DEF SchedulerOK
  <2>2. CASE i \notin ToSet(g.queue)
    BY <1>3, <1>6, <2>2
  <2> QED BY <2>1, <2>2
<1> QED BY <1>3, <1>6, <1>7, <1>8, <1>9 DEF SchedulerOK

\* The energy of the new seed is paid for by what the execution added to the observed sets.
LEMMA LongerCovers ==
  ASSUME NEW g, GeneratorOK(g), NEW run \in Runs, NEW h, Longer(h, g, run)
  PROVE  CoverageOK(h)
<1> DEFINE n == Len(g.corpus)
<1> DEFINE e == Energy(g, run)
<1> DEFINE E == Earning(g)
<1>1. CoverageOK(g) /\ g \in Snapshot
  BY DEF GeneratorOK, SchedulerOK
<1>2. /\ Position(h) = Position(g) \cup {n + 1} /\ n + 1 \notin Position(g)
      /\ Earning(h) = E \cup (IF e > 0 THEN {n + 1} ELSE {})
      /\ \A i \in E : i \in Position(g) /\ Shown(h, i) = Shown(g, i)
      /\ Shown(h, n + 1) = run
      /\ Rewards(h) = Rewards(g) \cup ({n + 1} \X (1 .. e))
  BY <1>1, LongerEarns
<1>3. /\ h.tools = g.tools \cup ToSet(run) /\ h.trans = g.trans \cup Transitions(run)
      /\ h.seqs = g.seqs \cup {run} /\ n \in Nat
  BY DEF Longer
<1>4. /\ e \in 0 .. 3
      /\ e = 0 <=> /\ ToSet(run) \subseteq g.tools
                   /\ Transitions(run) \subseteq g.trans /\ run \in g.seqs
  BY EnergyCounts
<1>5. e > 0 => run \notin g.seqs
  BY <1>4, KnownSequence
<1>6. /\ {Shown(h, i) : i \in E} = {Shown(g, i) : i \in E}
      /\ {ToSet(Shown(h, i)) : i \in E} = {ToSet(Shown(g, i)) : i \in E}
      /\ {Transitions(Shown(h, i)) : i \in E} = {Transitions(Shown(g, i)) : i \in E}
  BY <1>2
<1>7. {Shown(g, i) : i \in E} = g.seqs /\ (g.corpus # <<>> => 1 \in E)
  BY <1>1 DEF CoverageOK
<1>8. /\ g.tools = UNION {ToSet(Shown(h, i)) : i \in E}
      /\ g.trans = UNION {Transitions(Shown(h, i)) : i \in E}
  <2>1. /\ g.tools = UNION {ToSet(Shown(g, i)) : i \in E}
        /\ g.trans = UNION {Transitions(Shown(g, i)) : i \in E}
    BY <1>1 DEF CoverageOK
  <2> HIDE DEF E
  <2> QED BY <2>1, <1>6
<1> HIDE DEF e, E
<1> DEFINE Observes == /\ {Shown(h, i) : i \in Earning(h)} = h.seqs
                       /\ \A i, j \in Earning(h) : Shown(h, i) = Shown(h, j) => i = j
                       /\ h.tools = UNION {ToSet(Shown(h, i)) : i \in Earning(h)}
                       /\ h.trans = UNION {Transitions(Shown(h, i)) : i \in Earning(h)}
                       /\ 1 \in Earning(h)
<1>9. ASSUME e > 0 PROVE Observes
  <2> DEFINE F == E \cup {n + 1}
  <2>1. Earning(h) = F
    BY <1>2, <1>9
  <2>2. /\ {Shown(h, i) : i \in F} = {Shown(h, i) : i \in E} \cup {run}
        /\ {ToSet(Shown(h, i)) : i \in F} = {ToSet(Shown(h, i)) : i \in E} \cup {ToSet(run)}
        /\ {Transitions(Shown(h, i)) : i \in F}
             = {Transitions(Shown(h, i)) : i \in E} \cup {Transitions(run)}
    <3>1. Shown(h, n + 1) = run
      BY <1>2
    <3> HIDE DEF n
    <3> QED BY <3>1
  <2>3. \A i, j \in F : Shown(h, i) = Shown(h, j) => i = j
    <3>1. \A i \in E : Shown(h, i) # run
      BY <1>2, <1>5, <1>7, <1>9
    <3>2. \A i, j \in E : Shown(h, i) = Shown(h, j) => i = j
      BY <1>1, <1>2 DEF CoverageOK, E
    <3> QED BY <1>2, <3>1, <3>2
  <2>4. 1 \in F
    <3>1. CASE g.corpus = <<>>
      <4>1. n = 0
        BY <3>1
      <4> QED BY <4>1
    <3>2. CASE g.corpus # <<>>
      BY <1>7, <3>2
    <3> QED BY <3>1, <3>2
  <2>5. /\ UNION ({ToSet(Shown(h, i)) : i \in E} \cup {ToSet(run)}) = h.tools
        /\ UNION ({Transitions(Shown(h, i)) : i \in E} \cup {Transitions(run)}) = h.trans
    <3> DEFINE ts == {ToSet(Shown(h, i)) : i \in E}
    <3> DEFINE es == {Transitions(Shown(h, i)) : i \in E}
    <3>1. g.tools = UNION ts /\ g.trans = UNION es
      BY <1>8
    <3> HIDE DEF ts, es
    <3>2. /\ UNION (ts \cup {ToSet(run)}) = h.tools
          /\ UNION (es \cup {Transitions(run)}) = h.trans
      BY <1>3, <3>1
    <3> QED BY <3>2 DEF ts, es
  <2> HIDE DEF F
  <2> QED BY <1>3, <1>6, <1>7, <2>1, <2>2, <2>3, <2>4, <2>5
<1>10. ASSUME ~(e > 0) PROVE Observes
  <2>1. Earning(h) = E /\ h.tools = g.tools /\ h.trans = g.trans /\ h.seqs = g.seqs
    BY <1>2, <1>3, <1>4, <1>10
  <2>2. 1 \in E
    <3>1. g.seqs # {}
      BY <1>4, <1>10
    <3>2. PICK i \in E : TRUE
      BY <1>7, <3>1
    <3>3. i \in Position(g)
      BY <1>2
    <3>4. g.corpus # <<>>
      BY <3>3, <1>3 DEF Position
    <3> QED BY <1>7, <3>4
  <2>3. \A i, j \in E : Shown(h, i) = Shown(h, j) => i = j
    BY <1>1, <1>2 DEF CoverageOK, E
  <2> QED BY <1>6, <1>7, <1>8, <2>1, <2>2, <2>3
<1>11. /\ IsFiniteSet(h.tools) /\ IsFiniteSet(h.trans) /\ IsFiniteSet(h.seqs)
       /\ IsFiniteSet(Rewards(h))
       /\ Cardinality(Rewards(h))
            <= Cardinality(h.tools) + Cardinality(h.trans) + Cardinality(h.seqs)
  <2>1. /\ IsFiniteSet(g.tools) /\ IsFiniteSet(g.trans) /\ IsFiniteSet(g.seqs)
        /\ IsFiniteSet(Rewards(g))
        /\ Cardinality(Rewards(g))
             <= Cardinality(g.tools) + Cardinality(g.trans) + Cardinality(g.seqs)
    BY <1>1 DEF CoverageOK
  <2>2. /\ IsFiniteSet(ToSet(run)) /\ IsFiniteSet(Transitions(run)) /\ IsFiniteSet({run})
    BY RunShows, FS_Singleton
  <2>3. /\ IsFiniteSet(h.tools) /\ Cardinality(g.tools) \in Nat /\ Cardinality(h.tools) \in Nat
        /\ Cardinality(g.tools) + (IF ToSet(run) \subseteq g.tools THEN 0 ELSE 1)
             <= Cardinality(h.tools)
    <3> DEFINE A == g.tools
    <3> DEFINE X == ToSet(run)
    <3> DEFINE C == h.tools
    <3>1. IsFiniteSet(A) /\ IsFiniteSet(X) /\ C = A \cup X
      BY <1>3, <2>1, <2>2
    <3> HIDE DEF A, X, C
    <3>2. /\ IsFiniteSet(C) /\ Cardinality(A) \in Nat /\ Cardinality(C) \in Nat
          /\ Cardinality(A) + (IF X \subseteq A THEN 0 ELSE 1) <= Cardinality(C)
      BY <3>1, Grows
    <3> QED BY <3>2, Zenon DEF A, X, C
  <2>4. /\ IsFiniteSet(h.trans) /\ Cardinality(g.trans) \in Nat /\ Cardinality(h.trans) \in Nat
        /\ Cardinality(g.trans) + (IF Transitions(run) \subseteq g.trans THEN 0 ELSE 1)
             <= Cardinality(h.trans)
    <3> DEFINE A == g.trans
    <3> DEFINE X == Transitions(run)
    <3> DEFINE C == h.trans
    <3>1. IsFiniteSet(A) /\ IsFiniteSet(X) /\ C = A \cup X
      BY <1>3, <2>1, <2>2
    <3> HIDE DEF A, X, C
    <3>2. /\ IsFiniteSet(C) /\ Cardinality(A) \in Nat /\ Cardinality(C) \in Nat
          /\ Cardinality(A) + (IF X \subseteq A THEN 0 ELSE 1) <= Cardinality(C)
      BY <3>1, Grows
    <3> QED BY <3>2, Zenon DEF A, X, C
  <2>5. /\ IsFiniteSet(h.seqs) /\ Cardinality(g.seqs) \in Nat /\ Cardinality(h.seqs) \in Nat
        /\ Cardinality(g.seqs) + (IF {run} \subseteq g.seqs THEN 0 ELSE 1)
             <= Cardinality(h.seqs)
    <3> DEFINE A == g.seqs
    <3> DEFINE X == {run}
    <3> DEFINE C == h.seqs
    <3>1. IsFiniteSet(A) /\ IsFiniteSet(X) /\ C = A \cup X
      BY <1>3, <2>1, <2>2
    <3> HIDE DEF A, X, C
    <3>2. /\ IsFiniteSet(C) /\ Cardinality(A) \in Nat /\ Cardinality(C) \in Nat
          /\ Cardinality(A) + (IF X \subseteq A THEN 0 ELSE 1) <= Cardinality(C)
      BY <3>1, Grows
    <3> QED BY <3>2, Zenon DEF A, X, C
  <2> DEFINE B == {n + 1} \X (1 .. e)
  <2>6. IsFiniteSet(B) /\ Cardinality(B) = e
    <3>1. IsFiniteSet({n + 1}) /\ Cardinality({n + 1}) = 1
      BY FS_Singleton
    <3>2. IsFiniteSet(1 .. e) /\ Cardinality(1 .. e) = e
      <4>1. 1 \in Int /\ e \in Int /\ (IF 1 > e THEN 0 ELSE e - 1 + 1) = e
        BY <1>4
      <4> QED BY <4>1, FS_Interval, Zenon
    <3> DEFINE S == {n + 1}
    <3> DEFINE T == 1 .. e
    <3>3. IsFiniteSet(S) /\ IsFiniteSet(T) /\ Cardinality(S) = 1 /\ Cardinality(T) = e /\ B = S \X T
      BY <3>1, <3>2
    <3> HIDE DEF S, T, B
    <3>4. IsFiniteSet(S \X T) /\ Cardinality(S \X T) = Cardinality(S) * Cardinality(T)
      BY <3>3, FS_Product
    <3> QED BY <1>4, <3>3, <3>4
  <2> HIDE DEF B
  <2>7. /\ IsFiniteSet(Rewards(h)) /\ Cardinality(Rewards(h)) <= Cardinality(Rewards(g)) + e
        /\ Cardinality(Rewards(g)) \in Nat /\ Cardinality(Rewards(h)) \in Nat
    <3>1. Rewards(h) = Rewards(g) \cup B
      BY <1>2 DEF B
    <3>2. /\ IsFiniteSet(Rewards(h))
          /\ Cardinality(Rewards(h))
               = Cardinality(Rewards(g)) + Cardinality(B) - Cardinality(Rewards(g) \cap B)
      BY <2>1, <2>6, <3>1, FS_Union
    <3>3. IsFiniteSet(Rewards(g) \cap B)
      BY <2>1, FS_Intersection
    <3>4. /\ Cardinality(Rewards(g) \cap B) \in Nat /\ Cardinality(Rewards(g)) \in Nat
          /\ Cardinality(Rewards(h)) \in Nat
      BY <2>1, <3>2, <3>3, FS_CardinalityType
    <3> QED BY <1>4, <2>6, <3>2, <3>4
  <2>8. e = (IF ToSet(run) \subseteq g.tools THEN 0 ELSE 1)
              + (IF Transitions(run) \subseteq g.trans THEN 0 ELSE 1)
              + (IF {run} \subseteq g.seqs THEN 0 ELSE 1)
    <3>1. {run} \subseteq g.seqs <=> run \in g.seqs
      OBVIOUS
    <3>2. /\ Unit(~ ToSet(run) \subseteq g.tools) = IF ToSet(run) \subseteq g.tools THEN 0 ELSE 1
          /\ Unit(~ Transitions(run) \subseteq g.trans)
               = IF Transitions(run) \subseteq g.trans THEN 0 ELSE 1
          /\ Unit(run \notin g.seqs) = IF {run} \subseteq g.seqs THEN 0 ELSE 1
      BY <3>1 DEF Unit
    <3> QED BY <3>2, Zenon DEF e, Energy
  <2> QED BY <2>1, <2>3, <2>4, <2>5, <2>7, <2>8
<1>12. Observes
  BY <1>9, <1>10
<1> QED BY <1>11, <1>12 DEF CoverageOK

\* A fold, of a bootstrap execution or of a mutant, leaves the generator in order.
LEMMA FoldsKeep ==
  ASSUME NEW g, GeneratorOK(g), NEW run \in Runs
  PROVE  /\ GeneratorOK(FoldInitial(g, run)) /\ FoldInitial(g, run).corpus # <<>>
         /\ GeneratorOK(FoldMutant(g, run))
         /\ Position(g) \subseteq Position(FoldMutant(g, run))
         /\ g.corpus # <<>> => FoldMutant(g, run).corpus # <<>>
<1> DEFINE h == FoldInitial(g, run)
<1> DEFINE m == FoldMutant(g, run)
<1>1. g \in Snapshot
  BY DEF GeneratorOK, SchedulerOK
<1>2. Longer(h, g, run)
  BY <1>1, FoldInitialLengthens
<1>3. m = IF Energy(g, run) = 0 THEN Observed(g, run) ELSE h
  BY DEF FoldMutant, FoldInitial
<1> HIDE DEF h, m
<1>4. GeneratorOK(h)
  BY <1>2, LongerSchedules, LongerCovers DEF GeneratorOK
<1>5. h.corpus # <<>> /\ Position(g) \subseteq Position(h)
  BY <1>2 DEF Longer, Position
<1>6. CASE Energy(g, run) = 0
  <2> DEFINE ts == g.tools \cup ToSet(run)
  <2> DEFINE es == g.trans \cup Transitions(run)
  <2> DEFINE rs == g.seqs \cup {run}
  <2>1. ts = g.tools /\ es = g.trans /\ rs = g.seqs
    BY <1>6, EnergyCounts
  <2>2. m = [g EXCEPT !.tools = ts, !.trans = es, !.seqs = rs]
    BY <1>3, <1>6 DEF Observed
  <2> HIDE DEF ts, es, rs
  <2>3. m = g
    BY <1>1, <2>1, <2>2 DEF Snapshot
  <2> QED BY <1>4, <1>5, <2>3 DEF h, m
<1>7. CASE Energy(g, run) # 0
  BY <1>3, <1>4, <1>5, <1>7 DEF h, m
<1> QED BY <1>6, <1>7

\* Whether a proposal failed concerns neither the scheduler nor the corpus.
LEMMA FailureKeeps ==
  ASSUME NEW g, GeneratorOK(g), NEW failed \in BOOLEAN
  PROVE  LET h == [g EXCEPT !.failed = failed]
         IN GeneratorOK(h) /\ h.corpus = g.corpus /\ h.pending = g.pending
<1> DEFINE h == [g EXCEPT !.failed = failed]
<1>1. g \in Snapshot /\ SchedulerOK(g) /\ CoverageOK(g)
  BY DEF GeneratorOK, SchedulerOK
<1>2. /\ h \in Snapshot /\ h.corpus = g.corpus /\ h.pending = g.pending /\ h.queue = g.queue
      /\ h.tools = g.tools /\ h.trans = g.trans /\ h.seqs = g.seqs
  BY <1>1 DEF Snapshot
<1> HIDE DEF h
<1>3. Alike(h, g) /\ Position(h) = Position(g)
  BY <1>2 DEF Alike, Position
<1>4. CoverageOK(h)
  BY <1>1, <1>2, <1>3, AlikeCovers
<1>5. SchedulerOK(h)
  BY <1>1, <1>2, <1>3, Zenon DEF SchedulerOK
<1> QED BY <1>2, <1>4, <1>5 DEF GeneratorOK, h

LEMMA EmptyInOrder == GeneratorOK(Empty) /\ Empty.corpus = <<>>
<1>1. /\ Empty.corpus = <<>> /\ Empty.queue = <<>> /\ Empty.pending = None
      /\ Empty.tools = {} /\ Empty.trans = {} /\ Empty.seqs = {} /\ Empty.failed = FALSE
      /\ Empty \in Snapshot
  BY DEF Empty, Snapshot
<1>2. Position(Empty) = {}
  BY <1>1 DEF Position
<1>3. Earning(Empty) = {} /\ Rewards(Empty) = {}
  BY <1>2 DEF Earning, Rewards
<1>4. ToSet(Empty.queue) = {} /\ Empty.queue \in Seq(Position(Empty)) /\ IsInjective(Empty.queue)
  BY <1>1, NoMembers DEF IsInjective
<1>5. SchedulerOK(Empty)
  BY <1>1, <1>2, <1>4 DEF SchedulerOK
<1>6. IsFiniteSet({}) /\ Cardinality({}) = 0
  BY FS_EmptySet
<1>7. CoverageOK(Empty)
  BY <1>1, <1>3, <1>6 DEF CoverageOK
<1> QED BY <1>1, <1>5, <1>7 DEF GeneratorOK

-----------------------------------------------------------------------------
(* The invariant of the campaign. *)

\* The snapshots: in memory, in the campaign and in the two transitions of a batch.
SnapshotsOK ==
  /\ GeneratorOK(gen) /\ GeneratorOK(saved)
  /\ pc # "bootstrap" => gen.corpus # <<>> /\ saved.corpus # <<>>
  /\ pc \in {"bootstrap", "plan", "fold"} => gen = saved
  /\ reservation # None => GeneratorOK(reservation.post)
  /\ completion # None => GeneratorOK(completion.post)

\* The files of a batch under way lead from the saved snapshot to the one it hands on.
BatchOK ==
  /\ reservation \in Reservation \cup {None} /\ completion \in Completion \cup {None}
  /\ pc = "bootstrap" \/ mode = "sequential" => reservation = None
  /\ completion # None => /\ reservation # None /\ completion.pre = reservation.post
                          /\ Len(completion.post.corpus) = Len(completion.pre.corpus)
  /\ reservation # None /\ pc # "fold" =>
       /\ reservation.pre = saved
       /\ reservation.post = Spendings(saved, EpochSize)[EpochSize]
       /\ reservation.post.corpus # <<>>
       /\ ToSet(reservation.parents) \subseteq Position(reservation.post)
  /\ pc = "reserved" =>
       /\ reservation # None /\ completion = None
       /\ gen = reservation.post /\ parents = reservation.parents
  /\ pc = "proposed" /\ mode = "batch" =>
       /\ completion # None /\ gen = completion.post /\ results = completion.results

ControlOK ==
  /\ mode \in {"sequential", "batch"}
  /\ pc \in {"bootstrap", "plan", "reserved", "proposed", "fold"}
  /\ ToSet(parents) \subseteq Position(gen)
  /\ pc \in {"bootstrap", "plan"} => parents = <<>>
  /\ results \subseteq Slots /\ folded \subseteq results
  /\ pc # "fold" => folded = {}
  /\ crashes \in 0 .. MaxCrashes

Inv == SnapshotsOK /\ BatchOK /\ ControlOK

USE CrashAssumption, EpochAssumption

LEMMA InvInit == Init => Inv
<1> SUFFICES ASSUME Init PROVE Inv
  OBVIOUS
<1>1. SnapshotsOK
  BY EmptyInOrder DEF Init, SnapshotsOK
<1>2. BatchOK
  BY DEF Init, BatchOK
<1>3. ControlOK
  <2>1. ToSet(parents) = {}
    BY NoMembers DEF Init
  <2> QED BY <2>1 DEF Init, ControlOK, Slots
<1> QED BY <1>1, <1>2, <1>3 DEF Inv

LEMMA FoldBootstrapKeeps ==
  ASSUME Inv, NEW run \in Runs, FoldBootstrap(run)
  PROVE  Inv'
<1>1. /\ pc = "bootstrap" /\ gen' = FoldInitial(gen, run) /\ saved' = gen'
      /\ pc' \in {"plan", "bootstrap"}
      /\ UNCHANGED <<mode, reservation, completion, parents, results, folded, crashes>>
  BY DEF FoldBootstrap, files
<1>2. GeneratorOK(gen') /\ gen'.corpus # <<>>
  BY <1>1, FoldsKeep DEF Inv, SnapshotsOK
<1>3. reservation = None /\ completion = None /\ parents = <<>>
  BY <1>1 DEF Inv, BatchOK, ControlOK
<1>4. SnapshotsOK'
  BY <1>1, <1>2, <1>3 DEF SnapshotsOK
<1>5. BatchOK'
  BY <1>1, <1>3 DEF BatchOK
<1>6. ControlOK'
  <2>1. ToSet(parents') = {}
    BY <1>1, <1>3, NoMembers
  <2> QED BY <1>1, <1>3, <2>1 DEF Inv, ControlOK
<1> QED BY <1>4, <1>5, <1>6 DEF Inv

LEMMA ProposeKeeps ==
  ASSUME Inv, NEW ok \in BOOLEAN, Propose(ok)
  PROVE  Inv'
<1> DEFINE h == Spent(gen)
<1>1. /\ pc = "plan" /\ mode = "sequential" /\ gen' = [h EXCEPT !.failed = ~ok]
      /\ parents' = <<gen'.pending>> /\ results' \in {{}, {1}} /\ pc' = "proposed"
      /\ UNCHANGED <<mode, saved, reservation, completion, folded, crashes>>
  BY DEF Propose, files
<1>2. GeneratorOK(gen) /\ GeneratorOK(saved) /\ gen.corpus # <<>> /\ saved.corpus # <<>>
  BY <1>1 DEF Inv, SnapshotsOK
<1>3. GeneratorOK(h) /\ Len(h.corpus) = Len(gen.corpus) /\ h.pending \in Position(gen)
  BY <1>2, SpentKeeps
<1> HIDE DEF h
<1>4. (~ok) \in BOOLEAN
  OBVIOUS
<1>5. GeneratorOK(gen') /\ gen'.corpus = h.corpus /\ gen'.pending = h.pending
  BY <1>1, <1>3, <1>4, FailureKeeps, Zenon
<1>6. gen'.corpus # <<>> /\ Position(gen)' = Position(gen)
  <2>1. gen.corpus \in Seq(Seed)
    BY <1>2 DEF GeneratorOK, SchedulerOK, Snapshot
  <2>2. Len(gen.corpus) # 0
    BY <1>2, <2>1
  <2> QED BY <1>3, <1>5, <2>2 DEF Position
<1>7. reservation = None /\ completion = None
  BY <1>1 DEF Inv, BatchOK
<1>8. SnapshotsOK'
  BY <1>1, <1>2, <1>5, <1>6, <1>7 DEF SnapshotsOK
<1>9. BatchOK'
  BY <1>1, <1>7 DEF BatchOK
<1>10. ControlOK'
  <2>1. ToSet(parents') = {gen'.pending}
    BY <1>1 DEF ToSet
  <2>2. ToSet(parents') \subseteq Position(gen)'
    BY <1>3, <1>5, <1>6, <2>1
  <2>3. results' \subseteq Slots /\ folded = {} /\ crashes \in 0 .. MaxCrashes
    BY <1>1 DEF Slots, Inv, ControlOK
  <2> QED BY <1>1, <2>2, <2>3 DEF ControlOK
<1> QED BY <1>8, <1>9, <1>10 DEF Inv

\* The seed list of a whole batch, with what is left behind, is a reservation.
LEMMA SpendingsReserve ==
  ASSUME NEW g, GeneratorOK(g), g.corpus # <<>>
  PROVE  LET after == Spendings(g, EpochSize)
             seeds == [s \in Slots |-> after[s].pending]
         IN  /\ GeneratorOK(after[EpochSize]) /\ Position(after[EpochSize]) = Position(g)
             /\ after[EpochSize].corpus # <<>>
             /\ seeds \in [Slots -> Nat] /\ ToSet(seeds) \subseteq Position(g)
             /\ None \notin ToSet(seeds)
             /\ [pre |-> g, post |-> after[EpochSize], parents |-> seeds] \in Reservation
<1> DEFINE after == Spendings(g, EpochSize)
<1> DEFINE seeds == [s \in Slots |-> after[s].pending]
<1> DEFINE post == after[EpochSize]
<1>1. /\ EpochSize \in Nat /\ EpochSize \in 0 .. EpochSize
      /\ \A s \in Slots : s \in 0 .. EpochSize /\ s # 0
  BY DEF Slots
<1>2. \A k \in 0 .. EpochSize :
        /\ GeneratorOK(after[k]) /\ Len(after[k].corpus) = Len(g.corpus)
        /\ k # 0 => after[k].pending \in Position(g)
  BY <1>1, SpendingsKeep
<1> HIDE DEF after
<1>3. GeneratorOK(post) /\ Len(post.corpus) = Len(g.corpus)
  BY <1>1, <1>2
<1>4. \A s \in Slots : seeds[s] \in Position(g)
  BY <1>1, <1>2
<1>5. DOMAIN seeds = Slots
  OBVIOUS
<1>6. seeds = [s \in Slots |-> seeds[s]]
  OBVIOUS
<1> HIDE DEF seeds, post
<1>7. ToSet(seeds) \subseteq Position(g)
  BY <1>4, <1>5 DEF ToSet
<1>8. None \notin Position(g) /\ Position(g) \subseteq Nat
  BY NoneAssumption DEF Position
<1>9. seeds \in [Slots -> Nat]
  BY <1>4, <1>6, <1>8
<1>10. g \in Snapshot /\ post \in Snapshot
  BY <1>3 DEF GeneratorOK, SchedulerOK
<1>11. [pre |-> g, post |-> post, parents |-> seeds] \in Reservation
  BY <1>9, <1>10 DEF Reservation
<1>12. post.corpus # <<>>
  <2>1. g.corpus \in Seq(Seed)
    BY <1>10 DEF Snapshot
  <2>2. Len(g.corpus) # 0
    BY <2>1
  <2> QED BY <1>3, <2>2
<1>13. Position(post) = Position(g)
  BY <1>3 DEF Position
<1> QED BY <1>3, <1>7, <1>8, <1>9, <1>11, <1>12, <1>13 DEF after, seeds, post

LEMMA ReserveKeeps == ASSUME Inv, Reserve PROVE Inv'
<1> DEFINE after == Spendings(gen, EpochSize)
<1> DEFINE seeds == [s \in Slots |-> after[s].pending]
<1> DEFINE post == after[EpochSize]
<1>1. pc = "plan" /\ mode = "batch" /\ reservation = None
      /\ UNCHANGED <<mode, saved, completion, folded, crashes>>
  BY DEF Reserve
<1>2. /\ GeneratorOK(gen) /\ GeneratorOK(saved) /\ gen.corpus # <<>> /\ saved.corpus # <<>>
      /\ gen = saved
  BY <1>1 DEF Inv, SnapshotsOK
<1>3. /\ GeneratorOK(post) /\ Position(post) = Position(gen) /\ post.corpus # <<>>
      /\ ToSet(seeds) \subseteq Position(gen) /\ None \notin ToSet(seeds)
      /\ [pre |-> gen, post |-> post, parents |-> seeds] \in Reservation
  BY <1>2, SpendingsReserve
<1>4. /\ reservation' = [pre |-> gen, post |-> post, parents |-> seeds]
      /\ gen' = post /\ parents' = seeds /\ pc' = "reserved" /\ results' = results
  BY <1>3 DEF Reserve
<1>5. post = Spendings(saved, EpochSize)[EpochSize]
  BY <1>2
<1> HIDE DEF after, seeds, post
<1>6. /\ reservation' \in Reservation /\ reservation' # None /\ reservation'.pre = saved
      /\ reservation'.post = post /\ reservation'.parents = seeds
  BY <1>2, <1>3, <1>4, NoneAssumption
<1>7. completion = None
  BY <1>1 DEF Inv, BatchOK
<1>8. SnapshotsOK'
  BY <1>1, <1>2, <1>3, <1>4, <1>6, <1>7 DEF SnapshotsOK
<1>9. BatchOK'
  BY <1>1, <1>3, <1>4, <1>5, <1>6, <1>7 DEF BatchOK
<1>10. ControlOK'
  <2>1. Position(gen)' = Position(post)
    BY <1>4 DEF Position
  <2> QED BY <1>1, <1>3, <1>4, <2>1 DEF Inv, ControlOK
<1> QED BY <1>8, <1>9, <1>10 DEF Inv

\* Wherever the process died, the transitions bring the saved state to where they lead.
LEMMA ResumeKeeps == ASSUME Inv, Resume PROVE Inv'
<1> DEFINE reserved == Applied(gen, reservation)
<1> DEFINE completed == IF completion = None THEN reserved
                        ELSE IF gen = completion.post THEN gen
                        ELSE IF reserved = None THEN None ELSE Applied(reserved, completion)
<1>1. /\ pc = "plan" /\ reservation # None
      /\ UNCHANGED <<mode, saved, reservation, completion, folded, crashes>>
  BY DEF Resume, files
<1>2. /\ gen = saved /\ GeneratorOK(saved) /\ saved.corpus # <<>>
      /\ GeneratorOK(reservation.post) /\ (completion # None => GeneratorOK(completion.post))
  BY <1>1 DEF Inv, SnapshotsOK
<1>3. /\ reservation \in Reservation /\ completion \in Completion \cup {None}
      /\ reservation.pre = saved /\ mode # "sequential"
      /\ reservation.post = Spendings(saved, EpochSize)[EpochSize]
      /\ reservation.post.corpus # <<>>
      /\ ToSet(reservation.parents) \subseteq Position(reservation.post)
      /\ completion # None => /\ completion.pre = reservation.post
                              /\ Len(completion.post.corpus) = Len(completion.pre.corpus)
  BY <1>1 DEF Inv, BatchOK
<1>4. reserved = reservation.post
  BY <1>2, <1>3 DEF Applied
<1>5. None # reservation.post /\ (completion # None => None # completion.post)
  BY <1>2, NoneAssumption DEF GeneratorOK, SchedulerOK
<1>6. completed = IF completion = None THEN reservation.post ELSE completion.post
  <2>1. CASE completion = None
    BY <1>4, <2>1
  <2>2. CASE completion # None
    <3>1. Applied(reservation.post, completion) = completion.post
      BY <1>3, <2>2 DEF Applied
    <3> QED BY <1>4, <1>5, <2>2, <3>1
  <2> QED BY <2>1, <2>2
<1>7. completed # None
  BY <1>5, <1>6
<1>8. /\ parents' = reservation.parents
      /\ gen' = IF completed = None THEN gen ELSE completed
      /\ pc' = IF completed # None /\ completion = None THEN "reserved" ELSE "proposed"
      /\ results' = IF completed = None \/ completion = None THEN {} ELSE completion.results
  BY DEF Resume
<1> HIDE DEF reserved, completed
<1>9. /\ parents' = reservation.parents /\ gen' = completed
      /\ pc' = IF completion = None THEN "reserved" ELSE "proposed"
      /\ results' = IF completion = None THEN {} ELSE completion.results
  BY <1>7, <1>8
<1>10. Position(gen)' = Position(reservation.post) /\ GeneratorOK(gen') /\ gen'.corpus # <<>>
  <2>1. CASE completion = None
    BY <1>2, <1>3, <1>6, <1>9, <2>1 DEF Position
  <2>2. CASE completion # None
    <3>1. gen' = completion.post /\ Len(gen'.corpus) = Len(reservation.post.corpus)
      BY <1>3, <1>6, <1>9, <2>2
    <3>2. reservation.post.corpus \in Seq(Seed)
      BY <1>2 DEF GeneratorOK, SchedulerOK, Snapshot
    <3>3. Len(reservation.post.corpus) # 0
      BY <1>3, <3>2
    <3> QED BY <1>2, <2>2, <3>1, <3>3 DEF Position
  <2> QED BY <2>1, <2>2
<1>11. SnapshotsOK'
  BY <1>1, <1>2, <1>9, <1>10 DEF SnapshotsOK
<1>12. BatchOK'
  BY <1>1, <1>3, <1>6, <1>9 DEF BatchOK
<1>13. ControlOK'
  <2>1. results' \subseteq Slots
    BY <1>3, <1>9 DEF Completion
  <2>2. ToSet(parents)' \subseteq Position(gen)'
    BY <1>3, <1>9, <1>10
  <2>3. folded' = {} /\ crashes' \in 0 .. MaxCrashes /\ mode' \in {"sequential", "batch"}
    BY <1>1 DEF Inv, ControlOK
  <2> QED BY <1>9, <2>1, <2>2, <2>3 DEF ControlOK
<1> QED BY <1>11, <1>12, <1>13 DEF Inv

LEMMA CompleteKeeps ==
  ASSUME Inv, NEW ok \in SUBSET Slots, Complete(ok)
  PROVE  Inv'
<1>1. /\ pc = "reserved" /\ gen' = [gen EXCEPT !.failed = (ok = {})]
      /\ completion' = [pre |-> gen, post |-> gen', results |-> ok]
      /\ results' = ok /\ pc' = "proposed"
      /\ UNCHANGED <<mode, saved, reservation, parents, folded, crashes>>
  BY DEF Complete
<1>2. /\ GeneratorOK(gen) /\ GeneratorOK(saved) /\ GeneratorOK(reservation.post)
      /\ gen.corpus # <<>> /\ saved.corpus # <<>> /\ reservation # None
      /\ gen = reservation.post /\ parents = reservation.parents
  BY <1>1 DEF Inv, SnapshotsOK, BatchOK
<1>3. GeneratorOK(gen') /\ gen'.corpus = gen.corpus
  <2> DEFINE failed == (ok = {})
  <2>1. failed \in BOOLEAN
    OBVIOUS
  <2>2. gen' = [gen EXCEPT !.failed = failed]
    BY <1>1
  <2> HIDE DEF failed
  <2> QED BY <1>2, <2>1, <2>2, FailureKeeps, Zenon
<1>4. /\ completion' \in Completion /\ completion'.pre = gen /\ completion'.post = gen'
      /\ completion'.results = ok /\ completion' # None
  <2>1. gen \in Snapshot /\ gen' \in Snapshot
    BY <1>2, <1>3 DEF GeneratorOK, SchedulerOK
  <2>2. /\ completion' \in Completion /\ completion'.pre = gen /\ completion'.post = gen'
        /\ completion'.results = ok
    BY <1>1, <2>1 DEF Completion
  <2> QED BY <2>2, NoneAssumption
<1>5. SnapshotsOK'
  BY <1>1, <1>2, <1>3, <1>4 DEF SnapshotsOK
<1>6. BatchOK'
  <2>1. /\ reservation \in Reservation /\ reservation.pre = saved /\ mode # "sequential"
        /\ reservation.post = Spendings(saved, EpochSize)[EpochSize]
        /\ reservation.post.corpus # <<>>
        /\ ToSet(reservation.parents) \subseteq Position(reservation.post)
    BY <1>1, <1>2 DEF Inv, BatchOK
  <2> QED BY <1>1, <1>2, <1>3, <1>4, <2>1 DEF BatchOK
<1>7. ControlOK'
  <2>1. Position(gen)' = Position(gen)
    BY <1>3 DEF Position
  <2> QED BY <1>1, <2>1 DEF Inv, ControlOK
<1> QED BY <1>5, <1>6, <1>7 DEF Inv

LEMMA CheckpointKeeps == ASSUME Inv, Checkpoint PROVE Inv'
<1>1. /\ pc = "proposed" /\ saved' = gen /\ pc' = "fold" /\ folded' = {}
      /\ UNCHANGED <<mode, gen, reservation, completion, parents, results, crashes>>
  BY DEF Checkpoint, files
<1>2. SnapshotsOK'
  BY <1>1 DEF Inv, SnapshotsOK
<1>3. BatchOK'
  BY <1>1 DEF Inv, BatchOK
<1>4. ControlOK'
  BY <1>1 DEF Inv, ControlOK, Position
<1> QED BY <1>2, <1>3, <1>4 DEF Inv

LEMMA FoldRunKeeps ==
  ASSUME Inv, NEW slot \in Slots, NEW run \in Runs, FoldRun(slot, run)
  PROVE  Inv'
<1>1. /\ pc = "fold" /\ slot \in results /\ gen' = FoldMutant(gen, run) /\ saved' = gen'
      /\ folded' = folded \cup {slot}
      /\ UNCHANGED <<mode, reservation, completion, pc, parents, results, crashes>>
  BY DEF FoldRun, files
<1>2. GeneratorOK(gen) /\ gen.corpus # <<>>
  BY <1>1 DEF Inv, SnapshotsOK
<1>3. GeneratorOK(gen') /\ gen'.corpus # <<>> /\ Position(gen) \subseteq Position(gen')
  BY <1>1, <1>2, FoldsKeep
<1>4. SnapshotsOK'
  BY <1>1, <1>3 DEF Inv, SnapshotsOK
<1>5. BatchOK'
  BY <1>1 DEF Inv, BatchOK
<1>6. ControlOK'
  BY <1>1, <1>3 DEF Inv, ControlOK
<1> QED BY <1>4, <1>5, <1>6 DEF Inv

LEMMA NextEpochKeeps == ASSUME Inv, NextEpoch PROVE Inv'
<1>1. /\ pc = "fold" /\ pc' = "plan" /\ reservation' = None /\ completion' = None
      /\ parents' = <<>> /\ results' = {} /\ folded' = {}
      /\ UNCHANGED <<mode, gen, saved, crashes>>
  BY DEF NextEpoch
<1>2. SnapshotsOK'
  BY <1>1 DEF Inv, SnapshotsOK
<1>3. BatchOK'
  BY <1>1 DEF BatchOK
<1>4. ControlOK'
  <2>1. ToSet(parents') = {}
    BY <1>1, NoMembers
  <2> QED BY <1>1, <2>1 DEF Inv, ControlOK
<1> QED BY <1>2, <1>3, <1>4 DEF Inv

\* The files of the batch stay, and they still lead from the saved state.
LEMMA CrashKeeps == ASSUME Inv, Crash PROVE Inv'
<1>1. /\ pc \in {"plan", "reserved", "proposed"} /\ crashes < MaxCrashes
      /\ crashes' = crashes + 1 /\ gen' = saved /\ pc' = "plan" /\ parents' = <<>>
      /\ results' = {} /\ UNCHANGED <<mode, saved, reservation, completion, folded>>
  BY DEF Crash, files
<1>2. SnapshotsOK'
  BY <1>1 DEF Inv, SnapshotsOK
<1>3. BatchOK'
  BY <1>1 DEF Inv, BatchOK
<1>4. ControlOK'
  <2>1. ToSet(parents') = {}
    BY <1>1, NoMembers
  <2>2. crashes' \in 0 .. MaxCrashes
    BY <1>1 DEF Inv, ControlOK
  <2> QED BY <1>1, <2>1, <2>2 DEF Inv, ControlOK
<1> QED BY <1>2, <1>3, <1>4 DEF Inv

LEMMA InvStep == Inv /\ [Next]_vars => Inv'
<1> SUFFICES ASSUME Inv, [Next]_vars PROVE Inv'
  OBVIOUS
<1>1. CASE UNCHANGED vars
  BY <1>1 DEF vars, files, Inv, SnapshotsOK, BatchOK, ControlOK, Position
<1>2. CASE Step
  BY <1>2, FoldBootstrapKeeps, ProposeKeeps, ReserveKeeps, ResumeKeeps, CompleteKeeps,
     CheckpointKeeps, FoldRunKeeps, NextEpochKeeps DEF Step
<1> QED BY <1>1, <1>2, CrashKeeps DEF Next

-----------------------------------------------------------------------------
(* What the invariant says. *)

LEMMA InvTyped == Inv => TypeOK
<1> SUFFICES ASSUME Inv PROVE TypeOK
  OBVIOUS
<1>1. ASSUME NEW g \in {gen, saved}
      PROVE  /\ g \in Snapshot
             /\ g.queue \in Seq(Position(g)) /\ g.pending \in Position(g) \cup {None}
             /\ \A i \in Position(g) : g.corpus[i].energy <= g.corpus[i].base
  BY DEF Inv, SnapshotsOK, GeneratorOK, SchedulerOK
<1> QED BY <1>1 DEF Inv, BatchOK, ControlOK, TypeOK

LEMMA InvLosesNoSeed == Inv => NoSeedLost
<1> SUFFICES ASSUME Inv PROVE NoSeedLost
  OBVIOUS
<1>1. SchedulerOK(gen)
  BY DEF Inv, SnapshotsOK, GeneratorOK
<1> QED BY <1>1, InvTyped DEF SchedulerOK, NoSeedLost

LEMMA InvCovers == Inv => CorpusCoversNovelty
<1> SUFFICES ASSUME Inv PROVE CorpusCoversNovelty
  OBVIOUS
<1>1. CoverageOK(gen) /\ (pc # "bootstrap" => gen.corpus # <<>>)
  BY DEF Inv, SnapshotsOK, GeneratorOK
<1>2. pc # "bootstrap" => Earning(gen) # {}
  BY <1>1 DEF CoverageOK
<1> QED BY <1>1, <1>2, Zenon DEF CoverageOK, CorpusCoversNovelty, Shown, Rewards

LEMMA InvAppliesOnce == Inv => BatchAppliedOnce
<1> SUFFICES ASSUME Inv, mode = "batch", pc = "proposed"
             PROVE  /\ reservation # None /\ completion # None
                    /\ reservation.pre = saved
                    /\ reservation.post = Spendings(saved, EpochSize)[EpochSize]
                    /\ completion.pre = reservation.post /\ gen = completion.post
                    /\ results = completion.results
  BY DEF BatchAppliedOnce
<1>1. completion # None /\ gen = completion.post /\ results = completion.results
  BY DEF Inv, BatchOK
<1>2. reservation # None /\ completion.pre = reservation.post
  BY <1>1 DEF Inv, BatchOK
<1>3. /\ reservation.pre = saved
      /\ reservation.post = Spendings(saved, EpochSize)[EpochSize]
  BY <1>2 DEF Inv, BatchOK
<1> QED BY <1>1, <1>2, <1>3

\* However seeds are chosen, spent, recycled and restored, for any executions, any batch size
\* and any number of crashes, the seeds with energy are those in the queue and the one being
\* spent, each once (_choose_seed, _retain, restore).
THEOREM NoSeedIsLost == Spec => []NoSeedLost
  BY InvInit, InvStep, InvLosesNoSeed, PTL DEF Spec

\* What was observed is what the seeds with earned energy show, each sequence by exactly one of
\* them; one always exists after the bootstrap, and no novelty is paid for twice (_observe).
THEOREM NoveltyIsCoveredOnce == Spec => []CorpusCoversNovelty
  BY InvInit, InvStep, InvCovers, PTL DEF Spec

\* The state a batch hands on is the saved one, moved once by each of its two transitions,
\* wherever the process died while planning (reserve_mutations, complete_reserved_batch).
THEOREM BatchesApplyOnce == Spec => []BatchAppliedOnce
  BY InvInit, InvStep, InvAppliesOnce, PTL DEF Spec

\* A mutation never fails for want of a seed ("no-schedulable-energy" in reserve_mutations and
\* propose): after the bootstrap a whole batch finds seeds to pay with.
SeedsNeverRunOut ==
  pc # "bootstrap" => \A k \in Slots : Spendings(gen, EpochSize)[k].pending \in Position(gen)

\* The error path of the scheduler is not reached, for any executions, batch size and number of
\* crashes: the first execution earned energy, which recycling gives back (_choose_seed).
THEOREM SeedsLast == Spec => []SeedsNeverRunOut
<1>1. Inv => SeedsNeverRunOut
  <2> SUFFICES ASSUME Inv, pc # "bootstrap", NEW k \in Slots
               PROVE  Spendings(gen, EpochSize)[k].pending \in Position(gen)
    BY DEF SeedsNeverRunOut
  <2>1. GeneratorOK(gen) /\ gen.corpus # <<>>
    BY DEF Inv, SnapshotsOK
  <2>2. k \in 0 .. EpochSize /\ k # 0 /\ EpochSize \in Nat
    BY DEF Slots
  <2> QED BY <2>1, <2>2, SpendingsKeep
<1> QED BY InvInit, InvStep, <1>1, PTL DEF Spec
=============================================================================
