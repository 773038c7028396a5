--------------------------- MODULE Ingress_proofs ---------------------------
(***************************************************************************)
(* What comes in from outside: who is admitted where, for any principals,  *)
(* users, tasks and keys, and however the world changes meanwhile.         *)
(***************************************************************************)
EXTENDS Ingress, FiniteSetTheorems, SequenceTheorems, WellFoundedInduction, TLAPS

(***************************************************************************)
(* Lists of gates.                                                         *)
(***************************************************************************)

IsList(s) == \E T : s \in Seq(T)

\* A gate, and a list of gates, that does nothing but x.
Only(g, x) == g.does = "" \/ g.does = x
Does(s, x) == IsList(s) /\ \A i \in 1..Len(s) : Only(s[i], x)

\* Of a list of gates: all are passed; one ends the delivery; a gate that does
\* x is reached and passed.
Clear(gates, d, e) == \A i \in 1..Len(gates) : ~Fails(gates[i], d, e)
Ends(gates, d, e) == \E i \in 1..Len(gates) : Fails(gates[i], d, e)
Passes(gates, d, e, x) ==
    \E i \in 1..Len(gates) : gates[i].does = x /\ \A j \in 1..i : ~Fails(gates[j], d, e)

\* Lemma: some natural is a least one.
LEMMA LeastNatural ==
    ASSUME NEW B \in SUBSET Nat, B # {}
    PROVE  \E m \in B : \A y \in B : m <= y
<1> DEFINE R == {ss \in Nat \X Nat : ss[1] < ss[2]}
<1>1. IsWellFoundedOn(R, Nat)
  BY NatLessThanWellFounded DEF OpToRel
<1> HIDE DEF R
<1>2. PICK m \in B : \A y \in B : ~(<<y, m>> \in R)
  BY <1>1, WFMin
<1>3. ASSUME NEW y \in B, y < m PROVE FALSE
  <2>1. <<y, m>> \in Nat \X Nat /\ <<y, m>>[1] < <<y, m>>[2]
    BY <1>3
  <2>2. <<y, m>> \in R
    BY <2>1 DEF R
  <2> QED BY <1>2, <2>2
<1> QED BY <1>3

\* Lemma: a list of gates that ends does only what a gate does that was passed
\* with all before it.
LEMMA JudgePasses ==
    ASSUME NEW gates, IsList(gates), NEW d, NEW e, Ends(gates, d, e)
    PROVE  \A x \in Judge(gates, d, e).did : x # "" /\ Passes(gates, d, e, x)
<1> DEFINE F == {i \in DOMAIN gates : Fails(gates[i], d, e)}
           n == Min(F)
<1>1. DOMAIN gates = 1..Len(gates) /\ Len(gates) \in Nat
  BY DEF IsList
<1>2. F # {} /\ F \subseteq 1..Len(gates) /\ F \in SUBSET Nat
  BY <1>1 DEF Ends
<1>3. n \in F /\ \A i \in F : n <= i
  <2>1. \E m \in F : \A y \in F : m <= y
    <3> HIDE DEF F
    <3> QED BY <1>2, LeastNatural
  <2> HIDE DEF F
  <2> QED BY <2>1 DEF Min
<1>4. \A i \in 1..(n - 1) : i \in 1..Len(gates) /\ ~Fails(gates[i], d, e)
  <2> SUFFICES ASSUME NEW i \in 1..(n - 1) PROVE i \in 1..Len(gates) /\ i \notin F
    BY <1>1
  <2>1. n \in Nat /\ n <= Len(gates)
    BY <1>1, <1>2, <1>3
  <2> HIDE DEF F, n
  <2> QED BY <1>1, <1>3, <2>1
<1>5. Judge(gates, d, e).did = {gates[i].does : i \in 1..(n - 1)} \ {""}
  BY DEF Judge
<1>6. n \in Nat
  BY <1>1, <1>2, <1>3
<1> HIDE DEF F, n
<1> SUFFICES ASSUME NEW i \in 1..(n - 1) PROVE Passes(gates, d, e, gates[i].does)
  BY <1>5
<1>7. \A j \in 1..i : j \in 1..(n - 1)
  BY <1>6
<1> QED BY <1>4, <1>7 DEF Passes

\* Lemma: what a list joined of two does.
LEMMA Joined ==
    ASSUME NEW s, NEW t, IsList(s), IsList(t)
    PROVE  /\ IsList(s \o t)
           /\ \A d, e : /\ Clear(s \o t, d, e) <=> Clear(s, d, e) /\ Clear(t, d, e)
                        /\ Ends(s \o t, d, e) <=> Ends(s, d, e) \/ Ends(t, d, e)
                        /\ \A x : Passes(s \o t, d, e, x) <=>
                              Passes(s, d, e, x) \/ (Clear(s, d, e) /\ Passes(t, d, e, x))
<1>1. PICK S, T : s \in Seq(S) /\ t \in Seq(T)
  BY DEF IsList
<1>2. s \in Seq(S \cup T) /\ t \in Seq(S \cup T)
  BY <1>1, SeqMonotonic
<1> DEFINE u == s \o t
           m == Len(s)
           n == Len(t)
<1>3. /\ u \in Seq(S \cup T) /\ Len(u) = m + n /\ m \in Nat /\ n \in Nat
      /\ \A i \in 1..(m + n) : u[i] = IF i <= m THEN s[i] ELSE t[i - m]
  BY <1>2, ConcatProperties, LenProperties
<1> HIDE DEF u
<1>4. /\ \A i \in 1..m : i \in 1..Len(u) /\ u[i] = s[i]
      /\ \A i \in 1..n : m + i \in 1..Len(u) /\ u[m + i] = t[i]
      /\ \A i \in 1..Len(u) : i \in 1..m \/ (i - m \in 1..n /\ i = m + (i - m))
  BY <1>3
<1>5. ASSUME NEW d, NEW e
      PROVE  /\ Clear(u, d, e) <=> Clear(s, d, e) /\ Clear(t, d, e)
             /\ Ends(u, d, e) <=> Ends(s, d, e) \/ Ends(t, d, e)
  BY <1>3, <1>4 DEF Clear, Ends
<1>6. ASSUME NEW d, NEW e, NEW x
      PROVE  Passes(u, d, e, x) <=> Passes(s, d, e, x) \/ (Clear(s, d, e) /\ Passes(t, d, e, x))
  <2>1. ASSUME Passes(u, d, e, x) PROVE Passes(s, d, e, x) \/ (Clear(s, d, e) /\ Passes(t, d, e, x))
    <3>1. PICK i \in 1..Len(u) : u[i].does = x /\ \A j \in 1..i : ~Fails(u[j], d, e)
      BY <2>1 DEF Passes
    <3>2. CASE i \in 1..m
      <4>1. \A j \in 1..i : j \in 1..m /\ u[j] = s[j]
        BY <1>3, <1>4, <3>2
      <4> QED BY <3>1, <3>2, <1>4, <4>1 DEF Passes
    <3>3. CASE i - m \in 1..n
      <4>1. \A j \in 1..m : j \in 1..i /\ u[j] = s[j]
        BY <1>3, <1>4, <3>3
      <4>2. Clear(s, d, e)
        BY <3>1, <4>1 DEF Clear
      <4>3. \A j \in 1..(i - m) : m + j \in 1..i /\ u[m + j] = t[j]
        BY <1>3, <1>4, <3>3
      <4>4. \A j \in 1..(i - m) : ~Fails(t[j], d, e)
        BY <3>1, <4>3
      <4>5. t[i - m].does = x
        BY <1>3, <1>4, <3>1, <3>3
      <4> QED BY <3>3, <4>2, <4>4, <4>5 DEF Passes
    <3> QED BY <1>4, <3>2, <3>3
  <2>2. ASSUME Passes(s, d, e, x) PROVE Passes(u, d, e, x)
    <3>1. PICK i \in 1..m : s[i].does = x /\ \A j \in 1..i : ~Fails(s[j], d, e)
      BY <2>2 DEF Passes
    <3>2. \A j \in 1..i : j \in 1..m /\ u[j] = s[j]
      BY <1>3, <1>4
    <3> QED BY <1>4, <3>1, <3>2 DEF Passes
  <2>3. ASSUME Clear(s, d, e), Passes(t, d, e, x) PROVE Passes(u, d, e, x)
    <3>1. PICK i \in 1..n : t[i].does = x /\ \A j \in 1..i : ~Fails(t[j], d, e)
      BY <2>3 DEF Passes
    <3>2. \A j \in 1..(m + i) : \/ j \in 1..m /\ u[j] = s[j]
                                \/ j - m \in 1..i /\ u[j] = t[j - m]
      BY <1>3, <1>4
    <3>3. \A j \in 1..(m + i) : ~Fails(u[j], d, e)
      BY <2>3, <3>1, <3>2 DEF Clear
    <3> QED BY <1>4, <3>1, <3>3 DEF Passes
  <2> QED BY <2>1, <2>2, <2>3
<1> QED BY <1>3, <1>5, <1>6 DEF IsList, u

\* Lemma: a list of one gate does what it does.
LEMMA List1 ==
    ASSUME NEW x, NEW a,
           Only(a, x)
    PROVE  Does(<< a >>, x)
<1> DEFINE t == << a >>
<1>1. t \in Seq({a}) /\ Len(t) = 1 /\ t[1] = a
  OBVIOUS
<1> HIDE DEF t
<1>2. \A i \in 1..Len(t) : i = 1
  BY <1>1
<1>3. \A i \in 1..Len(t) : Only(t[i], x)
  BY <1>1, <1>2
<1>4. Does(t, x)
  BY <1>1, <1>3 DEF Does, IsList
<1> QED BY <1>4 DEF t

\* Lemma: a list of two gates does what they do.
LEMMA List2 ==
    ASSUME NEW x, NEW a, NEW b,
           Only(a, x), Only(b, x)
    PROVE  Does(<< a, b >>, x)
<1> DEFINE t == << a, b >>
<1>1. t \in Seq({a, b}) /\ Len(t) = 2 /\ t[1] = a /\ t[2] = b
  OBVIOUS
<1> HIDE DEF t
<1>2. \A i \in 1..Len(t) : i = 1 \/ i = 2
  BY <1>1
<1>3. \A i \in 1..Len(t) : Only(t[i], x)
  BY <1>1, <1>2
<1>4. Does(t, x)
  BY <1>1, <1>3 DEF Does, IsList
<1> QED BY <1>4 DEF t

\* Lemma: a list of three gates does what they do.
LEMMA List3 ==
    ASSUME NEW x, NEW a, NEW b, NEW c,
           Only(a, x), Only(b, x), Only(c, x)
    PROVE  Does(<< a, b, c >>, x)
<1> DEFINE t == << a, b, c >>
<1>1. t \in Seq({a, b, c}) /\ Len(t) = 3 /\ t[1] = a /\ t[2] = b /\ t[3] = c
  OBVIOUS
<1> HIDE DEF t
<1>2. \A i \in 1..Len(t) : i = 1 \/ i = 2 \/ i = 3
  BY <1>1
<1>3. \A i \in 1..Len(t) : Only(t[i], x)
  BY <1>1, <1>2
<1>4. Does(t, x)
  BY <1>1, <1>3 DEF Does, IsList
<1> QED BY <1>4 DEF t

\* Lemma: a list of four gates does what they do.
LEMMA List4 ==
    ASSUME NEW x, NEW a, NEW b, NEW c, NEW d,
           Only(a, x), Only(b, x), Only(c, x), Only(d, x)
    PROVE  Does(<< a, b, c, d >>, x)
<1> DEFINE t == << a, b, c, d >>
<1>1. t \in Seq({a, b, c, d}) /\ Len(t) = 4 /\ t[1] = a /\ t[2] = b /\ t[3] = c /\ t[4] = d
  OBVIOUS
<1> HIDE DEF t
<1>2. \A i \in 1..Len(t) : i = 1 \/ i = 2 \/ i = 3 \/ i = 4
  BY <1>1
<1>3. \A i \in 1..Len(t) : Only(t[i], x)
  BY <1>1, <1>2
<1>4. Does(t, x)
  BY <1>1, <1>3 DEF Does, IsList
<1> QED BY <1>4 DEF t

\* Lemma: a list of five gates does what they do.
LEMMA List5 ==
    ASSUME NEW x, NEW a, NEW b, NEW c, NEW d, NEW e,
           Only(a, x), Only(b, x), Only(c, x), Only(d, x), Only(e, x)
    PROVE  Does(<< a, b, c, d, e >>, x)
<1> DEFINE t == << a, b, c, d, e >>
<1>1. t \in Seq({a, b, c, d, e}) /\ Len(t) = 5 /\ t[1] = a /\ t[2] = b /\ t[3] = c /\ t[4] = d /\ t[5] = e
  OBVIOUS
<1> HIDE DEF t
<1>2. \A i \in 1..Len(t) : i = 1 \/ i = 2 \/ i = 3 \/ i = 4 \/ i = 5
  BY <1>1
<1>3. \A i \in 1..Len(t) : Only(t[i], x)
  BY <1>1, <1>2
<1>4. Does(t, x)
  BY <1>1, <1>3 DEF Does, IsList
<1> QED BY <1>4 DEF t

\* Lemma: a list of seven gates does what they do.
LEMMA List7 ==
    ASSUME NEW x, NEW a, NEW b, NEW c, NEW d, NEW e, NEW f, NEW g,
           Only(a, x), Only(b, x), Only(c, x), Only(d, x), Only(e, x), Only(f, x), Only(g, x)
    PROVE  Does(<< a, b, c, d, e, f, g >>, x)
<1> DEFINE t == << a, b, c, d, e, f, g >>
<1>1. t \in Seq({a, b, c, d, e, f, g}) /\ Len(t) = 7 /\ t[1] = a /\ t[2] = b /\ t[3] = c /\ t[4] = d /\ t[5] = e /\ t[6] = f /\ t[7] = g
  OBVIOUS
<1> HIDE DEF t
<1>2. \A i \in 1..Len(t) : i = 1 \/ i = 2 \/ i = 3 \/ i = 4 \/ i = 5 \/ i = 6 \/ i = 7
  BY <1>1
<1>3. \A i \in 1..Len(t) : Only(t[i], x)
  BY <1>1, <1>2
<1>4. Does(t, x)
  BY <1>1, <1>3 DEF Does, IsList
<1> QED BY <1>4 DEF t

\* Lemma: a list of eight gates does what they do.
LEMMA List8 ==
    ASSUME NEW x, NEW a, NEW b, NEW c, NEW d, NEW e, NEW f, NEW g, NEW h,
           Only(a, x), Only(b, x), Only(c, x), Only(d, x), Only(e, x), Only(f, x), Only(g, x), Only(h, x)
    PROVE  Does(<< a, b, c, d, e, f, g, h >>, x)
<1> DEFINE t == << a, b, c, d, e, f, g, h >>
<1>1. t \in Seq({a, b, c, d, e, f, g, h}) /\ Len(t) = 8 /\ t[1] = a /\ t[2] = b /\ t[3] = c /\ t[4] = d /\ t[5] = e /\ t[6] = f /\ t[7] = g /\ t[8] = h
  OBVIOUS
<1> HIDE DEF t
<1>2. \A i \in 1..Len(t) : i = 1 \/ i = 2 \/ i = 3 \/ i = 4 \/ i = 5 \/ i = 6 \/ i = 7 \/ i = 8
  BY <1>1
<1>3. \A i \in 1..Len(t) : Only(t[i], x)
  BY <1>1, <1>2
<1>4. Does(t, x)
  BY <1>1, <1>3 DEF Does, IsList
<1> QED BY <1>4 DEF t

\* Lemma: what each kind of gate does.
LEMMA GateKinds ==
    /\ \A x, f, n : Only(Leave(f, n), x)
    /\ \A x, f, n, w : Only(Refuse(f, n, w), x)
    /\ \A x, c, n : Only(LeaveIf(c, n), x)
    /\ \A x, c, n, w : Only(RefuseIf(c, n, w), x)
    /\ \A x, b, w : Only(Take(b, w), x)
    /\ \A x : Only(Do(x), x)
    /\ \A x, n : Only(Done(n), x) /\ Done(n).when
<1>1. /\ \A x, f, n : Only(Leave(f, n), x)
      /\ \A x, f, n, w : Only(Refuse(f, n, w), x)
  BY DEF Only, Leave, Refuse, Gate
<1>2. /\ \A x, c, n : Only(LeaveIf(c, n), x)
      /\ \A x, c, n, w : Only(RefuseIf(c, n, w), x)
  BY DEF Only, LeaveIf, RefuseIf, Gate
<1>3. /\ \A x, b, w : Only(Take(b, w), x)
      /\ \A x : Only(Do(x), x)
  BY DEF Only, Take, Do, Gate
<1>4. \A n : Done(n).when
  BY DEF Done, LeaveIf, Gate
<1> QED BY <1>1, <1>2, <1>3, <1>4 DEF Done

\* Lemma: a list joined of two does what they do, and a gate of it that is
\* passed is one of those.
LEMMA DoesJoin ==
    /\ \A s, x : Does(s, x) => IsList(s)
    /\ \A s, x : Does(s, "") => Does(s, x)
    /\ \A s, t, x : Does(s, x) /\ Does(t, x) => Does(s \o t, x)
    /\ \A s, x, y, d, e : Does(s, x) /\ Passes(s, d, e, y) => y = "" \/ y = x
<1>1. \A s, x : Does(s, x) => IsList(s)
  BY DEF Does
<1>2. \A s, x : Does(s, "") => Does(s, x)
  BY DEF Does, Only
<1>3. ASSUME NEW s, NEW t, NEW x, Does(s, x), Does(t, x) PROVE Does(s \o t, x)
  <2>1. IsList(s) /\ IsList(t) /\ IsList(s \o t)
    BY <1>3, Joined DEF Does
  <2>2. PICK S, T : s \in Seq(S) /\ t \in Seq(T)
    BY <2>1 DEF IsList
  <2>3. s \in Seq(S \cup T) /\ t \in Seq(S \cup T)
    BY <2>2, SeqMonotonic
  <2>4. /\ Len(s \o t) = Len(s) + Len(t) /\ Len(s) \in Nat /\ Len(t) \in Nat
        /\ \A i \in 1..(Len(s) + Len(t)) : (s \o t)[i] = IF i <= Len(s) THEN s[i] ELSE t[i - Len(s)]
    BY <2>3, ConcatProperties, LenProperties
  <2>5. ASSUME NEW i \in 1..Len(s \o t) PROVE Only((s \o t)[i], x)
    <3>1. CASE i <= Len(s)
      <4>1. (s \o t)[i] = s[i] /\ i \in 1..Len(s)
        BY <2>4, <3>1
      <4> QED BY <1>3, <4>1 DEF Does
    <3>2. CASE ~(i <= Len(s))
      <4>1. (s \o t)[i] = t[i - Len(s)] /\ i - Len(s) \in 1..Len(t)
        BY <2>4, <3>2
      <4> QED BY <1>3, <4>1 DEF Does
    <3> QED BY <3>1, <3>2
  <2> QED BY <2>1, <2>5 DEF Does
<1>4. \A s, x, y, d, e : Does(s, x) /\ Passes(s, d, e, y) => y = "" \/ y = x
  BY DEF Does, Passes, Only
<1> QED BY <1>1, <1>2, <1>3, <1>4

(***************************************************************************)
(* The surfaces of HTTP.                                                   *)
(***************************************************************************)

HttpEnv == [level |-> Buckets]

\* What nobody does who was revoked.
Guarded == {"task", "list", "audit", "bodies", "turn", "push"}

\* The caller is verified.
Known(d) == d.flaws \cap Unverified = {}

\* A list that verifies the caller before it does anything; and one that says
\* nothing, and that only who is not revoked passes.
Opens(s, d) ==
    /\ Clear(s, d, HttpEnv) => Known(d)
    /\ \A x : x # "" /\ Passes(s, d, HttpEnv, x) => Known(d)
Admits(s, d) == Does(s, "") /\ (Clear(s, d, HttpEnv) => d.by \notin revoked)

\* The caller may do x.
May(d, x) ==
    /\ x \in Guarded => d.by \notin revoked
    /\ x = "task" => Access(d.by, d.id) # "none"

\* A list that does only what the caller may do; and only if it is verified.
Entitled(s, d) ==
    /\ IsList(s) /\ Ends(s, d, HttpEnv)
    /\ \A x : x # "" /\ Passes(s, d, HttpEnv, x) => May(d, x)
Sound(s, d) == Entitled(s, d) /\ Opens(s, d)

\* Lemma: lists that verify the caller, or keep the revoked out, joined.
LEMMA OpensJoin ==
    ASSUME NEW s, NEW t, NEW d, IsList(s), IsList(t)
    PROVE  /\ Opens(s, d) => Opens(s \o t, d)
           /\ Does(s, "") /\ Opens(t, d) => Opens(s \o t, d)
           /\ Does(s, "") /\ Admits(t, d) => Admits(s \o t, d)
<1>1. Opens(s, d) => Opens(s \o t, d)
  BY Joined DEF Opens
<1>2. Does(s, "") /\ Opens(t, d) => Opens(s \o t, d)
  BY Joined, DoesJoin DEF Opens
<1>3. Does(s, "") /\ Admits(t, d) => Admits(s \o t, d)
  BY Joined, DoesJoin DEF Admits
<1> QED BY <1>1, <1>2, <1>3

\* Lemma: what a request is about, after gates that let only those through who
\* may do it.
LEMMA EntitledTail ==
    ASSUME NEW s, Does(s, ""), NEW d, NEW x, NEW t, Does(t, x), Ends(t, d, HttpEnv),
           Clear(s, d, HttpEnv) => May(d, x)
    PROVE  Entitled(s \o t, d)
<1>1. IsList(s) /\ IsList(t)
  BY DoesJoin
<1>2. ASSUME NEW y, y # "", Passes(s \o t, d, HttpEnv, y)
      PROVE  May(d, y)
  <2>1. ~Passes(s, d, HttpEnv, y)
    BY <1>2, DoesJoin
  <2>2. Clear(s, d, HttpEnv) /\ Passes(t, d, HttpEnv, y)
    BY <1>1, <1>2, <2>1, Joined
  <2>3. y = x
    BY <1>2, <2>2, DoesJoin
  <2> QED BY <2>2, <2>3
<1> QED BY <1>1, <1>2, Joined DEF Entitled

\* Lemma: gates before what a request is about.
LEMMA EntitledJoin ==
    ASSUME NEW s, NEW x, x \notin Guarded, Does(s, x), NEW t, NEW d, Entitled(t, d)
    PROVE  Entitled(s \o t, d)
<1>1. IsList(s) /\ IsList(t)
  BY DoesJoin DEF Entitled
<1>2. IsList(s \o t) /\ Ends(s \o t, d, HttpEnv)
  BY <1>1, Joined DEF Entitled
<1>3. ASSUME NEW y, y # "", Passes(s \o t, d, HttpEnv, y)
      PROVE  May(d, y)
  <2>1. CASE Passes(s, d, HttpEnv, y)
    <3>1. y = x
      BY <1>3, <2>1, DoesJoin
    <3> QED BY <3>1 DEF May, Guarded
  <2>2. CASE Passes(t, d, HttpEnv, y)
    BY <1>3, <2>2 DEF Entitled
  <2> QED BY <1>1, <1>3, <2>1, <2>2, Joined
<1> QED BY <1>2, <1>3 DEF Entitled

\* Lemma: lists that end.
LEMMA EndLists ==
    ASSUME NEW d, NEW e
    PROVE  /\ \A n : Ends(<< LeaveIf(TRUE, n) >>, d, e)
           /\ \A n, w : Ends(<< RefuseIf(TRUE, n, w) >>, d, e)
           /\ \A a, n : Ends(<< a, Done(n) >>, d, e)
           /\ \A a, b, n : Ends(<< a, b, Done(n) >>, d, e)
           /\ \A a, b, c, f, g, h, i, n : Ends(<< a, b, c, f, g, h, i, Done(n) >>, d, e)
<1>1. ASSUME NEW g, g.when, NEW t, NEW n \in 1..Len(t), t[n] = g PROVE Ends(t, d, e)
  BY <1>1 DEF Ends, Fails
<1>2. /\ \A n : LeaveIf(TRUE, n).when
      /\ \A n, w : RefuseIf(TRUE, n, w).when
      /\ \A n : Done(n).when
  BY DEF LeaveIf, RefuseIf, Done, Gate
<1>3. ASSUME NEW g PROVE 1 \in 1..Len(<< g >>) /\ << g >>[1] = g
  OBVIOUS
<1>4. ASSUME NEW a, NEW g PROVE 2 \in 1..Len(<< a, g >>) /\ << a, g >>[2] = g
  OBVIOUS
<1>5. ASSUME NEW a, NEW b, NEW g PROVE 3 \in 1..Len(<< a, b, g >>) /\ << a, b, g >>[3] = g
  OBVIOUS
<1>6. ASSUME NEW a, NEW b, NEW c, NEW f, NEW i, NEW j, NEW h, NEW g
      PROVE  8 \in 1..Len(<< a, b, c, f, i, j, h, g >>) /\ << a, b, c, f, i, j, h, g >>[8] = g
  OBVIOUS
<1>7. \A n : Ends(<< LeaveIf(TRUE, n) >>, d, e)
  BY <1>1, <1>2, <1>3
<1>8. \A n, w : Ends(<< RefuseIf(TRUE, n, w) >>, d, e)
  BY <1>1, <1>2, <1>3
<1>9. \A a, n : Ends(<< a, Done(n) >>, d, e)
  BY <1>1, <1>2, <1>4
<1>10. \A a, b, n : Ends(<< a, b, Done(n) >>, d, e)
  BY <1>1, <1>2, <1>5
<1>11. \A a, b, c, f, g, h, i, n : Ends(<< a, b, c, f, g, h, i, Done(n) >>, d, e)
  BY <1>1, <1>2, <1>6
<1> QED BY <1>7, <1>8, <1>9, <1>10, <1>11

\* Lemma: the first gates of every surface.
LEMMA FirstGates ==
    ASSUME NEW d
    PROVE  /\ Does(Verified, "") /\ Opens(Verified, d) /\ Does(VerifiedOr401, "") /\ Opens(VerifiedOr401, d)
           /\ Admits(NotRevoked(d), d) /\ Admits(ReaderNotRevoked(d), d) /\ Admits(Readable(d), d)
           /\ Clear(Readable(d), d, HttpEnv) => Access(d.by, d.id) # "none"
<1>1. ASSUME NEW n PROVE Does(VerifiedOr(n), "")
  <2> DEFINE a == Refuse("bearer", 401, Anon)
             b == Refuse("issuer", 401, Anon)
             c == Refuse("token", 401, Anon)
             f == Refuse("scope", 403, Anon)
             g == Refuse("jwks", n, Anon)
  <2>1. Only(a, "") /\ Only(b, "") /\ Only(c, "") /\ Only(f, "") /\ Only(g, "")
    BY DEF Only, Refuse, Gate
  <2>2. VerifiedOr(n) = << a, b, c, f, g >>
    BY DEF VerifiedOr
  <2> HIDE DEF a, b, c, f, g
  <2> QED BY <2>1, <2>2, List5
<1>2. ASSUME NEW n PROVE Opens(VerifiedOr(n), d)
  <2> DEFINE s == VerifiedOr(n)
  <2>1. /\ Len(s) = 5 /\ s[1].flaw = "bearer" /\ s[2].flaw = "issuer" /\ s[3].flaw = "token"
        /\ s[4].flaw = "scope" /\ s[5].flaw = "jwks"
    BY DEF VerifiedOr, Refuse, Gate
  <2>2. Does(s, "")
    BY <1>1
  <2> HIDE DEF s
  <2>3. Clear(s, d, HttpEnv) => \A i \in 1..5 : s[i].flaw \notin d.flaws
    BY <2>1 DEF Clear, Fails
  <2>4. 1 \in 1..5 /\ 2 \in 1..5 /\ 3 \in 1..5 /\ 4 \in 1..5 /\ 5 \in 1..5
    OBVIOUS
  <2>5. Clear(s, d, HttpEnv) => Known(d)
    BY <2>1, <2>3, <2>4 DEF Known, Unverified
  <2>6. Opens(s, d)
    BY <2>2, <2>5, DoesJoin DEF Opens
  <2> QED BY <2>6 DEF s
<1>3. ASSUME NEW n
      PROVE  Admits(<< RefuseIf(d.by \in revoked, n, Sub) >>, d)
  <2> DEFINE g == RefuseIf(d.by \in revoked, n, Sub)
             s == << g >>
  <2>1. g.when = (d.by \in revoked)
    BY DEF RefuseIf, Gate
  <2>2. Does(s, "")
    BY GateKinds, List1
  <2> HIDE DEF g
  <2>3. 1 \in 1..Len(s) /\ s[1] = g
    OBVIOUS
  <2> HIDE DEF s
  <2>4. Clear(s, d, HttpEnv) => ~Fails(g, d, HttpEnv)
    BY <2>3 DEF Clear
  <2>5. Admits(s, d)
    BY <2>1, <2>2, <2>4 DEF Admits, Fails
  <2> QED BY <2>5 DEF s, g
<1>4. Admits(NotRevoked(d), d) /\ Admits(ReaderNotRevoked(d), d)
  BY <1>3 DEF NotRevoked, ReaderNotRevoked
<1>5. Admits(Readable(d), d) /\ (Clear(Readable(d), d, HttpEnv) => Access(d.by, d.id) # "none")
  <2> DEFINE g == LeaveIf(Access(d.by, d.id) = "none", 404)
             s == << Leave("noId", 400), g >>
  <2>1. g.when = (Access(d.by, d.id) = "none")
    BY DEF LeaveIf, Gate
  <2>2. Readable(d) = s \o ReaderNotRevoked(d)
    BY DEF Readable
  <2>3. Does(s, "")
    <3>1. Only(Leave("noId", 400), "") /\ Only(g, "")
      BY DEF Only, Leave, LeaveIf, Gate
    <3> HIDE DEF g
    <3> QED BY <3>1, List2
  <2> HIDE DEF g
  <2>4. 2 \in 1..Len(s) /\ s[2] = g
    OBVIOUS
  <2> HIDE DEF s
  <2>5. IsList(s) /\ IsList(ReaderNotRevoked(d))
    BY <1>4, <2>3, DoesJoin DEF Admits
  <2>6. Clear(s, d, HttpEnv) => ~Fails(g, d, HttpEnv)
    BY <2>4 DEF Clear
  <2>7. Clear(s, d, HttpEnv) => Access(d.by, d.id) # "none"
    BY <2>1, <2>6 DEF Fails
  <2>8. Clear(Readable(d), d, HttpEnv) => Clear(s, d, HttpEnv)
    BY <2>2, <2>5, Joined
  <2>9. Admits(Readable(d), d)
    BY <1>4, <2>2, <2>3, <2>5, OpensJoin
  <2> QED BY <2>7, <2>8, <2>9
<1> QED BY <1>1, <1>2, <1>4, <1>5 DEF Verified, VerifiedOr401

\* Lemma: a handler that only dispatches is entitled to.
LEMMA DispatchedEntitled == ASSUME NEW d PROVE Entitled(Dispatched(d), d)
<1> DEFINE t == << Do("turn"), Done(200) >>
<1>1. Does(t, "turn") /\ Ends(t, d, HttpEnv)
  <2>1. Only(Do("turn"), "turn") /\ Only(Done(200), "turn")
    BY DEF Only, Do, Done, LeaveIf, Gate
  <2> QED BY <2>1, List2, EndLists
<1>2. Dispatched(d) = NotRevoked(d) \o t
  BY DEF Dispatched
<1> HIDE DEF t
<1>3. Clear(NotRevoked(d), d, HttpEnv) => May(d, "turn")
  BY FirstGates DEF Admits, May
<1> QED BY <1>1, <1>2, <1>3, EntitledTail, FirstGates DEF Admits

\* Lemma: what a request does that reads something, or shows a page.
LEMMA Reading ==
    ASSUME NEW s, NEW d, Does(s, ""), Opens(s, d), NEW x, NEW n, Clear(s, d, HttpEnv) => May(d, x)
    PROVE  Sound(s \o << Do(x), Done(n) >>, d)
<1> DEFINE t == << Do(x), Done(n) >>
<1>1. Does(t, x) /\ Ends(t, d, HttpEnv)
  <2>1. Only(Do(x), x) /\ Only(Done(n), x)
    BY DEF Only, Do, Done, LeaveIf, Gate
  <2> QED BY <2>1, List2, EndLists
<1> HIDE DEF t
<1>2. Entitled(s \o t, d)
  BY <1>1, EntitledTail
<1>3. Opens(s \o t, d)
  BY <1>1, OpensJoin, DoesJoin
<1>4. Sound(s \o t, d)
  BY <1>2, <1>3 DEF Sound
<1> QED BY <1>4 DEF t

\* Lemma: a request that comes to the dispatcher, or to something else the
\* caller is entitled to, after gates that verify it.
LEMMA Reaching ==
    ASSUME NEW s, NEW d, NEW x, x \notin Guarded, Does(s, x), Opens(s, d), NEW t, Entitled(t, d)
    PROVE  Sound(s \o t, d)
<1>1. IsList(s) /\ IsList(t)
  BY DoesJoin DEF Entitled
<1> QED BY <1>1, EntitledJoin, OpensJoin DEF Sound

\* Lemma: every request of the REST surface is sound.
LEMMA RestSound == ASSUME NEW d PROVE Sound(RestRequest(d), d)
<1>1. Sound(InvokeTool(d), d)
  <2> DEFINE s == << Refuse("accept", 400, Anon) >>
  <2>1. Does(s, "")
    <3>1. Only(Refuse("accept", 400, Anon), "")
      BY DEF Only, Refuse, Gate
    <3> QED BY <3>1, List1
  <2>2. InvokeTool(d) = s \o Verified \o Dispatched(d)
    BY DEF InvokeTool
  <2> HIDE DEF s
  <2>3. Does(s \o Verified, "") /\ Opens(s \o Verified, d)
    BY <2>1, FirstGates, OpensJoin, DoesJoin
  <2> QED BY <2>2, <2>3, Reaching, DispatchedEntitled DEF Guarded
<1>2. /\ Does(Verified \o NotRevoked(d), "") /\ Opens(Verified \o NotRevoked(d), d)
      /\ \A x : Clear(Verified \o NotRevoked(d), d, HttpEnv) /\ x # "task" => May(d, x)
  <2>1. Does(NotRevoked(d), "")
    BY FirstGates DEF Admits
  <2>2. Does(Verified \o NotRevoked(d), "") /\ Opens(Verified \o NotRevoked(d), d)
    BY <2>1, FirstGates, OpensJoin, DoesJoin
  <2>3. Admits(Verified \o NotRevoked(d), d)
    BY <2>1, FirstGates, OpensJoin, DoesJoin
  <2> QED BY <2>2, <2>3 DEF Admits, May
<1>3. Sound(AuditTail(d), d)
  BY <1>2, Reading DEF AuditTail
<1>4. Sound(TraceView(d), d)
  <2> DEFINE x == IF MayReadTrace(d.by, d.id) THEN "bodies" ELSE "audit"
  <2>1. x # "task"
    OBVIOUS
  <2>2. TraceView(d) = Verified \o NotRevoked(d) \o << Do(x), Done(200) >>
    BY DEF TraceView
  <2> HIDE DEF x
  <2> QED BY <1>2, <2>1, <2>2, Reading
<1>5. Sound(PlainView, d)
  <2>1. May(d, "view")
    BY DEF May, Guarded
  <2> QED BY <2>1, FirstGates, Reading DEF PlainView
<1>6. Sound(SurfaceRender, d)
  <2> DEFINE s == << Leave("body", 422) >>
             t == << Leave("adapter", 400), Leave("surface", 400), Done(200) >>
  <2>1. Does(s, "")
    <3>1. Only(Leave("body", 422), "")
      BY DEF Only, Leave, Gate
    <3> QED BY <3>1, List1
  <2>2. Does(t, "") /\ Ends(t, d, HttpEnv)
    <3>1. Only(Leave("adapter", 400), "") /\ Only(Leave("surface", 400), "") /\ Only(Done(200), "")
      BY DEF Only, Leave, Done, LeaveIf, Gate
    <3>2. Does(t, "")
      BY <3>1, List3, Zenon
    <3>3. \A a, b : Ends(<< a, b, Done(200) >>, d, HttpEnv)
      BY EndLists
    <3> QED BY <3>2, <3>3
  <2>3. SurfaceRender = s \o Verified \o t
    BY DEF SurfaceRender
  <2> HIDE DEF s, t
  <2>4. Does(s \o Verified, "") /\ Opens(s \o Verified, d)
    BY <2>1, FirstGates, OpensJoin, DoesJoin
  <2>5. May(d, "")
    BY DEF May, Guarded
  <2>6. Entitled(s \o Verified \o t, d)
    BY <2>2, <2>4, <2>5, EntitledTail
  <2> QED BY <2>2, <2>3, <2>4, <2>6, OpensJoin, DoesJoin DEF Sound
<1> QED BY <1>1, <1>3, <1>4, <1>5, <1>6 DEF RestRequest

\* Lemma: a list that ends is entitled to what it does, if nobody is kept from
\* that.
LEMMA Harmless ==
    ASSUME NEW t, NEW d, NEW x, x \notin Guarded, Does(t, x), Ends(t, d, HttpEnv)
    PROVE  Entitled(t, d)
BY DoesJoin DEF Entitled, May, Guarded

\* Lemma: every request of the MCP surface is sound.
LEMMA McpSound == ASSUME NEW d PROVE Sound(McpRequest(d), d)
<1> DEFINE allowed == << Refuse("directory", 401, Anon), Refuse("routeScope", 403, Anon) >>
           parsed == << Refuse("json", 400, Anon), Refuse("object", 200, Anon),
                        Refuse("jsonrpc", 200, Anon), Refuse("noMethod", 200, Anon) >>
           era == << Refuse("mismatch", 400, Sub), Refuse("version", 400, Sub), Refuse("method", 400, Sub) >>
           told == << Leave("notification", 202) >>
           named == << Leave("noName", 400), Leave("a2ui", 400) >>
           located == << Leave("noUri", 400), Leave("ownPage", 200) >>
           noted == << Leave("noUri", 400), Leave("noRecord", 400) >>
           begun == << Leave("protocol", 400), Do("session"), Done(200) >>
           listed == << Do("view"), Done(200) >>
           unknown == << RefuseIf(TRUE, 404, Sub) >>
<1>1. Does(allowed, "")
  <2> DEFINE a == Refuse("directory", 401, Anon)
             b == Refuse("routeScope", 403, Anon)
  <2>1. Only(a, "") /\ Only(b, "")
    BY DEF Only, Refuse, Gate
  <2>2. allowed = << a, b >>
    OBVIOUS
  <2> HIDE DEF a, b, allowed
  <2> QED BY <2>1, <2>2, List2
<1>2. Does(parsed, "")
  <2> DEFINE a == Refuse("json", 400, Anon)
             b == Refuse("object", 200, Anon)
             c == Refuse("jsonrpc", 200, Anon)
             f == Refuse("noMethod", 200, Anon)
  <2>1. Only(a, "") /\ Only(b, "") /\ Only(c, "") /\ Only(f, "")
    BY DEF Only, Refuse, Gate
  <2>2. parsed = << a, b, c, f >>
    OBVIOUS
  <2> HIDE DEF a, b, c, f, parsed
  <2> QED BY <2>1, <2>2, List4
<1>3. Does(era, "")
  <2> DEFINE a == Refuse("mismatch", 400, Sub)
             b == Refuse("version", 400, Sub)
             c == Refuse("method", 400, Sub)
  <2>1. Only(a, "") /\ Only(b, "") /\ Only(c, "")
    BY DEF Only, Refuse, Gate
  <2>2. era = << a, b, c >>
    OBVIOUS
  <2> HIDE DEF a, b, c, era
  <2> QED BY <2>1, <2>2, List3
<1>4. Does(told, "")
  <2> DEFINE a == Leave("notification", 202)
  <2>1. Only(a, "")
    BY DEF Only, Leave, Gate
  <2>2. told = << a >>
    OBVIOUS
  <2> HIDE DEF a, told
  <2> QED BY <2>1, <2>2, List1
<1>5. Does(named, "")
  <2> DEFINE a == Leave("noName", 400)
             b == Leave("a2ui", 400)
  <2>1. Only(a, "") /\ Only(b, "")
    BY DEF Only, Leave, Gate
  <2>2. named = << a, b >>
    OBVIOUS
  <2> HIDE DEF a, b, named
  <2> QED BY <2>1, <2>2, List2
<1>6. Does(located, "")
  <2> DEFINE a == Leave("noUri", 400)
             b == Leave("ownPage", 200)
  <2>1. Only(a, "") /\ Only(b, "")
    BY DEF Only, Leave, Gate
  <2>2. located = << a, b >>
    OBVIOUS
  <2> HIDE DEF a, b, located
  <2> QED BY <2>1, <2>2, List2
<1>7. Does(noted, "")
  <2> DEFINE a == Leave("noUri", 400)
             b == Leave("noRecord", 400)
  <2>1. Only(a, "") /\ Only(b, "")
    BY DEF Only, Leave, Gate
  <2>2. noted = << a, b >>
    OBVIOUS
  <2> HIDE DEF a, b, noted
  <2> QED BY <2>1, <2>2, List2
<1>8. Does(begun, "session")
  <2> DEFINE a == Leave("protocol", 400)
             b == Do("session")
             c == Done(200)
  <2>1. Only(a, "session") /\ Only(b, "session") /\ Only(c, "session")
    BY DEF Only, Leave, Do, Done, LeaveIf, Gate
  <2>2. begun = << a, b, c >>
    OBVIOUS
  <2> HIDE DEF a, b, c, begun
  <2> QED BY <2>1, <2>2, List3
<1>9. Does(listed, "view")
  <2> DEFINE a == Do("view")
             b == Done(200)
  <2>1. Only(a, "view") /\ Only(b, "view")
    BY DEF Only, Do, Done, LeaveIf, Gate
  <2>2. listed = << a, b >>
    OBVIOUS
  <2> HIDE DEF a, b, listed
  <2> QED BY <2>1, <2>2, List2
<1>10. Does(unknown, "")
  <2> DEFINE a == RefuseIf(TRUE, 404, Sub)
  <2>1. Only(a, "")
    BY DEF Only, RefuseIf, Gate
  <2>2. unknown = << a >>
    OBVIOUS
  <2> HIDE DEF a, unknown
  <2> QED BY <2>1, <2>2, List1
<1>11. Ends(begun, d, HttpEnv) /\ Ends(listed, d, HttpEnv) /\ Ends(unknown, d, HttpEnv)
  <2>1. Ends(begun, d, HttpEnv)
    <3>1. \A a, b : Ends(<< a, b, Done(200) >>, d, HttpEnv)
      BY EndLists
    <3> QED BY <3>1, Zenon
  <2>2. Ends(listed, d, HttpEnv)
    BY EndLists, Zenon
  <2>3. Ends(unknown, d, HttpEnv)
    BY EndLists, Zenon
  <2> QED BY <2>1, <2>2, <2>3
<1>12. /\ Admitted = allowed /\ Era = era
       /\ ToolsCall(d) = named \o Dispatched(d) /\ ResourcesRead(d) = located \o Dispatched(d)
       /\ UpdateModelContext(d) = noted \o Dispatched(d) /\ McpInitialize = begun
  BY DEF Admitted, Era, ToolsCall, ResourcesRead, UpdateModelContext, McpInitialize
<1> DEFINE s == VerifiedOr401 \o Admitted \o parsed \o Era \o told
           t == CASE d.kind = "call" -> ToolsCall(d) [] d.kind = "read" -> ResourcesRead(d)
                  [] d.kind = "context" -> UpdateModelContext(d)
                  [] d.kind = "initialize" -> McpInitialize
                  [] d.kind = "list" -> listed [] OTHER -> unknown
<1>13. McpRequest(d) = s \o t
  BY DEF McpRequest
<1> HIDE DEF allowed, parsed, era, told, named, located, noted, begun, listed, unknown
<1>14. Entitled(t, d)
  <2>1. "" \notin Guarded /\ "session" \notin Guarded /\ "view" \notin Guarded
    BY DEF Guarded
  <2>2. Entitled(begun, d) /\ Entitled(listed, d) /\ Entitled(unknown, d)
    BY <1>8, <1>9, <1>10, <1>11, <2>1, Harmless
  <2>3. Entitled(ToolsCall(d), d)
    <3>1. Entitled(named \o Dispatched(d), d)
      BY <1>5, <2>1, EntitledJoin, DispatchedEntitled
    <3> QED BY <1>12, <3>1, Zenon
  <2>4. Entitled(ResourcesRead(d), d)
    <3>1. Entitled(located \o Dispatched(d), d)
      BY <1>6, <2>1, EntitledJoin, DispatchedEntitled
    <3> QED BY <1>12, <3>1, Zenon
  <2>5. Entitled(UpdateModelContext(d), d)
    <3>1. Entitled(noted \o Dispatched(d), d)
      BY <1>7, <2>1, EntitledJoin, DispatchedEntitled
    <3> QED BY <1>12, <3>1, Zenon
  <2> QED BY <1>12, <2>2, <2>3, <2>4, <2>5
<1> HIDE DEF t
<1>15. Does(s, "") /\ Opens(s, d)
  <2>1. Does(VerifiedOr401 \o Admitted, "") /\ Opens(VerifiedOr401 \o Admitted, d)
    BY <1>1, <1>12, FirstGates, OpensJoin, DoesJoin
  <2>2. Does(VerifiedOr401 \o Admitted \o parsed, "") /\ Opens(VerifiedOr401 \o Admitted \o parsed, d)
    BY <1>2, <2>1, OpensJoin, DoesJoin
  <2>3. Does(VerifiedOr401 \o Admitted \o parsed \o Era, "") /\ Opens(VerifiedOr401 \o Admitted \o parsed \o Era, d)
    BY <1>3, <1>12, <2>2, OpensJoin, DoesJoin
  <2> QED BY <1>4, <2>3, OpensJoin, DoesJoin
<1> HIDE DEF s
<1> QED BY <1>13, <1>14, <1>15, Reaching DEF Guarded

\* Lemma: message:send is sound, and leaves its record before the dispatcher
\* looks.
LEMMA MessageSendSound == ASSUME NEW d PROVE Sound(MessageSend(d), d)
<1> DEFINE s == << Refuse("body", 400, Sub), Refuse("a2ui", 400, Sub), Refuse("noPart", 400, Sub), Do("record") >>
<1>1. Does(s, "record")
  <2> DEFINE a == Refuse("body", 400, Sub)
             b == Refuse("a2ui", 400, Sub)
             c == Refuse("noPart", 400, Sub)
             f == Do("record")
  <2>1. Only(a, "record") /\ Only(b, "record") /\ Only(c, "record") /\ Only(f, "record")
    BY DEF Only, Refuse, Do, Gate
  <2>2. s = << a, b, c, f >>
    OBVIOUS
  <2> HIDE DEF a, b, c, f, s
  <2> QED BY <2>1, <2>2, List4
<1>2. MessageSend(d) = Verified \o s \o Dispatched(d)
  BY DEF MessageSend
<1> HIDE DEF s
<1>3. Does(Verified \o s, "record") /\ Opens(Verified \o s, d)
  <2>1. Does(Verified, "record") /\ IsList(Verified) /\ IsList(s)
    BY <1>1, FirstGates, DoesJoin
  <2> QED BY <1>1, <2>1, FirstGates, OpensJoin, DoesJoin
<1>4. Sound(Verified \o s \o Dispatched(d), d)
  BY <1>3, Reaching, DispatchedEntitled DEF Guarded
<1> QED BY <1>2, <1>4, Zenon

\* Lemma: sending a message is entitled to what it does, in either version.
LEMMA SendEntitled == ASSUME NEW d PROVE Entitled(V03Send(d), d) /\ Entitled(V10Send(d), d)
<1> DEFINE said == << Leave("noText", 400), Leave("incomplete", 200), Leave("blank", 200) >>
           owned == << Do("own") >>
           parsed == << Leave("noMessage", 400), Leave("noMessageId", 400), Leave("role", 400), Leave("context", 400),
                        Leave("noParts", 400), Leave("incomplete", 400), Leave("noText", 400) >>
           continued == << LeaveIf("taskId" \in d.flaws /\ Access(d.by, d.id) = "none", 404),
                           RefuseIf("taskId" \in d.flaws /\ d.by \in revoked, 500, Sub),
                           Leave("taskId", 400) >>
           begun == << Leave("blank", 200), Do("own") >>
<1>1. Does(said, "")
  <2> DEFINE a == Leave("noText", 400)
             b == Leave("incomplete", 200)
             c == Leave("blank", 200)
  <2>1. Only(a, "") /\ Only(b, "") /\ Only(c, "")
    BY DEF Only, Leave, Gate
  <2>2. said = << a, b, c >>
    OBVIOUS
  <2> HIDE DEF a, b, c, said
  <2> QED BY <2>1, <2>2, List3
<1>2. Does(owned, "own")
  <2> DEFINE a == Do("own")
  <2>1. Only(a, "own")
    BY DEF Only, Do, Gate
  <2>2. owned = << a >>
    OBVIOUS
  <2> HIDE DEF a, owned
  <2> QED BY <2>1, <2>2, List1
<1>3. Does(parsed, "")
  <2> DEFINE a == Leave("noMessage", 400)
             b == Leave("noMessageId", 400)
             c == Leave("role", 400)
             f == Leave("context", 400)
             g == Leave("noParts", 400)
             h == Leave("incomplete", 400)
             i == Leave("noText", 400)
  <2>1. Only(a, "") /\ Only(b, "") /\ Only(c, "") /\ Only(f, "") /\ Only(g, "") /\ Only(h, "") /\ Only(i, "")
    BY DEF Only, Leave, Gate
  <2>2. parsed = << a, b, c, f, g, h, i >>
    OBVIOUS
  <2> HIDE DEF a, b, c, f, g, h, i, parsed
  <2> QED BY <2>1, <2>2, List7
<1>4. Does(continued, "")
  <2> DEFINE a == LeaveIf("taskId" \in d.flaws /\ Access(d.by, d.id) = "none", 404)
             b == RefuseIf("taskId" \in d.flaws /\ d.by \in revoked, 500, Sub)
             c == Leave("taskId", 400)
  <2>1. Only(a, "") /\ Only(b, "") /\ Only(c, "")
    BY DEF Only, Leave, LeaveIf, RefuseIf, Gate
  <2>2. continued = << a, b, c >>
    OBVIOUS
  <2> HIDE DEF a, b, c, continued
  <2> QED BY <2>1, <2>2, List3
<1>5. Does(begun, "own")
  <2> DEFINE a == Leave("blank", 200)
             b == Do("own")
  <2>1. Only(a, "own") /\ Only(b, "own")
    BY DEF Only, Leave, Do, Gate
  <2>2. begun = << a, b >>
    OBVIOUS
  <2> HIDE DEF a, b, begun
  <2> QED BY <2>1, <2>2, List2
<1>6. TextFromParams = said /\ ParseSend = parsed /\ RefuseContinuation(d) = continued
  BY DEF TextFromParams, ParseSend, RefuseContinuation
<1>7. V03Send(d) = TextFromParams \o owned \o Dispatched(d)
  BY DEF V03Send
<1>8. V10Send(d) = ParseSend \o RefuseContinuation(d) \o begun \o Dispatched(d)
  BY DEF V10Send
<1> HIDE DEF said, owned, parsed, continued, begun
<1>9. "own" \notin Guarded
  BY DEF Guarded
<1>10. Entitled(V03Send(d), d)
  <2>1. Does(said \o owned, "own")
    BY <1>1, <1>2, DoesJoin
  <2>2. Entitled(said \o owned \o Dispatched(d), d)
    BY <1>9, <2>1, EntitledJoin, DispatchedEntitled
  <2> QED BY <1>6, <1>7, <2>2, Zenon
<1>11. Entitled(V10Send(d), d)
  <2>1. Does(parsed \o continued, "own")
    BY <1>3, <1>4, DoesJoin
  <2>2. Does(parsed \o continued \o begun, "own")
    BY <1>5, <2>1, DoesJoin
  <2>3. Entitled(parsed \o continued \o begun \o Dispatched(d), d)
    BY <1>9, <2>2, EntitledJoin, DispatchedEntitled
  <2> QED BY <1>6, <1>8, <2>3, Zenon
<1> QED BY <1>10, <1>11

\* Lemma: opening a document is entitled to what it does.
LEMMA OpenEntitled == ASSUME NEW d PROVE Entitled(V03Open(d), d)
<1> DEFINE linked == << Leave("link", 200) >>
           recorded == << Do("record") >>
           live == << RefuseIf(d.by \in revoked, 200, Sub) >>
           run == << Do("turn"), Done(200) >>
           only == << Do("record"), Done(200) >>
<1>1. Does(linked, "") /\ Does(recorded, "record")
  <2>1. Only(Leave("link", 200), "") /\ Only(Do("record"), "record")
    BY DEF Only, Leave, Do, Gate
  <2> QED BY <2>1, List1
<1>2. Does(run, "turn") /\ Ends(run, d, HttpEnv) /\ Does(only, "record") /\ Ends(only, d, HttpEnv)
  <2>1. /\ Only(Do("turn"), "turn") /\ Only(Done(200), "turn")
        /\ Only(Do("record"), "record") /\ Only(Done(200), "record")
    BY DEF Only, Do, Done, LeaveIf, Gate
  <2> QED BY <2>1, List2, EndLists
<1>3. Admits(live, d)
  <2> DEFINE g == RefuseIf(d.by \in revoked, 200, Sub)
             s == << g >>
  <2>1. g.when = (d.by \in revoked)
    BY DEF RefuseIf, Gate
  <2>2. Does(s, "")
    BY GateKinds, List1
  <2> HIDE DEF g
  <2>3. 1 \in 1..Len(s) /\ s[1] = g
    OBVIOUS
  <2> HIDE DEF s
  <2>4. Clear(s, d, HttpEnv) => ~Fails(g, d, HttpEnv)
    BY <2>3 DEF Clear
  <2>5. Admits(s, d)
    BY <2>1, <2>2, <2>4 DEF Admits, Fails
  <2> QED BY <2>5 DEF s, g
<1>4. DocOpenParts(d) = live \o run
  <2> DEFINE a == RefuseIf(d.by \in revoked, 200, Sub)
             b == Do("turn")
             c == Done(200)
  <2>1. live = << a >> /\ run = << b, c >> /\ DocOpenParts(d) = << a, b, c >>
    BY DEF DocOpenParts
  <2> HIDE DEF a, b, c, live, run
  <2> QED BY <2>1
<1>5. V03Open(d) \in {linked \o DocOpenParts(d), recorded \o DocOpenParts(d), only}
  BY DEF V03Open
<1> HIDE DEF linked, recorded, live, run, only
<1>6. Entitled(live \o run, d)
  <2>1. Clear(live, d, HttpEnv) => May(d, "turn")
    BY <1>3 DEF Admits, May
  <2> QED BY <1>2, <1>3, <2>1, EntitledTail DEF Admits
<1>7. "" \notin Guarded /\ "record" \notin Guarded
  BY DEF Guarded
<1>8. Entitled(linked \o DocOpenParts(d), d) /\ Entitled(recorded \o DocOpenParts(d), d)
  BY <1>1, <1>4, <1>6, <1>7, EntitledJoin
<1>9. Entitled(only, d)
  BY <1>2, <1>7, Harmless
<1> QED BY <1>5, <1>8, <1>9

\* Lemma: what is done with a task, or with the list of them, is entitled to.
LEMMA TaskEntitled ==
    ASSUME NEW d
    PROVE  /\ Entitled(GetTask(d), d) /\ Entitled(SubscribeTask(d), d) /\ Entitled(CancelTask(d), d)
           /\ Entitled(ListTasks(d), d)
<1> DEFINE got == << Do("task"), Done(200) >>
           followed == << Leave("finished", 400), Do("task"), Done(200) >>
           refused == << LeaveIf(TRUE, 409) >>
           asked == << Leave("pageSize", 400), Leave("pageToken", 400), Leave("status", 400),
                       Leave("artifacts", 400), Leave("after", 400) >>
           listed == << Do("list"), Done(200) >>
<1>1. Does(got, "task")
  <2> DEFINE a == Do("task")
             b == Done(200)
  <2>1. Only(a, "task") /\ Only(b, "task")
    BY DEF Only, Do, Done, LeaveIf, Gate
  <2>2. got = << a, b >>
    OBVIOUS
  <2> HIDE DEF a, b, got
  <2> QED BY <2>1, <2>2, List2
<1>2. Does(followed, "task")
  <2> DEFINE a == Leave("finished", 400)
             b == Do("task")
             c == Done(200)
  <2>1. Only(a, "task") /\ Only(b, "task") /\ Only(c, "task")
    BY DEF Only, Leave, Do, Done, LeaveIf, Gate
  <2>2. followed = << a, b, c >>
    OBVIOUS
  <2> HIDE DEF a, b, c, followed
  <2> QED BY <2>1, <2>2, List3
<1>3. Does(refused, "")
  <2> DEFINE a == LeaveIf(TRUE, 409)
  <2>1. Only(a, "")
    BY DEF Only, LeaveIf, Gate
  <2>2. refused = << a >>
    OBVIOUS
  <2> HIDE DEF a, refused
  <2> QED BY <2>1, <2>2, List1
<1>4. Does(asked, "")
  <2> DEFINE a == Leave("pageSize", 400)
             b == Leave("pageToken", 400)
             c == Leave("status", 400)
             f == Leave("artifacts", 400)
             g == Leave("after", 400)
  <2>1. Only(a, "") /\ Only(b, "") /\ Only(c, "") /\ Only(f, "") /\ Only(g, "")
    BY DEF Only, Leave, Gate
  <2>2. asked = << a, b, c, f, g >>
    OBVIOUS
  <2> HIDE DEF a, b, c, f, g, asked
  <2> QED BY <2>1, <2>2, List5
<1>5. Does(listed, "list")
  <2> DEFINE a == Do("list")
             b == Done(200)
  <2>1. Only(a, "list") /\ Only(b, "list")
    BY DEF Only, Do, Done, LeaveIf, Gate
  <2>2. listed = << a, b >>
    OBVIOUS
  <2> HIDE DEF a, b, listed
  <2> QED BY <2>1, <2>2, List2
<1>6. Ends(got, d, HttpEnv) /\ Ends(followed, d, HttpEnv) /\ Ends(refused, d, HttpEnv)
      /\ Ends(listed, d, HttpEnv)
  <2>1. Ends(got, d, HttpEnv)
    BY EndLists, Zenon
  <2>2. Ends(followed, d, HttpEnv)
    <3>1. \A a, b : Ends(<< a, b, Done(200) >>, d, HttpEnv)
      BY EndLists
    <3> QED BY <3>1, Zenon
  <2>3. Ends(refused, d, HttpEnv)
    BY EndLists, Zenon
  <2>4. Ends(listed, d, HttpEnv)
    BY EndLists, Zenon
  <2> QED BY <2>1, <2>2, <2>3, <2>4
<1>7. /\ GetTask(d) = Readable(d) \o got /\ SubscribeTask(d) = Readable(d) \o followed
      /\ CancelTask(d) = Readable(d) \o refused
  BY DEF GetTask, SubscribeTask, CancelTask
<1>8. ListTasks(d) = asked \o ReaderNotRevoked(d) \o listed
  BY DEF ListTasks
<1> HIDE DEF got, followed, refused, asked, listed
<1>9. Does(Readable(d), "") /\ (Clear(Readable(d), d, HttpEnv) => May(d, "task") /\ May(d, ""))
  BY FirstGates DEF Admits, May, Guarded
<1>10. Entitled(Readable(d) \o got, d)
  BY <1>1, <1>6, <1>9, EntitledTail
<1>11. Entitled(Readable(d) \o followed, d)
  BY <1>2, <1>6, <1>9, EntitledTail
<1>12. Entitled(Readable(d) \o refused, d)
  BY <1>3, <1>6, <1>9, EntitledTail
<1>13. Entitled(asked \o ReaderNotRevoked(d) \o listed, d)
  <2>1. Admits(asked \o ReaderNotRevoked(d), d)
    BY <1>4, FirstGates, OpensJoin, DoesJoin DEF Admits
  <2>2. Clear(asked \o ReaderNotRevoked(d), d, HttpEnv) => May(d, "list")
    BY <2>1 DEF Admits, May
  <2> QED BY <1>5, <1>6, <2>1, <2>2, EntitledTail DEF Admits
<1> QED BY <1>7, <1>8, <1>10, <1>11, <1>12, <1>13, Zenon

\* Lemma: every request of A2A, by JSON-RPC of either version and in its REST
\* form, is sound.
LEMMA A2aSound ==
    ASSUME NEW d
    PROVE  /\ Sound(JsonRpcRequest(d, TRUE), d) /\ Sound(JsonRpcRequest(d, FALSE), d)
           /\ Sound(A2aRestRequest(d), d)
<1> DEFINE unknown == << LeaveIf(TRUE, 404) >>
           parsed == << Leave("large", 413), Leave("json", 400), Leave("jsonrpc", 400), Leave("version", 400) >>
           body == << Leave("version", 400), Leave("large", 413), Leave("json", 400) >>
<1>1. Does(unknown, "")
  <2> DEFINE a == LeaveIf(TRUE, 404)
  <2>1. Only(a, "")
    BY DEF Only, LeaveIf, Gate
  <2>2. unknown = << a >>
    OBVIOUS
  <2> HIDE DEF a, unknown
  <2> QED BY <2>1, <2>2, List1
<1>2. Does(parsed, "")
  <2> DEFINE a == Leave("large", 413)
             b == Leave("json", 400)
             c == Leave("jsonrpc", 400)
             f == Leave("version", 400)
  <2>1. Only(a, "") /\ Only(b, "") /\ Only(c, "") /\ Only(f, "")
    BY DEF Only, Leave, Gate
  <2>2. parsed = << a, b, c, f >>
    OBVIOUS
  <2> HIDE DEF a, b, c, f, parsed
  <2> QED BY <2>1, <2>2, List4
<1>3. Does(body, "")
  <2> DEFINE a == Leave("version", 400)
             b == Leave("large", 413)
             c == Leave("json", 400)
  <2>1. Only(a, "") /\ Only(b, "") /\ Only(c, "")
    BY DEF Only, Leave, Gate
  <2>2. body = << a, b, c >>
    OBVIOUS
  <2> HIDE DEF a, b, c, body
  <2> QED BY <2>1, <2>2, List3
<1>4. Ends(unknown, d, HttpEnv)
  BY EndLists, Zenon
<1>5. \A v : A2aMethod(d, v) =
          CASE d.kind = "send" -> IF v THEN V10Send(d) ELSE V03Send(d)
            [] d.kind \in Opens03 /\ ~v -> V03Open(d)
            [] d.kind = "get" -> GetTask(d)
            [] d.kind = "subscribe" -> SubscribeTask(d)
            [] d.kind = "cancel" -> CancelTask(d)
            [] d.kind = "tasks" /\ v -> ListTasks(d)
            [] OTHER -> unknown
  BY Zenon DEF A2aMethod
<1>6. \A v : JsonRpcRequest(d, v) = VerifiedOr401 \o parsed \o A2aMethod(d, v)
  BY DEF JsonRpcRequest
<1>7. A2aRestRequest(d) = VerifiedOr401 \o body \o A2aMethod(d, TRUE)
  BY DEF A2aRestRequest, RestSession
<1> HIDE DEF unknown, parsed, body
<1>8. "" \notin Guarded
  BY DEF Guarded
<1>9. Entitled(unknown, d)
  BY <1>1, <1>4, <1>8, Harmless
<1>10. ASSUME NEW v \in BOOLEAN PROVE Entitled(A2aMethod(d, v), d)
  BY <1>5, <1>9, SendEntitled, OpenEntitled, TaskEntitled DEF Opens03
<1>11. Does(VerifiedOr401 \o parsed, "") /\ Opens(VerifiedOr401 \o parsed, d)
  BY <1>2, FirstGates, OpensJoin, DoesJoin
<1>12. Does(VerifiedOr401 \o body, "") /\ Opens(VerifiedOr401 \o body, d)
  BY <1>3, FirstGates, OpensJoin, DoesJoin
<1>13. ASSUME NEW v \in BOOLEAN PROVE Sound(JsonRpcRequest(d, v), d)
  <2>1. Sound(VerifiedOr401 \o parsed \o A2aMethod(d, v), d)
    BY <1>8, <1>10, <1>11, Reaching
  <2> QED BY <1>6, <2>1, Zenon
<1>14. Sound(A2aRestRequest(d), d)
  <2>1. Sound(VerifiedOr401 \o body \o A2aMethod(d, TRUE), d)
    BY <1>8, <1>10, <1>12, Reaching
  <2> QED BY <1>7, <2>1, Zenon
<1> QED BY <1>13, <1>14

\* Lemma: an outbound push is sound.
LEMMA OutboundSound == ASSUME NEW d PROVE Sound(OutboundSend(d), d)
<1> DEFINE body == << Leave("body", 422) >>
           pushed == << Refuse("outboundScope", 403, Sub), Take("adapter", Sub), Take("tenant", Sub), Leave("noCourier", 404),
                        Refuse("courier", 403, Sub), Do("push"), Leave("post", 502), Done(202) >>
<1>1. Does(body, "")
  <2> DEFINE a == Leave("body", 422)
  <2>1. Only(a, "")
    BY DEF Only, Leave, Gate
  <2>2. body = << a >>
    OBVIOUS
  <2> HIDE DEF a, body
  <2> QED BY <2>1, <2>2, List1
<1>2. Does(pushed, "push")
  <2> DEFINE a == Refuse("outboundScope", 403, Sub)
             b == Take("adapter", Sub)
             c == Take("tenant", Sub)
             f == Leave("noCourier", 404)
             g == Refuse("courier", 403, Sub)
             h == Do("push")
             i == Leave("post", 502)
             j == Done(202)
  <2>1. Only(a, "push") /\ Only(b, "push") /\ Only(c, "push") /\ Only(f, "push") /\ Only(g, "push") /\ Only(h, "push") /\ Only(i, "push") /\ Only(j, "push")
    BY DEF Only, Leave, Refuse, Take, Do, Done, LeaveIf, Gate
  <2>2. pushed = << a, b, c, f, g, h, i, j >>
    OBVIOUS
  <2> HIDE DEF a, b, c, f, g, h, i, j, pushed
  <2> QED BY <2>1, <2>2, List8
<1>3. Ends(pushed, d, HttpEnv)
  <2>1. \A a, b, c, f, g, h, i : Ends(<< a, b, c, f, g, h, i, Done(202) >>, d, HttpEnv)
    BY EndLists
  <2> QED BY <2>1
<1>4. OutboundSend(d) = body \o Verified \o NotRevoked(d) \o pushed
  BY DEF OutboundSend
<1> HIDE DEF body, pushed
<1>5. Does(body \o Verified, "") /\ Opens(body \o Verified, d)
  BY <1>1, FirstGates, OpensJoin, DoesJoin
<1>6. IsList(body \o Verified) /\ IsList(NotRevoked(d))
  BY <1>5, FirstGates, DoesJoin DEF Admits
<1>7. Admits(body \o Verified \o NotRevoked(d), d) /\ Opens(body \o Verified \o NotRevoked(d), d)
  BY <1>5, <1>6, FirstGates, OpensJoin
<1>8. Clear(body \o Verified \o NotRevoked(d), d, HttpEnv) => May(d, "push")
  BY <1>7 DEF Admits, May
<1>9. Entitled(body \o Verified \o NotRevoked(d) \o pushed, d)
  BY <1>2, <1>3, <1>7, <1>8, EntitledTail DEF Admits
<1>10. Opens(body \o Verified \o NotRevoked(d) \o pushed, d)
  BY <1>2, <1>7, OpensJoin, DoesJoin DEF Admits
<1> QED BY <1>4, <1>9, <1>10, Zenon DEF Sound

\* Lemma: every request is sound, whoever it is by and whatever is wrong with
\* it.
LEMMA RequestSound == ASSUME NEW d PROVE Sound(HttpRequest(d), d)
BY RestSound, McpSound, MessageSendSound, A2aSound, OutboundSound DEF HttpRequest

(***************************************************************************)
(* What requests leave behind: a line of the audit ring about a task names *)
(* who started it.                                                         *)
(***************************************************************************)

Lines == {Line(trace, p) : trace \in TaskIds \cup {"other"}, p \in Principals}
Records == {NoRecord} \cup {[by |-> p, owned |-> b] : p \in Principals, b \in BOOLEAN}

\* A line about a task is by who started the task.
Told(line) ==
    line.trace \in TaskIds =>
        /\ records[line.trace] # NoRecord
        /\ line.sub = records[line.trace].by.sub /\ line.tenant = records[line.trace].by.tenant

HttpInv ==
    /\ audit \in Seq(Lines) /\ records \in [TaskIds -> Records]
    /\ \A i \in 1..Len(audit) : Told(audit[i])

\* Lemma: a request is by one of those who ask, about a task.
LEMMA RequestShape ==
    ASSUME NEW who, NEW ids \in SUBSET TaskIds, NEW flaws, NEW d \in Requests(who, ids, flaws)
    PROVE  d.by \in who /\ d.id \in TaskIds /\ d.flaws = flaws
<1>1. AnyId \in TaskIds
  BY HttpConstants DEF AnyId
<1>2. PICK e \in Endpoints, p \in who, id \in ids :
          d = Req(e[1], e[2], p, IF e[2] \in ByTask THEN id ELSE AnyId, flaws)
  BY DEF Requests
<1> QED BY <1>1, <1>2 DEF Req

\* Lemma: the ring after a push holds the new line and some of the old ones.
LEMMA PushedLines ==
    ASSUME audit \in Seq(Lines), NEW entry \in Lines
    PROVE  /\ Pushed(entry) \in Seq(Lines)
           /\ \A i \in 1..Len(Pushed(entry)) :
                 Pushed(entry)[i] = entry \/ \E j \in 1..Len(audit) : Pushed(entry)[i] = audit[j]
<1> DEFINE kept == IF Len(audit) = RingCap THEN Tail(audit) ELSE audit
<1>1. kept \in Seq(Lines) /\ \A i \in 1..Len(kept) : \E j \in 1..Len(audit) : kept[i] = audit[j]
  <2>1. CASE Len(audit) = RingCap
    <3>1. audit # <<>> /\ Len(audit) \in Nat
      BY <2>1, HttpConstants
    <3>2. /\ Tail(audit) \in Seq(Lines) /\ Len(Tail(audit)) = Len(audit) - 1
          /\ \A i \in 1..Len(Tail(audit)) : Tail(audit)[i] = audit[i + 1]
      BY <3>1, HeadTailProperties
    <3>3. \A i \in 1..Len(Tail(audit)) : i + 1 \in 1..Len(audit)
      BY <3>1, <3>2
    <3> QED BY <2>1, <3>2, <3>3
  <2>2. CASE Len(audit) # RingCap
    BY <2>2
  <2> QED BY <2>1, <2>2
<1>2. Pushed(entry) = Append(kept, entry)
  BY DEF Pushed
<1> HIDE DEF kept
<1>3. /\ Append(kept, entry) \in Seq(Lines) /\ Len(Append(kept, entry)) = Len(kept) + 1
      /\ \A i \in 1..Len(kept) : Append(kept, entry)[i] = kept[i]
      /\ Append(kept, entry)[Len(kept) + 1] = entry /\ Len(kept) \in Nat
  BY <1>1, AppendProperties
<1>4. \A i \in 1..Len(Append(kept, entry)) : i \in 1..Len(kept) \/ i = Len(kept) + 1
  BY <1>3
<1>5. ASSUME NEW i \in 1..Len(Append(kept, entry))
      PROVE  Append(kept, entry)[i] = entry \/ \E j \in 1..Len(audit) : Append(kept, entry)[i] = audit[j]
  <2>1. CASE i \in 1..Len(kept)
    BY <1>1, <1>3, <2>1
  <2>2. CASE i = Len(kept) + 1
    BY <1>3, <2>2
  <2> QED BY <1>4, <2>1, <2>2
<1> QED BY <1>2, <1>3, <1>5

\* Lemma: the invariant holds at the start, and every step keeps it.
LEMMA HttpInvHolds ==
    /\ IngressInit => HttpInv
    /\ HttpInv /\ [IngressNext]_ingressVars => HttpInv'
<1>1. IngressInit => HttpInv
  <2> SUFFICES ASSUME IngressInit PROVE HttpInv
    OBVIOUS
  <2>1. records = [id \in TaskIds |-> NoRecord] /\ audit = <<>>
    BY DEF IngressInit, HttpInit
  <2>2. audit \in Seq(Lines) /\ Len(audit) = 0
    BY <2>1
  <2>3. records \in [TaskIds -> Records]
    BY <2>1 DEF Records
  <2> QED BY <2>2, <2>3 DEF HttpInv
<1>2. ASSUME HttpInv, UNCHANGED <<records, audit>> PROVE HttpInv'
  BY <1>2 DEF HttpInv, Told
<1>3. ASSUME HttpInv, NEW d \in Requests(Principals, TaskIds, {}), Serve(d) PROVE HttpInv'
  <2> DEFINE r == [by |-> d.by, owned |-> "own" \in HttpOutcome(d, Buckets).did]
             entry == Line(d.id, d.by)
  <2>1. d.by \in Principals /\ d.id \in TaskIds
    BY RequestShape
  <2>2. /\ audit' \in {audit, Pushed(entry)} /\ records' = [records EXCEPT ![d.id] = r]
        /\ records[d.id] = NoRecord
    BY <1>3 DEF Serve, FreshId
  <2>3. r \in Records /\ r # NoRecord /\ r.by = d.by
    <3>1. ("own" \in HttpOutcome(d, Buckets).did) \in BOOLEAN
      OBVIOUS
    <3>2. \A b : [by |-> d.by, owned |-> b] # NoRecord
      <4>1. NoRecord.by \notin Principals
        BY HttpConstants DEF NoRecord
      <4>2. \A b : [by |-> d.by, owned |-> b].by = d.by
        OBVIOUS
      <4> QED BY <2>1, <4>1, <4>2
    <3>3. \A b \in BOOLEAN : [by |-> d.by, owned |-> b] \in Records
      BY <2>1 DEF Records
    <3> QED BY <3>1, <3>2, <3>3
  <2> HIDE DEF r
  <2>4. entry \in Lines
    BY <2>1 DEF Lines
  <2>5. entry.trace = d.id /\ entry.sub = d.by.sub /\ entry.tenant = d.by.tenant
    BY DEF Line
  <2> HIDE DEF entry
  <2>6. records' \in [TaskIds -> Records] /\ records'[d.id] = r
        /\ \A id \in TaskIds : id # d.id => records'[id] = records[id]
    BY <1>3, <2>1, <2>2, <2>3 DEF HttpInv
  <2>7. audit' \in Seq(Lines)
    BY <1>3, <2>2, <2>4, PushedLines DEF HttpInv
  <2>8. ASSUME NEW i \in 1..Len(audit') PROVE Told(audit[i])'
    <3>1. CASE audit'[i] = entry
      BY <2>3, <2>5, <2>6, <3>1 DEF Told
    <3>2. ASSUME NEW j \in 1..Len(audit), audit'[i] = audit[j] PROVE Told(audit[i])'
      <4>1. Told(audit[j])
        BY <1>3 DEF HttpInv
      <4>2. audit[j].trace \in TaskIds => records'[audit[j].trace] = records[audit[j].trace]
        BY <2>2, <2>6, <4>1 DEF Told
      <4> QED BY <3>2, <4>1, <4>2 DEF Told
    <3>3. audit'[i] = entry \/ \E j \in 1..Len(audit) : audit'[i] = audit[j]
      <4>1. CASE audit' = audit
        BY <4>1
      <4>2. CASE audit' = Pushed(entry)
        BY <1>3, <2>4, <4>2, PushedLines DEF HttpInv
      <4> QED BY <2>2, <4>1, <4>2
    <3> QED BY <3>1, <3>2, <3>3
  <2> QED BY <2>6, <2>7, <2>8 DEF HttpInv
<1>4. ASSUME HttpInv, NEW d \in Requests(Principals, TaskIds, {}), Dispatch(d) PROVE HttpInv'
  <2> DEFINE entry == Line("other", d.by)
  <2>1. d.by \in Principals
    BY RequestShape
  <2>2. audit' = Pushed(entry) /\ UNCHANGED records
    BY <1>4 DEF Dispatch
  <2>3. entry \in Lines
    BY <2>1 DEF Lines
  <2>4. entry.trace \notin TaskIds
    BY HttpConstants DEF Line
  <2> HIDE DEF entry
  <2>5. audit' \in Seq(Lines)
    BY <1>4, <2>2, <2>3, PushedLines DEF HttpInv
  <2>6. ASSUME NEW i \in 1..Len(audit') PROVE Told(audit[i])'
    <3>1. CASE audit'[i] = entry
      BY <2>4, <3>1 DEF Told
    <3>2. ASSUME NEW j \in 1..Len(audit), audit'[i] = audit[j] PROVE Told(audit[i])'
      <4>1. Told(audit[j])
        BY <1>4 DEF HttpInv
      <4> QED BY <2>2, <3>2, <4>1 DEF Told
    <3> QED BY <1>4, <2>2, <2>3, <3>1, <3>2, PushedLines DEF HttpInv
  <2> QED BY <1>4, <2>2, <2>5, <2>6 DEF HttpInv
<1>5. ASSUME HttpInv, HttpRestart PROVE HttpInv'
  <2>1. audit' = <<>> /\ records' = records
    BY <1>5 DEF HttpRestart
  <2>2. audit' \in Seq(Lines) /\ Len(audit') = 0
    BY <2>1
  <2> QED BY <1>5, <2>1, <2>2 DEF HttpInv
<1>6. ASSUME HttpInv, [IngressNext]_ingressVars PROVE HttpInv'
  <2>1. CASE HttpStep
    <3>1. ASSUME NEW p \in Principals, HttpRevoke(p) PROVE HttpInv'
      BY <1>2, <1>6, <3>1 DEF HttpRevoke
    <3> QED BY <1>3, <1>4, <1>5, <1>6, <2>1, <3>1 DEF HttpStep, HttpNext
  <2>2. CASE ChatStep \/ KeysStep \/ LimitsStep \/ PlatformStep \/ UNCHANGED ingressVars
    BY <1>2, <1>6, <2>2 DEF ChatStep, KeysStep, LimitsStep, PlatformStep, ingressVars, httpVars
  <2> QED BY <1>6, <2>1, <2>2 DEF IngressNext
<1> QED BY <1>1, <1>6

\* Lemma: who is not refused a task is entitled to it.
LEMMA AccessEntitles ==
    ASSUME HttpInv, NEW p, NEW id \in TaskIds, Access(p, id) # "none"
    PROVE  \/ IsNamedOperator(p) \/ OwnerKey(p) = OwnerKey(records[id].by)
           \/ /\ ~records[id].owned /\ p.tenant = records[id].by.tenant
              /\ p.sub = records[id].by.sub \/ p.tenant \notin ReservedTenants
<1>1. records[id] # NoRecord
  <2>1. ASSUME records[id] = NoRecord PROVE FALSE
    <3>1. ~records[id].owned
      BY <2>1 DEF NoRecord
    <3>2. Access(p, id) = "none"
      BY <2>1, <3>1 DEF Access
    <3> QED BY <3>2
  <2> QED BY <2>1
<1>2. CASE records[id].owned /\ OwnerKey(p) = OwnerKey(records[id].by)
  BY <1>2
<1>3. CASE records[id].owned /\ OwnerKey(p) # OwnerKey(records[id].by)
  BY <1>1, <1>3 DEF Access
<1>4. CASE ~records[id].owned
  <2>1. MayReadTrace(p, id)
    BY <1>1, <1>4 DEF Access
  <2>2. DOMAIN audit = 1..Len(audit)
    BY DEF HttpInv
  <2>3. PICK i \in 1..Len(audit) :
            audit[i].trace = id /\ \/ AuditVisible(p, audit[i])
                                   \/ audit[i].sub = p.sub /\ audit[i].tenant = p.tenant
    BY <2>1, <2>2 DEF MayReadTrace
  <2>4. audit[i].sub = records[id].by.sub /\ audit[i].tenant = records[id].by.tenant
    BY <2>3 DEF HttpInv, Told
  <2> QED BY <1>4, <2>3, <2>4 DEF AuditVisible
<1> QED BY <1>2, <1>3, <1>4

\* Lemma: what the invariant says of the requests that could arrive.
LEMMA HttpInvEntitles == HttpInv => ReadersEntitled
<1> SUFFICES ASSUME HttpInv PROVE ReadersEntitled
  OBVIOUS
<1>1. ASSUME NEW d
      PROVE  \A x \in HttpOutcome(d, Buckets).did :
                x # "" /\ May(d, x) /\ Known(d)
  <2>1. HttpOutcome(d, Buckets) = Judge(HttpRequest(d), d, HttpEnv)
    BY DEF HttpOutcome, HttpEnv
  <2>2. Sound(HttpRequest(d), d)
    BY RequestSound
  <2>3. \A x \in Judge(HttpRequest(d), d, HttpEnv).did :
           x # "" /\ Passes(HttpRequest(d), d, HttpEnv, x)
    BY <2>2, JudgePasses DEF Sound, Entitled
  <2> QED BY <2>1, <2>2, <2>3 DEF Sound, Entitled, Opens
<1>2. ASSUME NEW d \in Requests(Principals, TaskIds, {}), "task" \in HttpOutcome(d, Buckets).did
      PROVE  \/ IsNamedOperator(d.by) \/ OwnerKey(d.by) = OwnerKey(records[d.id].by)
             \/ /\ ~records[d.id].owned /\ d.by.tenant = records[d.id].by.tenant
                /\ d.by.sub = records[d.id].by.sub \/ d.by.tenant \notin ReservedTenants
  <2>1. Access(d.by, d.id) # "none" /\ d.id \in TaskIds
    BY <1>1, <1>2, RequestShape DEF May
  <2> QED BY <2>1, AccessEntitles
<1>3. ASSUME NEW d \in Requests(Principals, TaskIds, {}), d.by \in revoked
      PROVE  HttpOutcome(d, Buckets).did \cap {"task", "list", "audit", "bodies", "turn", "push"} = {}
  BY <1>1, <1>3 DEF May, Guarded
<1>4. ASSUME NEW f \in Unverified, NEW d \in Requests({Nobody}, {AnyId}, {f})
      PROVE  HttpOutcome(d, Buckets).did = {}
  <2>1. d.flaws = {f}
    <3>1. AnyId \in TaskIds
      BY HttpConstants DEF AnyId
    <3> QED BY <3>1, RequestShape
  <2> QED BY <1>1, <2>1 DEF Known
<1> QED BY <1>2, <1>3, <1>4 DEF ReadersEntitled

(***************************************************************************)
(* Chat: the front of a list, senders and windows.                         *)
(***************************************************************************)

\* Lemma: a tuple of gates is a list.
LEMMA Tuples ==
    /\ IsList(<<>>)
    /\ \A a : IsList(<< a >>)
    /\ \A a, b : IsList(<< a, b >>)
    /\ \A a, b, c : IsList(<< a, b, c >>)
    /\ \A a, b, c, d : IsList(<< a, b, c, d >>)
    /\ \A a, b, c, d, e : IsList(<< a, b, c, d, e >>)
    /\ \A a, b, c, d, e, f, g : IsList(<< a, b, c, d, e, f, g >>)
<1>0. IsList(<<>>)
  <2>1. <<>> \in Seq({})
    OBVIOUS
  <2> QED BY <2>1 DEF IsList
<1>1. ASSUME NEW a PROVE IsList(<< a >>)
  <2>1. << a >> \in Seq({a})
    OBVIOUS
  <2> QED BY <2>1 DEF IsList
<1>2. ASSUME NEW a, NEW b PROVE IsList(<< a, b >>)
  <2>1. << a, b >> \in Seq({a, b})
    OBVIOUS
  <2> QED BY <2>1 DEF IsList
<1>3. ASSUME NEW a, NEW b, NEW c PROVE IsList(<< a, b, c >>)
  <2>1. << a, b, c >> \in Seq({a, b, c})
    OBVIOUS
  <2> QED BY <2>1 DEF IsList
<1>4. ASSUME NEW a, NEW b, NEW c, NEW d PROVE IsList(<< a, b, c, d >>)
  <2>1. << a, b, c, d >> \in Seq({a, b, c, d})
    OBVIOUS
  <2> QED BY <2>1 DEF IsList
<1>5. ASSUME NEW a, NEW b, NEW c, NEW d, NEW e PROVE IsList(<< a, b, c, d, e >>)
  <2>1. << a, b, c, d, e >> \in Seq({a, b, c, d, e})
    OBVIOUS
  <2> QED BY <2>1 DEF IsList
<1>6. ASSUME NEW a, NEW b, NEW c, NEW d, NEW e, NEW f, NEW g PROVE IsList(<< a, b, c, d, e, f, g >>)
  <2>1. << a, b, c, d, e, f, g >> \in Seq({a, b, c, d, e, f, g})
    OBVIOUS
  <2> QED BY <2>1 DEF IsList
<1> QED BY <1>0, <1>1, <1>2, <1>3, <1>4, <1>5, <1>6

\* Lemma: a list of gates that ends answers with the status of the first gate
\* that does not hold.
LEMMA JudgeEnds ==
    ASSUME NEW gates, IsList(gates), NEW d, NEW e, Ends(gates, d, e)
    PROVE  \E n \in 1..Len(gates) :
              /\ Fails(gates[n], d, e) /\ \A i \in 1..(n - 1) : ~Fails(gates[i], d, e)
              /\ Judge(gates, d, e).status = gates[n].status
<1> DEFINE F == {i \in DOMAIN gates : Fails(gates[i], d, e)}
           n == Min(F)
<1>1. DOMAIN gates = 1..Len(gates) /\ Len(gates) \in Nat
  BY DEF IsList
<1>2. F # {} /\ F \subseteq 1..Len(gates) /\ F \in SUBSET Nat
  BY <1>1 DEF Ends
<1>3. n \in F /\ \A i \in F : n <= i
  <2>1. \E m \in F : \A y \in F : m <= y
    <3> HIDE DEF F
    <3> QED BY <1>2, LeastNatural
  <2> HIDE DEF F
  <2> QED BY <2>1 DEF Min
<1>4. n \in Nat /\ n <= Len(gates) /\ n \in 1..Len(gates) /\ Fails(gates[n], d, e)
  BY <1>1, <1>2, <1>3
<1>5. \A i \in 1..(n - 1) : ~Fails(gates[i], d, e)
  <2> SUFFICES ASSUME NEW i \in 1..(n - 1) PROVE i \in 1..Len(gates) /\ i \notin F
    BY <1>1
  <2> HIDE DEF F, n
  <2> QED BY <1>1, <1>3, <1>4
<1>6. Judge(gates, d, e).status = gates[n].status
  BY DEF Judge
<1> HIDE DEF F, n
<1> QED BY <1>4, <1>5, <1>6

\* A list begins with another.
BeginsWith(u, s) == Len(s) <= Len(u) /\ \A i \in 1..Len(s) : u[i] = s[i]

\* Lemma: a list joined of two begins with the first, and with what that
\* begins with.
LEMMA BeginsJoin ==
    ASSUME NEW s, NEW t, IsList(s), IsList(t)
    PROVE  BeginsWith(s \o t, s) /\ \A r : IsList(r) /\ BeginsWith(s, r) => BeginsWith(s \o t, r)
<1>1. PICK S, T : s \in Seq(S) /\ t \in Seq(T)
  BY DEF IsList
<1>2. s \in Seq(S \cup T) /\ t \in Seq(S \cup T)
  BY <1>1, SeqMonotonic
<1> DEFINE u == s \o t
<1>3. /\ Len(u) = Len(s) + Len(t) /\ Len(s) \in Nat /\ Len(t) \in Nat
      /\ \A i \in 1..(Len(s) + Len(t)) : u[i] = IF i <= Len(s) THEN s[i] ELSE t[i - Len(s)]
  BY <1>2, ConcatProperties, LenProperties
<1> HIDE DEF u
<1>4. BeginsWith(u, s)
  BY <1>3 DEF BeginsWith
<1>5. ASSUME NEW r, IsList(r), BeginsWith(s, r) PROVE BeginsWith(u, r)
  <2>1. Len(r) \in Nat
    BY <1>5 DEF IsList
  <2> QED BY <1>3, <1>4, <1>5, <2>1 DEF BeginsWith
<1> QED BY <1>4, <1>5 DEF u

\* Lemma: a delivery that does not get through the front of a list is answered
\* by a gate of that front.
LEMMA JudgeLead ==
    ASSUME NEW s, NEW u, IsList(s), IsList(u), BeginsWith(u, s), NEW d, NEW e, Ends(s, d, e)
    PROVE  \E i \in 1..Len(s) : Judge(u, d, e).status = s[i].status
<1>1. Len(s) \in Nat /\ Len(u) \in Nat
  BY DEF IsList
<1>2. PICK k \in 1..Len(s) : Fails(s[k], d, e)
  BY DEF Ends
<1>3. k \in 1..Len(u) /\ Fails(u[k], d, e)
  BY <1>1, <1>2 DEF BeginsWith
<1>4. PICK n \in 1..Len(u) : /\ \A i \in 1..(n - 1) : ~Fails(u[i], d, e)
                             /\ Judge(u, d, e).status = u[n].status
  BY <1>3, JudgeEnds DEF Ends
<1>5. n <= k
  BY <1>1, <1>3, <1>4
<1>6. n \in 1..Len(s)
  BY <1>1, <1>5
<1> QED BY <1>4, <1>6 DEF BeginsWith

\* Lemma: what a list that is cleared or passed says of its parts.
LEMMA Parts3 ==
    ASSUME NEW s, NEW t, IsList(s), IsList(t), NEW d, NEW e, NEW x, Passes(s \o t, d, e, x)
    PROVE  /\ ~Passes(s, d, e, x) => Clear(s, d, e) /\ Passes(t, d, e, x)
           /\ ~Passes(t, d, e, x) => Passes(s, d, e, x)
BY Joined

\* Lemma: a list whose every gate does x, or nothing, does not do another thing.
LEMMA NotDone ==
    ASSUME NEW s, NEW x, Does(s, x), NEW y, y # x, y # "", NEW d, NEW e
    PROVE  ~Passes(s, d, e, y)
BY DoesJoin

\* Lemma: the identity of a sender: asked of the table or of the resolver, and
\* nobody unknown gets past it.
LEMMA SenderGates ==
    ASSUME NEW d, NEW e
    PROVE  /\ Does(TableResolve, "resolve") /\ Does(UpstreamResolve, "resolve")
           /\ Clear(TableResolve, d, e) => "sender" \notin d.flaws
           /\ Clear(UpstreamResolve, d, e) => "sender" \notin d.flaws
<1> DEFINE a == Refuse("sender", 401, Anon)
           b == Refuse("noSender", 401, Anon)
           c == Do("resolve")
<1>1. Only(a, "resolve") /\ Only(b, "resolve") /\ Only(c, "resolve")
  BY DEF Only, Refuse, Do, Gate
<1>2. a.flaw = "sender"
  BY DEF Refuse, Gate
<1>3. TableResolve = << a >> /\ UpstreamResolve = << b, c, a >>
  BY DEF TableResolve, UpstreamResolve
<1> HIDE DEF a, b, c
<1>4. Does(<< a >>, "resolve") /\ Does(<< b, c, a >>, "resolve")
  BY <1>1, List1, List3
<1>5. /\ Clear(<< a >>, d, e) => ~Fails(a, d, e)
      /\ Clear(<< b, c, a >>, d, e) => ~Fails(a, d, e)
  <2>1. 1 \in 1..Len(<< a >>) /\ << a >>[1] = a
    OBVIOUS
  <2>2. 3 \in 1..Len(<< b, c, a >>) /\ << b, c, a >>[3] = a
    OBVIOUS
  <2> QED BY <2>1, <2>2 DEF Clear
<1> QED BY <1>2, <1>3, <1>4, <1>5 DEF Fails

\* Lemma: WhatsApp's service window is opened only by a message whose signature,
\* body and sender are good.
LEMMA WindowOpener ==
    ASSUME channel = "whatsapp", NEW d, d.kind = "message", NEW lv,
           "window" \in Outcome(d, lv).did
    PROVE  d.flaws \cap {"signature", "body", "sender"} = {}
<1> DEFINE e == Env(d.by, lv)
           a == Refuse("signature", 401, Anon)
           b == Do("verified")
           c == Take("adapter", Anon)
           f == Refuse("body", 400, Anon)
           g == LeaveIf(d.kind # "message", 200)
           first == << a, b, c, f, g >>
           who == IF e.cfg.identity = "upstream" THEN UpstreamResolve ELSE TableResolve
           middle == << Do("known"), Do("window"), Take(d.tenant, Sub) >>
           last == << Do("turn"), Do("post"), Done(200) >>
           rest == (who \o middle) \o last
<1>1. Outcome(d, lv) = Judge(first \o rest, d, e)
  <2>1. Request(d, e) = WhatsAppRequest(d, e)
    BY DEF Request
  <2>2. WhatsAppRequest(d, e) = first \o rest
    BY DEF WhatsAppRequest, WhatsAppWebhook, WhatsAppSignature, WhatsAppMessage, PhoneTurn
  <2>3. Outcome(d, lv) = Judge(Request(d, e), d, e)
    BY DEF Outcome
  <2> HIDE DEF first, rest, e
  <2> QED BY <2>1, <2>2, <2>3
<1>2. Only(a, "verified") /\ Only(b, "verified") /\ Only(c, "verified") /\ Only(f, "verified")
      /\ Only(g, "verified")
  BY DEF Only, Refuse, Do, Take, LeaveIf, Gate
<1>3. a.flaw = "signature" /\ f.flaw = "body"
  BY DEF Refuse, Gate
<1>4. IsList(middle) /\ IsList(last) /\ Ends(last, d, e)
  BY Tuples, EndLists
<1>5. Does(who, "resolve") /\ (Clear(who, d, e) => "sender" \notin d.flaws)
  BY SenderGates
<1> HIDE DEF a, b, c, f, g
<1>6. Does(first, "verified")
  BY <1>2, List5
<1>7. Clear(first, d, e) => ~Fails(a, d, e) /\ ~Fails(f, d, e)
  <2>1. 1 \in 1..Len(first) /\ first[1] = a /\ 4 \in 1..Len(first) /\ first[4] = f
    OBVIOUS
  <2> QED BY <2>1 DEF Clear
<1> HIDE DEF first, who, middle, last, e
<1>8. IsList(first) /\ IsList(who) /\ IsList(who \o middle) /\ IsList(rest) /\ IsList(first \o rest)
  BY <1>4, <1>5, <1>6, DoesJoin, Joined
<1>9. Ends(first \o rest, d, e)
  BY <1>4, <1>8, Joined
<1>10. Passes(first \o rest, d, e, "window")
  BY <1>1, <1>8, <1>9, JudgePasses
<1>11. Clear(first, d, e) /\ Passes(rest, d, e, "window")
  BY <1>6, <1>8, <1>10, NotDone, Parts3
<1>12. Passes(who \o middle, d, e, "window") \/ Clear(who \o middle, d, e)
  BY <1>4, <1>8, <1>11, Joined
<1>13. Clear(who, d, e)
  <2>1. ~Passes(who, d, e, "window")
    <3>1. "window" # "resolve" /\ "window" # ""
      OBVIOUS
    <3>2. Does(who, "resolve")
      BY <1>5
    <3> QED BY <3>1, <3>2, NotDone
  <2> QED BY <1>4, <1>8, <1>12, <2>1, Joined
<1> QED BY <1>3, <1>5, <1>7, <1>11, <1>13 DEF Fails

\* Lemma: more lists that end.
LEMMA LongEnds ==
    ASSUME NEW d, NEW e
    PROVE  /\ \A n : Ends(<< Done(n) >>, d, e)
           /\ \A a, b, c, n : Ends(<< a, b, c, Done(n) >>, d, e)
           /\ \A a, b, c, f, n : Ends(<< a, b, c, f, Done(n) >>, d, e)
           /\ \A a, b, c, f, g, h, n : Ends(<< a, b, c, f, g, h, Done(n) >>, d, e)
<1>1. ASSUME NEW g, g.when, NEW t, NEW n \in 1..Len(t), t[n] = g PROVE Ends(t, d, e)
  BY <1>1 DEF Ends, Fails
<1>2. \A n : Done(n).when
  BY GateKinds
<1>3. ASSUME NEW g PROVE 1 \in 1..Len(<< g >>) /\ << g >>[1] = g
  OBVIOUS
<1>4. ASSUME NEW a, NEW b, NEW c, NEW g
      PROVE  4 \in 1..Len(<< a, b, c, g >>) /\ << a, b, c, g >>[4] = g
  OBVIOUS
<1>5. ASSUME NEW a, NEW b, NEW c, NEW f, NEW g
      PROVE  5 \in 1..Len(<< a, b, c, f, g >>) /\ << a, b, c, f, g >>[5] = g
  OBVIOUS
<1>6. \A n : Ends(<< Done(n) >>, d, e)
  BY <1>1, <1>2, <1>3
<1>7. \A a, b, c, n : Ends(<< a, b, c, Done(n) >>, d, e)
  BY <1>1, <1>2, <1>4
<1>8. \A a, b, c, f, n : Ends(<< a, b, c, f, Done(n) >>, d, e)
  BY <1>1, <1>2, <1>5
<1>9. ASSUME NEW a, NEW b, NEW c, NEW f, NEW i, NEW h, NEW g
      PROVE  7 \in 1..Len(<< a, b, c, f, i, h, g >>) /\ << a, b, c, f, i, h, g >>[7] = g
  OBVIOUS
<1>10. \A a, b, c, f, g, h, n : Ends(<< a, b, c, f, g, h, Done(n) >>, d, e)
  BY <1>1, <1>2, <1>9
<1> QED BY <1>6, <1>7, <1>8, <1>10

\* Lemma: what is done behind a list that does something else, or nothing, is
\* done by a delivery that list let through.
LEMMA Past ==
    ASSUME NEW s, NEW x, Does(s, x), NEW y, y # x, y # "", NEW d, NEW e
    PROVE  /\ \A t : IsList(t) /\ Passes(s \o t, d, e, y) => Clear(s, d, e) /\ Passes(t, d, e, y)
           /\ \A t, u : IsList(t) /\ IsList(u) /\ Passes((s \o t) \o u, d, e, y) => Clear(s, d, e)
<1>1. IsList(s) /\ ~Passes(s, d, e, y)
  BY DoesJoin, NotDone
<1>2. ASSUME NEW t, IsList(t), Passes(s \o t, d, e, y) PROVE Clear(s, d, e) /\ Passes(t, d, e, y)
  BY <1>1, <1>2, Joined
<1>3. ASSUME NEW t, NEW u, IsList(t), IsList(u), Passes((s \o t) \o u, d, e, y)
      PROVE  Clear(s, d, e)
  <2>1. IsList(s \o t)
    BY <1>1, <1>3, Joined
  <2>2. Passes(s \o t, d, e, y) \/ Clear(s \o t, d, e)
    BY <1>3, <2>1, Joined
  <2> QED BY <1>1, <1>2, <1>3, <2>2, Joined
<1> QED BY <1>2, <1>3

\* Lemma: the conditions of lists of refusals that were passed.
LEMMA ClearIfs ==
    ASSUME NEW d, NEW e
    PROVE  /\ \A c, n, w : Clear(<< RefuseIf(c, n, w) >>, d, e) => ~c
           /\ \A c, n, w, g : Clear(<< RefuseIf(c, n, w), g >>, d, e) => ~c
           /\ \A c, n, w, g : Clear(<< g, RefuseIf(c, n, w) >>, d, e) => ~c
           /\ \A c, n, w, f, g, h : Clear(<< f, g, RefuseIf(c, n, w), h >>, d, e) => ~c
<1>1. ASSUME NEW c, NEW n, NEW w, c, NEW s, NEW i \in 1..Len(s), s[i] = RefuseIf(c, n, w)
      PROVE  ~Clear(s, d, e)
  <2>1. RefuseIf(c, n, w).when
    BY <1>1 DEF RefuseIf, Gate
  <2> QED BY <1>1, <2>1 DEF Clear, Fails
<1>2. ASSUME NEW g PROVE 1 \in 1..Len(<< g >>) /\ << g >>[1] = g
  OBVIOUS
<1>3. ASSUME NEW g, NEW h
      PROVE  /\ 1 \in 1..Len(<< g, h >>) /\ << g, h >>[1] = g
             /\ 2 \in 1..Len(<< g, h >>) /\ << g, h >>[2] = h
  OBVIOUS
<1>4. ASSUME NEW f, NEW g, NEW c, NEW h
      PROVE  3 \in 1..Len(<< f, g, c, h >>) /\ << f, g, c, h >>[3] = c
  OBVIOUS
<1>5. \A c, n, w : Clear(<< RefuseIf(c, n, w) >>, d, e) => ~c
  BY <1>1, <1>2
<1>6. \A c, n, w, g : /\ Clear(<< RefuseIf(c, n, w), g >>, d, e) => ~c
                      /\ Clear(<< g, RefuseIf(c, n, w) >>, d, e) => ~c
  BY <1>1, <1>3
<1>7. \A c, n, w, f, g, h : Clear(<< f, g, RefuseIf(c, n, w), h >>, d, e) => ~c
  BY <1>1, <1>4
<1> QED BY <1>5, <1>6, <1>7

(***************************************************************************)
(* Chat: an agent's push.                                                  *)
(***************************************************************************)

\* Lemma: what follows the check of a push ends.
LEMMA PushTails ==
    ASSUME NEW d, NEW e
    PROVE  /\ \A a, n : IsList(<< a, Done(n) >>) /\ Ends(<< a, Done(n) >>, d, e)
           /\ \A a, b, n : IsList(<< a, b, Done(n) >>) /\ Ends(<< a, b, Done(n) >>, d, e)
           /\ \A a, b, c, f, n : IsList(<< a, b, c, f, Done(n) >>) /\ Ends(<< a, b, c, f, Done(n) >>, d, e)
<1>1. \A a, n : IsList(<< a, Done(n) >>) /\ Ends(<< a, Done(n) >>, d, e)
  BY Tuples, EndLists
<1>2. \A a, b, n : IsList(<< a, b, Done(n) >>) /\ Ends(<< a, b, Done(n) >>, d, e)
  BY Tuples, EndLists
<1>3. \A a, b, c, f, n : IsList(<< a, b, c, f, Done(n) >>) /\ Ends(<< a, b, c, f, Done(n) >>, d, e)
  BY Tuples, LongEnds
<1> QED BY <1>1, <1>2, <1>3

\* Lemma: a push that is judged by a list of checks and what follows them was
\* let through by the checks.
LEMMA PushChecked ==
    ASSUME NEW s, Does(s, ""), NEW t, IsList(t), NEW d, NEW e, Ends(t, d, e),
           NEW y \in Judge(s \o t, d, e).did
    PROVE  Clear(s, d, e) /\ Passes(t, d, e, y)
<1>1. IsList(s)
  BY DoesJoin
<1>2. IsList(s \o t) /\ Ends(s \o t, d, e)
  BY <1>1, Joined
<1>3. y # "" /\ Passes(s \o t, d, e, y)
  BY <1>2, JudgePasses
<1>4. ~Passes(s, d, e, y)
  BY <1>3, NotDone
<1> QED BY <1>1, <1>3, <1>4, Joined

\* Lemma: the check of a sealed reference, as Teams and Google Chat make it.
LEMMA SealedChecks ==
    ASSUME NEW q, NEW e
    PROVE  /\ Does(TeamsAuthorize(q, e), "") /\ Does(GoogleAuthorize(q, e), "")
           /\ Clear(TeamsAuthorize(q, e), q, e) \/ Clear(GoogleAuthorize(q, e), q, e) =>
                 /\ q.token.tool = "ref" /\ q.token.args.tenant = q.tenant
                 /\ q.to \in {"", q.token.args.user}
<1> DEFINE p == q.token.tool # "ref"
           p1 == q.token.tool = "ref" /\ q.token.args.tenant # q.tenant
           p2 == q.token.tool = "ref" /\ q.to \notin {"", q.token.args.user}
           a == Refuse("noRef", 400, Anon)
           b == RefuseIf(DecodeWithCap(q.token, Signing(e.ring), TeamsRefCap) # "ok", 403, Anon)
           c == Refuse("badRef", 400, Anon)
           a2 == Refuse("noRef", 403, Anon)
           b2 == RefuseIf(DecodeWithCapAny(q.token, e.ring, GoogleImageCap) # "ok", 403, Anon)
           c2 == Refuse("badRef", 403, Anon)
           k == RefuseIf(~e.cfg.courier, 403, Anon)
           g == RefuseIf(p, 403, Anon)
           g1 == RefuseIf(p1, 403, Anon)
           g2 == RefuseIf(p2, 403, Anon)
           teams == << a, b, g, c >>
           google == << a2, b2, g, c2 >>
           both == << g1, g2 >>
<1>1. /\ TeamsAuthorize(q, e) = teams \o both
      /\ GoogleAuthorize(q, e) = (<< k >> \o google) \o both
  BY Zenon DEF TeamsAuthorize, TeamsOpenSealed, GoogleAuthorize, GoogleOpenSealed
<1>2. /\ Only(a, "") /\ Only(b, "") /\ Only(c, "") /\ Only(a2, "") /\ Only(b2, "") /\ Only(c2, "")
      /\ Only(k, "") /\ Only(g, "") /\ Only(g1, "") /\ Only(g2, "")
  BY DEF Only, Refuse, RefuseIf, Gate
<1>3. (Clear(teams, q, e) => ~p) /\ (Clear(google, q, e) => ~p)
  <2> HIDE DEF p, a, b, c, a2, b2, c2
  <2> QED BY ClearIfs
<1>4. Clear(both, q, e) => ~p1 /\ ~p2
  <2> HIDE DEF p1, p2
  <2>1. Clear(both, q, e) => ~p1
    BY ClearIfs
  <2>2. Clear(both, q, e) => ~p2
    BY ClearIfs
  <2> QED BY <2>1, <2>2
<1>5. /\ ~p => q.token.tool = "ref"
      /\ ~p /\ ~p1 /\ ~p2 => q.token.args.tenant = q.tenant /\ q.to \in {"", q.token.args.user}
  OBVIOUS
<1> HIDE DEF a, b, c, a2, b2, c2, k, g, g1, g2, p, p1, p2
<1>6. Does(teams, "") /\ Does(google, "") /\ Does(both, "") /\ Does(<< k >>, "")
  BY <1>2, List1, List2, List4
<1> HIDE DEF teams, google, both
<1>7. Does(teams \o both, "") /\ Does((<< k >> \o google) \o both, "")
  BY <1>6, DoesJoin
<1>8. /\ Clear(teams \o both, q, e) => Clear(teams, q, e) /\ Clear(both, q, e)
      /\ Clear((<< k >> \o google) \o both, q, e) => Clear(google, q, e) /\ Clear(both, q, e)
  <2> DEFINE kk == << k >>
  <2>1. IsList(teams) /\ IsList(google) /\ IsList(both) /\ IsList(kk)
    BY <1>6, DoesJoin
  <2> HIDE DEF kk
  <2>2. IsList(kk \o google)
    BY <2>1, Joined
  <2>3. /\ Clear(teams \o both, q, e) => Clear(teams, q, e) /\ Clear(both, q, e)
        /\ Clear((kk \o google) \o both, q, e) => Clear(google, q, e) /\ Clear(both, q, e)
    BY <2>1, <2>2, Joined
  <2> QED BY <2>3 DEF kk
<1> QED BY <1>1, <1>3, <1>4, <1>5, <1>7, <1>8

\* Lemma: an agent's push through Teams or Google Chat is one to the user and
\* tenant of the reference it came with.
LEMMA SealedPush ==
    ASSUME channel \in {"msteams", "google_chat"}, NEW q, PushOutcome(q).did # {}
    PROVE  q.token.tool = "ref" /\ q.token.args.tenant = q.tenant /\ q.to \in {"", q.token.args.user}
<1> DEFINE e == Env(q.to, Full)
           last == << Do("push"), Done(200) >>
           theme == << Do("theme") >>
           chart == << Do("chart") >>
<1>1. PICK y : y \in PushOutcome(q).did
  OBVIOUS
<1>2. /\ channel = "msteams" => PushOutcome(q) = Judge((TeamsAuthorize(q, e) \o (theme \o chart)) \o last, q, e)
      /\ channel = "google_chat" => PushOutcome(q) = Judge((GoogleAuthorize(q, e) \o theme) \o last, q, e)
  <2>1. PushOutcome(q) = Judge(Push(q, e), q, e)
    BY DEF PushOutcome
  <2>2. /\ channel = "msteams" => Push(q, e) = TeamsPush(q, e)
        /\ channel = "google_chat" => Push(q, e) = GooglePush(q, e)
    BY DEF Push
  <2>3. /\ TeamsPush(q, e) = (TeamsAuthorize(q, e) \o (theme \o chart)) \o last
        /\ GooglePush(q, e) = (GoogleAuthorize(q, e) \o theme) \o last
    BY Zenon DEF TeamsPush, TeamsRender, TeamsChrome, TeamsChart, GooglePush, GoogleRender
  <2> HIDE DEF last, theme, chart, e
  <2> QED BY <2>1, <2>2, <2>3
<1>3. IsList(theme) /\ IsList(chart) /\ IsList(last) /\ Ends(last, q, e)
  BY Tuples, PushTails
<1> HIDE DEF last, theme, chart, e
<1>4. IsList(theme \o chart)
  BY <1>3, Joined
<1>5. ASSUME NEW s, Does(s, ""), NEW t, IsList(t), y \in Judge((s \o t) \o last, q, e).did
      PROVE  Clear(s, q, e)
  <2>1. IsList(s) /\ IsList(s \o t) /\ IsList((s \o t) \o last) /\ Ends((s \o t) \o last, q, e)
    BY <1>3, <1>5, DoesJoin, Joined
  <2>2. y # "" /\ Passes((s \o t) \o last, q, e, y)
    BY <1>5, <2>1, JudgePasses
  <2> QED BY <1>3, <1>5, <2>2, Past
<1>6. Clear(TeamsAuthorize(q, e), q, e) \/ Clear(GoogleAuthorize(q, e), q, e)
  <2>1. Does(TeamsAuthorize(q, e), "") /\ Does(GoogleAuthorize(q, e), "")
    BY SealedChecks
  <2>2. CASE channel = "msteams"
    BY <1>1, <1>2, <1>4, <1>5, <2>1, <2>2
  <2>3. CASE channel = "google_chat"
    BY <1>1, <1>2, <1>3, <1>5, <2>1, <2>3
  <2> QED BY <2>2, <2>3
<1> QED BY <1>6, SealedChecks

\* Lemma: the check of a push to a phone or an address.
LEMMA PhoneChecks ==
    ASSUME NEW q, NEW e
    PROVE  /\ Does(TwilioAuthorize(q), "") /\ Does(EmailAuthorize(q), "") /\ Does(WhatsAppAuthorize(q, e), "")
           /\ Clear(TwilioAuthorize(q), q, e) \/ Clear(EmailAuthorize(q), q, e) => q.home = q.tenant
           /\ Clear(WhatsAppAuthorize(q, e), q, e) =>
                 q.tenant # "" /\ (e.cfg.identity = "table" => q.home = q.tenant)
<1> DEFINE p == q.home # q.tenant
           p1 == q.tenant = ""
           a == Refuse("sender", 403, Anon)
           g == RefuseIf(p, 403, Anon)
           g1 == RefuseIf(p1, 403, Anon)
           table == << g >>
           phone == << a, g >>
           cloud == << g1, a >>
           more == IF e.cfg.identity = "table" THEN table ELSE <<>>
<1>1. /\ TwilioAuthorize(q) = phone /\ EmailAuthorize(q) = phone
      /\ WhatsAppAuthorize(q, e) = cloud \o more
  BY Zenon DEF TwilioAuthorize, EmailAuthorize, WhatsAppAuthorize
<1>2. Only(a, "") /\ Only(g, "") /\ Only(g1, "")
  BY DEF Only, Refuse, RefuseIf, Gate
<1>3. (Clear(table, q, e) => ~p) /\ (Clear(phone, q, e) => ~p) /\ (Clear(cloud, q, e) => ~p1)
  <2> HIDE DEF p, p1, a
  <2>1. Clear(table, q, e) => ~p
    BY ClearIfs
  <2>2. Clear(phone, q, e) => ~p
    BY ClearIfs
  <2>3. Clear(cloud, q, e) => ~p1
    BY ClearIfs
  <2> QED BY <2>1, <2>2, <2>3
<1>4. (~p => q.home = q.tenant) /\ (~p1 => q.tenant # "")
  OBVIOUS
<1> HIDE DEF a, g, g1, p, p1
<1>5. Does(table, "") /\ Does(phone, "") /\ Does(cloud, "") /\ Does(<<>>, "")
  <2>1. Does(<<>>, "")
    BY Tuples DEF Does
  <2> QED BY <1>2, <2>1, List1, List2
<1> HIDE DEF table, phone, cloud
<1>6. Does(more, "") /\ Does(cloud \o more, "")
  BY <1>5, DoesJoin
<1>7. Clear(cloud \o more, q, e) => Clear(cloud, q, e) /\ (e.cfg.identity = "table" => Clear(table, q, e))
  <2>1. Clear(cloud \o more, q, e) => Clear(cloud, q, e) /\ Clear(more, q, e)
    BY <1>5, <1>6, DoesJoin, Joined
  <2> QED BY <2>1
<1> QED BY <1>1, <1>3, <1>4, <1>5, <1>6, <1>7

\* Lemma: a push to a phone or an address is one to a recipient of the caller's
\* tenant.
LEMMA PhonePush ==
    ASSUME channel \notin {"msteams", "google_chat", "whatsapp"}, NEW q, PushOutcome(q).did # {}
    PROVE  q.home = q.tenant
<1> DEFINE e == Env(q.to, Full)
           a == Refuse("empty", 400, Anon)
           b == Do("push")
           mail == << a, Refuse("notSurface", 400, Anon), b, Leave("notTaken", 502), Done(200) >>
           free == << a, b, Done(200) >>
           templ == << Refuse("category", 400, Anon), Do("template"), Done(200) >>
           either == IF q.category # "none" THEN templ ELSE free
<1>1. PICK y : y \in PushOutcome(q).did
  OBVIOUS
<1>2. PushOutcome(q) = Judge(Push(q, e), q, e)
  BY DEF PushOutcome
<1>3. /\ channel = "email" => Push(q, e) = EmailPush(q)
      /\ channel = "rcs" => Push(q, e) = RcsPush(q)
      /\ channel \notin {"email", "rcs"} => Push(q, e) = TwilioPush(q)
  BY DEF Push
<1>4. /\ EmailPush(q) = EmailAuthorize(q) \o mail
      /\ RcsPush(q) = TwilioAuthorize(q) \o free
      /\ TwilioPush(q) = TwilioAuthorize(q) \o either
  BY Zenon DEF EmailPush, RcsPush, RcsAuthorize, TwilioPush, TwilioTemplate
<1>5. IsList(mail) /\ IsList(free) /\ IsList(templ) /\ Ends(mail, q, e) /\ Ends(free, q, e) /\ Ends(templ, q, e)
  <2> HIDE DEF e
  <2> QED BY PushTails
<1> HIDE DEF e, mail, free, templ
<1>6. IsList(either) /\ Ends(either, q, e)
  BY <1>5
<1> HIDE DEF either
<1>7. Does(TwilioAuthorize(q), "") /\ Does(EmailAuthorize(q), "")
  BY PhoneChecks
<1>8. CASE channel = "email"
  BY <1>1, <1>2, <1>3, <1>4, <1>5, <1>7, <1>8, PushChecked, PhoneChecks
<1>9. CASE channel = "rcs"
  BY <1>1, <1>2, <1>3, <1>4, <1>5, <1>7, <1>9, PushChecked, PhoneChecks
<1>10. CASE channel \notin {"email", "rcs"}
  BY <1>1, <1>2, <1>3, <1>4, <1>6, <1>7, <1>10, PushChecked, PhoneChecks
<1> QED BY <1>8, <1>9, <1>10

\* Lemma: a push through WhatsApp names a tenant, that of its recipient if the
\* adapter has a table of senders; and free text needs an open service window.
LEMMA WhatsAppPushed ==
    ASSUME channel = "whatsapp", NEW q, NEW y \in PushOutcome(q).did
    PROVE  /\ q.tenant # "" /\ (cfg.identity = "table" => q.home = q.tenant)
           /\ y = "push" => WindowOpen(window[q.to], clock)
<1> DEFINE e == Env(q.to, Full)
           p == ~WindowOpen(e.stamped, e.now)
           open == << RefuseIf(p, 400, Anon) >>
           mint == IF e.cfg.identity = "upstream" THEN << Do("resolve") >> ELSE <<>>
           free == << Refuse("empty", 400, Anon), Do("push"), Done(200) >>
           c == Refuse("category", 400, Anon)
           f == Do("template")
           g == Done(200)
           templ == << c, f, g >>
           text == (open \o mint) \o free
           either == IF q.category # "none" THEN templ ELSE text
<1>1. PushOutcome(q) = Judge(WhatsAppAuthorize(q, e) \o either, q, e)
  <2>1. PushOutcome(q) = Judge(Push(q, e), q, e)
    BY DEF PushOutcome
  <2>2. Push(q, e) = WhatsAppPush(q, e)
    BY DEF Push
  <2>3. WhatsAppPush(q, e) = WhatsAppAuthorize(q, e) \o either
    BY Zenon DEF WhatsAppPush, WhatsAppTemplate, WhatsAppMintTenant
  <2> HIDE DEF e, either
  <2> QED BY <2>1, <2>2, <2>3
<1>2. e.stamped = window[q.to] /\ e.now = clock /\ e.cfg = cfg
  BY DEF Env
<1> HIDE DEF e
<1>3. Only(c, "template") /\ Only(f, "template") /\ Only(g, "template")
  BY DEF Only, Refuse, Do, Done, LeaveIf, Gate
<1>4. Clear(open, q, e) => ~p
  <2> HIDE DEF p
  <2> QED BY ClearIfs
<1>5. ~p => WindowOpen(window[q.to], clock)
  BY <1>2
<1>6. /\ IsList(mint) /\ IsList(free) /\ Ends(free, q, e) /\ IsList(templ) /\ Ends(templ, q, e)
  <2>1. IsList(mint)
    BY Tuples
  <2> HIDE DEF mint
  <2> QED BY <2>1, PushTails
<1>7. Does(open, "")
  <2> DEFINE h == RefuseIf(p, 400, Anon)
  <2>1. Only(h, "")
    BY DEF Only, RefuseIf, Gate
  <2>2. open = << h >>
    OBVIOUS
  <2> HIDE DEF h
  <2> QED BY <2>1, <2>2, List1
<1> HIDE DEF p, c, f, g
<1>8. Does(templ, "template")
  BY <1>3, List3
<1> HIDE DEF open, mint, free, templ
<1>9. IsList(open \o mint) /\ IsList(text) /\ Ends(text, q, e)
  BY <1>6, <1>7, DoesJoin, Joined
<1>10. ASSUME y = "push", Passes(text, q, e, y) PROVE WindowOpen(window[q.to], clock)
  <2>1. y # ""
    BY <1>10
  <2>2. Clear(open, q, e)
    BY <1>6, <1>7, <1>10, <2>1, Past
  <2> QED BY <1>4, <1>5, <2>2
<1> HIDE DEF text
<1>11. IsList(either) /\ Ends(either, q, e)
  BY <1>6, <1>9
<1>12. Clear(WhatsAppAuthorize(q, e), q, e) /\ Passes(either, q, e, y)
  <2> HIDE DEF either
  <2>1. y \in Judge(WhatsAppAuthorize(q, e) \o either, q, e).did
    BY <1>1
  <2>2. Does(WhatsAppAuthorize(q, e), "")
    BY PhoneChecks
  <2> QED BY <1>11, <2>1, <2>2, PushChecked
<1>13. ASSUME y = "push" PROVE Passes(text, q, e, y)
  <2>1. ~Passes(templ, q, e, y)
    <3>1. y # "template" /\ y # ""
      BY <1>13
    <3> QED BY <1>8, <3>1, NotDone
  <2> QED BY <1>12, <2>1
<1> QED BY <1>2, <1>10, <1>12, <1>13, PhoneChecks

(***************************************************************************)
(* Chat: the world an adapter keeps.                                       *)
(***************************************************************************)

\* What the world of a chat adapter keeps to: the service window was opened by a
\* message that was really sent; the configuration is one the adapter accepts;
\* a card is no reference, and a reference is to its owner.
ChatInv ==
    /\ clock \in Nat /\ window \in [Users -> Nat] /\ wrote \in [Users -> Nat]
    /\ \A u \in Users : window[u] <= wrote[u] /\ wrote[u] <= clock
    /\ agents \subseteq Agents
    /\ Up => Fitting(cfg) /\ (channel = "whatsapp" => cfg.identity \in {"table", "upstream"})
    /\ card.token.tool # "ref"
    /\ \/ ref.token = NoToken
       \/ ref.token.tool = "ref" /\ ref.token.args = [tenant |-> Home[ref.owner], user |-> ref.owner]

\* Lemma: WhatsApp is built with a table of senders or with a resolver.
LEMMA WhatsAppBuilt ==
    ASSUME channel = "whatsapp", NEW cf, NEW flaws,
           Judge(FromManifest(cf), [flaws |-> flaws], [level |-> Full]).status = 0
    PROVE  cf.identity \in {"table", "upstream"}
<1> DEFINE d == [flaws |-> flaws]
           e == [level |-> Full]
           g1 == Refuse("kind", 1, Anon)
           g2 == Refuse("signatureKind", 1, Anon)
           p == cf.identity \notin {"table", "upstream"}
           g3 == RefuseIf(p, 1, Anon)
           g4 == Refuse("secret", 1, Anon)
           g5 == Refuse("verifySecret", 1, Anon)
           g6 == Refuse("outboundToken", 1, Anon)
           g7 == Refuse("phoneNumberId", 1, Anon)
           first == << g1, g2, g3, g4, g5, g6, g7 >>
           who == IF cf.identity = "upstream" THEN ParseResolver ELSE ParseTable
           last == << RefuseIf(RingRefused(cf.keys), 1, Anon), Done(0) >>
           all == (first \o who) \o last
<1>1. FromManifest(cf) = all
  <2>1. FromManifest(cf) = WhatsAppFromManifest(cf)
    BY DEF FromManifest
  <2>2. WhatsAppFromManifest(cf) = all
    BY Zenon DEF WhatsAppFromManifest, SupportedKind
  <2> QED BY Zenon, <2>1, <2>2
<1>2. /\ g1.status = 1 /\ g2.status = 1 /\ g3.status = 1 /\ g4.status = 1
      /\ g5.status = 1 /\ g6.status = 1 /\ g7.status = 1
  BY DEF Refuse, RefuseIf, Gate
<1>3. p => Fails(g3, d, e)
  <2>1. g3.when = p
    BY DEF RefuseIf, Gate
  <2> QED BY <2>1 DEF Fails
<1>4. IsList(who) /\ IsList(last)
  BY Tuples DEF ParseResolver, ParseTable
<1> HIDE DEF g1, g2, g3, g4, g5, g6, g7
<1>5. IsList(first) /\ Len(first) = 7 /\ first[3] = g3
  <2>1. IsList(first)
    BY Tuples
  <2>2. Len(first) = 7 /\ first[3] = g3
    OBVIOUS
  <2> QED BY <2>1, <2>2
<1>6. \A i \in 1..7 : first[i].status = 1
  <2>1. /\ first[1] = g1 /\ first[2] = g2 /\ first[3] = g3 /\ first[4] = g4
        /\ first[5] = g5 /\ first[6] = g6 /\ first[7] = g7
    OBVIOUS
  <2>2. \A i \in 1..7 : i = 1 \/ i = 2 \/ i = 3 \/ i = 4 \/ i = 5 \/ i = 6 \/ i = 7
    OBVIOUS
  <2> HIDE DEF first
  <2> QED BY <1>2, <2>1, <2>2
<1> HIDE DEF first, who, last, d, e
<1>7. IsList(first \o who) /\ IsList(all) /\ BeginsWith(all, first)
  BY <1>4, <1>5, Joined, BeginsJoin
<1>8. ASSUME p PROVE FALSE
  <2>1. 3 \in 1..Len(first) /\ Fails(first[3], d, e)
    BY <1>3, <1>5, <1>8
  <2>2. Ends(first, d, e)
    BY <2>1 DEF Ends
  <2>3. PICK i \in 1..Len(first) : Judge(all, d, e).status = first[i].status
    BY <1>5, <1>7, <2>2, JudgeLead
  <2>4. Judge(all, d, e).status = 1
    BY <1>5, <1>6, <2>3
  <2>5. Judge(all, d, e).status = 0
    BY <1>1 DEF d, e
  <2> QED BY <2>4, <2>5
<1> QED BY <1>8

\* Lemma: what is delivered is by a user of its tenant.
LEMMA DeliveryShape ==
    ASSUME NEW d \in Messages
    PROVE  d.by \in Users /\ d.tenant = Home[d.by]
<1>1. PICK k \in Kinds \ (ClickKinds \cup {"image"}), u \in Users, text \in Texts :
         d = Delivery(k, {}, u, NoToken, text, clock, "none")
  BY DEF Messages
<1>2. d.by = u /\ d.tenant = Home[u]
  BY <1>1 DEF Delivery
<1> QED BY <1>2

\* Lemma: a card is no reference.
LEMMA CardIsNoReference ==
    ASSUME NEW d, NEW e, NEW tool \in CardTools, NEW args, NEW size
    PROVE  CardToken(d, e, tool, args, size).tool # "ref"
<1>1. \A a, k, b, x, n, m : EncodeBound(tool, a, k, b, x, n, m).tool \in {"none", tool}
  BY DEF EncodeBound, NoToken
<1>2. tool # "ref"
  <2>1. CardTools \subseteq {"tool", "send", "use", "refresh", "open", "embed"}
    BY DEF CardTools
  <2> QED BY <2>1
<1>3. \E a, k, b, x, n, m : CardToken(d, e, tool, args, size) = EncodeBound(tool, a, k, b, x, n, m)
  <2>1. /\ \E a, k, b, x, n, m : TeamsCardToken(d, e, tool, args, size) = EncodeBound(tool, a, k, b, x, n, m)
        /\ \E a, k, b, x, n, m : GoogleCardToken(d, e, tool, args, size) = EncodeBound(tool, a, k, b, x, n, m)
        /\ \E a, k, b, x, n, m : DiscordCardToken(d, e, tool, args, size) = EncodeBound(tool, a, k, b, x, n, m)
        /\ \E a, k, b, x, n, m : TelegramCardToken(d, e, tool, args, size) = EncodeBound(tool, a, k, b, x, n, m)
    BY Zenon DEF TeamsCardToken, GoogleCardToken, DiscordCardToken, TelegramCardToken
  <2>2. CardToken(d, e, tool, args, size) \in
           {TeamsCardToken(d, e, tool, args, size), GoogleCardToken(d, e, tool, args, size),
            DiscordCardToken(d, e, tool, args, size), TelegramCardToken(d, e, tool, args, size)}
    BY DEF CardToken
  <2> QED BY <2>1, <2>2
<1> QED BY <1>1, <1>2, <1>3

\* Lemma: a reference that is sealed is to the one it was sealed for.
LEMMA ReferenceNamesUser ==
    ASSUME NEW d, NEW e, Reference(d, e) # NoToken
    PROVE  Reference(d, e).tool = "ref" /\ Reference(d, e).args = [tenant |-> d.tenant, user |-> d.by]
<1>1. \A a, k, n, m : EncodeWithCap("ref", a, k, n, m) # NoToken =>
          EncodeWithCap("ref", a, k, n, m).tool = "ref" /\ EncodeWithCap("ref", a, k, n, m).args = a
  BY DEF EncodeWithCap
<1> DEFINE a == [tenant |-> d.tenant, user |-> d.by]
<1>2. \E k, n, m : Reference(d, e) = EncodeWithCap("ref", a, k, n, m)
  BY DEF Reference, TeamsReference, GoogleReference
<1> HIDE DEF a
<1>3. Reference(d, e).tool = "ref" /\ Reference(d, e).args = a
  BY <1>1, <1>2
<1> QED BY <1>3 DEF a

\* Lemma: the invariant of a chat adapter's world holds.
LEMMA ChatInvHolds ==
    /\ IngressInit => ChatInv
    /\ ChatInv /\ [IngressNext]_ingressVars => ChatInv'
<1>1. ASSUME IngressInit PROVE ChatInv
  <2>1. ChatInit
    BY <1>1 DEF IngressInit
  <2>2. card.token = NoToken /\ ref.token = NoToken /\ NoToken.tool = "none"
    BY <2>1 DEF ChatInit, NoCard, NoToken
  <2>3. clock = 1 /\ window = [u \in Users |-> 0] /\ wrote = [u \in Users |-> 0] /\ agents = Agents /\ ~Up
    BY <2>1 DEF ChatInit, Never, Up
  <2> QED BY <2>2, <2>3 DEF ChatInv
<1>2. ASSUME ChatInv, ChatNext PROVE ChatInv'
  <2> USE <1>2
  <2>1. ASSUME NEW cf \in Configs, NEW f, Boot(cf, {f}) PROVE ChatInv'
    <3>1. channel = "whatsapp" => cf.identity \in {"table", "upstream"}
      BY <2>1, WhatsAppBuilt DEF Boot
    <3>2. Fitting(cf)'
      BY <2>1 DEF Boot, Fitting
    <3> QED BY <2>1, <3>1, <3>2 DEF ChatInv, Boot, Up
  <2>2. ASSUME Up, Shows PROVE ChatInv'
    <3>1. PICK d \in Own(Messages), tool \in CardTools, size \in {1, 4} :
             \E args \in CardArgs(tool) : Show(d, tool, args, size)
      BY <2>2 DEF Shows
    <3>2. PICK args : Show(d, tool, args, size)
      BY <3>1
    <3>3. card'.token.tool # "ref"
      BY <3>2, CardIsNoReference DEF Show
    <3>4. UNCHANGED <<channel, cfg, ring, clock, agents, bound, ref, window, wrote>>
      BY <3>2 DEF Show
    <3> QED BY <3>3, <3>4 DEF ChatInv, Up, Fitting
  <2>3. ASSUME Up, NEW d \in Own(Messages), Keep(d) PROVE ChatInv'
    <3>1. d.tenant = Home[d.by]
      BY DeliveryShape DEF Own
    <3> DEFINE tok == Reference(d, Env(d.by, Full))
    <3>2. /\ ref'.token = tok /\ ref'.owner = d.by /\ tok # NoToken
          /\ UNCHANGED <<channel, cfg, ring, clock, agents, bound, card, window, wrote>>
      BY <2>3 DEF Keep
    <3>3. tok.tool = "ref" /\ tok.args = [tenant |-> d.tenant, user |-> d.by]
      BY <3>2, ReferenceNamesUser
    <3> HIDE DEF tok
    <3> QED BY <3>1, <3>2, <3>3 DEF ChatInv, Up, Fitting
  <2>4. ASSUME Up, NEW d, Bind(d) PROVE ChatInv'
    BY <2>4 DEF Bind, ChatInv, Up, Fitting
  <2>5. ASSUME Up, NEW d, NEW lv, Write(d, lv) PROVE ChatInv'
    <3>1. /\ wrote' = IF d.flaws \cap {"signature", "body", "sender"} = {}
                      THEN [wrote EXCEPT ![d.by] = clock] ELSE wrote
          /\ window' = IF "window" \in Outcome(d, lv).did THEN [window EXCEPT ![d.by] = clock] ELSE window
          /\ UNCHANGED <<channel, cfg, ring, clock, agents, bound, card, ref>>
      BY <2>5 DEF Write
    <3>2. "window" \in Outcome(d, lv).did => d.flaws \cap {"signature", "body", "sender"} = {}
      BY <2>5, WindowOpener DEF Write
    <3> DEFINE opened_ == "window" \in Outcome(d, lv).did
               sent == d.flaws \cap {"signature", "body", "sender"} = {}
    <3>3. /\ wrote' = IF sent THEN [wrote EXCEPT ![d.by] = clock] ELSE wrote
          /\ window' = IF opened_ THEN [window EXCEPT ![d.by] = clock] ELSE window
          /\ opened_ => sent
      BY <3>1, <3>2
    <3> HIDE DEF opened_, sent
    <3>4. /\ wrote' \in [Users -> Nat] /\ window' \in [Users -> Nat]
          /\ \A u \in Users : window'[u] <= wrote'[u] /\ wrote'[u] <= clock
      <4>1. /\ wrote \in [Users -> Nat] /\ window \in [Users -> Nat] /\ clock \in Nat
            /\ \A u \in Users : window[u] <= wrote[u] /\ wrote[u] <= clock
        BY DEF ChatInv
      <4> DEFINE w == [wrote EXCEPT ![d.by] = clock]
                 v == [window EXCEPT ![d.by] = clock]
      <4>5. /\ w \in [Users -> Nat] /\ v \in [Users -> Nat]
            /\ \A u \in Users : /\ w[u] = IF u = d.by THEN clock ELSE wrote[u]
                                /\ v[u] = IF u = d.by THEN clock ELSE window[u]
        BY <4>1
      <4>6. \A u \in Users : wrote[u] \in Nat /\ window[u] \in Nat
        BY <4>1
      <4>7. /\ wrote' = IF sent THEN w ELSE wrote
            /\ window' = IF opened_ THEN v ELSE window
        BY <3>3
      <4> HIDE DEF w, v
      <4>2. CASE sent /\ opened_
        BY <4>1, <4>2, <4>5, <4>6, <4>7
      <4>3. CASE sent /\ ~opened_
        BY <4>1, <4>3, <4>5, <4>6, <4>7
      <4>4. CASE ~sent /\ ~opened_
        BY <3>3, <4>1, <4>4
      <4> QED BY <3>3, <4>2, <4>3, <4>4
    <3> QED BY <3>1, <3>4 DEF ChatInv, Up, Fitting
  <2>6. ASSUME Up, NEW t \in 1..MaxClock, Tick(t) PROVE ChatInv'
    <3>1. t \in Nat /\ clock' = t /\ clock < t
      <4>1. clock \in Nat /\ t \in (clock + 1)..MaxClock /\ MaxClock \in Nat /\ clock' = t
        BY <2>6, ChatConstants DEF Tick, ChatInv
      <4> QED BY <4>1
    <3>2. UNCHANGED <<channel, cfg, ring, agents, bound, card, ref, window, wrote>>
      BY <2>6 DEF Tick
    <3> QED BY <3>1, <3>2 DEF ChatInv, Up, Fitting
  <2>7. ASSUME Up, Rotate \/ Retire PROVE ChatInv'
    BY <2>7 DEF Rotate, Retire, ChatInv, Up, Fitting
  <2>8. ASSUME Up, NEW a \in agents, Revoke(a) PROVE ChatInv'
    BY <2>8 DEF Revoke, ChatInv, Up, Fitting
  <2> QED BY <2>1, <2>2, <2>3, <2>4, <2>5, <2>6, <2>7, <2>8 DEF ChatNext
<1>3. ASSUME ChatInv, UNCHANGED chatVars PROVE ChatInv'
  BY <1>3 DEF ChatInv, chatVars, Up, Fitting
<1> QED BY <1>1, <1>2, <1>3 DEF IngressNext, ChatStep, HttpStep, KeysStep, LimitsStep, PlatformStep, ingressVars

(***************************************************************************)
(* Chat: turns that the router gives to nobody.                            *)
(***************************************************************************)

\* A list of gates none of which does anything of Y.
Free(s, Y) == IsList(s) /\ \A i \in 1..Len(s) : s[i].does \notin Y

\* Lemma: a tuple of gates does what they do.
LEMMA TuplesFree ==
    ASSUME NEW Y
    PROVE  /\ Free(<<>>, Y)
           /\ \A a : a.does \notin Y => Free(<< a >>, Y)
           /\ \A a, b : a.does \notin Y /\ b.does \notin Y => Free(<< a, b >>, Y)
           /\ \A a, b, c : a.does \notin Y /\ b.does \notin Y /\ c.does \notin Y => Free(<< a, b, c >>, Y)
           /\ \A a, b, c, d : a.does \notin Y /\ b.does \notin Y /\ c.does \notin Y /\ d.does \notin Y => Free(<< a, b, c, d >>, Y)
           /\ \A a, b, c, d, e : a.does \notin Y /\ b.does \notin Y /\ c.does \notin Y /\ d.does \notin Y /\ e.does \notin Y => Free(<< a, b, c, d, e >>, Y)
           /\ \A a, b, c, d, e, f, g : a.does \notin Y /\ b.does \notin Y /\ c.does \notin Y /\ d.does \notin Y /\ e.does \notin Y /\ f.does \notin Y /\ g.does \notin Y => Free(<< a, b, c, d, e, f, g >>, Y)
<1>0. Free(<<>>, Y)
  BY Tuples DEF Free
<1>1. ASSUME NEW a, a.does \notin Y
      PROVE  Free(<< a >>, Y)
  <2> DEFINE t == << a >>
  <2>1. IsList(t)
    BY Tuples
  <2>2. Len(t) = 1 /\ t[1] = a
    OBVIOUS
  <2> HIDE DEF t
  <2>3. \A i \in 1..Len(t) : i = 1
    BY <2>2
  <2>4. Free(t, Y)
    BY <1>1, <2>1, <2>2, <2>3 DEF Free
  <2> QED BY <2>4 DEF t
<1>2. ASSUME NEW a, NEW b, a.does \notin Y, b.does \notin Y
      PROVE  Free(<< a, b >>, Y)
  <2> DEFINE t == << a, b >>
  <2>1. IsList(t)
    BY Tuples
  <2>2. Len(t) = 2 /\ t[1] = a /\ t[2] = b
    OBVIOUS
  <2> HIDE DEF t
  <2>3. \A i \in 1..Len(t) : i = 1 \/ i = 2
    BY <2>2
  <2>4. Free(t, Y)
    BY <1>2, <2>1, <2>2, <2>3 DEF Free
  <2> QED BY <2>4 DEF t
<1>3. ASSUME NEW a, NEW b, NEW c, a.does \notin Y, b.does \notin Y, c.does \notin Y
      PROVE  Free(<< a, b, c >>, Y)
  <2> DEFINE t == << a, b, c >>
  <2>1. IsList(t)
    BY Tuples
  <2>2. Len(t) = 3 /\ t[1] = a /\ t[2] = b /\ t[3] = c
    OBVIOUS
  <2> HIDE DEF t
  <2>3. \A i \in 1..Len(t) : i = 1 \/ i = 2 \/ i = 3
    BY <2>2
  <2>4. Free(t, Y)
    BY <1>3, <2>1, <2>2, <2>3 DEF Free
  <2> QED BY <2>4 DEF t
<1>4. ASSUME NEW a, NEW b, NEW c, NEW d, a.does \notin Y, b.does \notin Y, c.does \notin Y, d.does \notin Y
      PROVE  Free(<< a, b, c, d >>, Y)
  <2> DEFINE t == << a, b, c, d >>
  <2>1. IsList(t)
    BY Tuples
  <2>2. Len(t) = 4 /\ t[1] = a /\ t[2] = b /\ t[3] = c /\ t[4] = d
    OBVIOUS
  <2> HIDE DEF t
  <2>3. \A i \in 1..Len(t) : i = 1 \/ i = 2 \/ i = 3 \/ i = 4
    BY <2>2
  <2>4. Free(t, Y)
    BY <1>4, <2>1, <2>2, <2>3 DEF Free
  <2> QED BY <2>4 DEF t
<1>5. ASSUME NEW a, NEW b, NEW c, NEW d, NEW e, a.does \notin Y, b.does \notin Y, c.does \notin Y, d.does \notin Y, e.does \notin Y
      PROVE  Free(<< a, b, c, d, e >>, Y)
  <2> DEFINE t == << a, b, c, d, e >>
  <2>1. IsList(t)
    BY Tuples
  <2>2. Len(t) = 5 /\ t[1] = a /\ t[2] = b /\ t[3] = c /\ t[4] = d /\ t[5] = e
    OBVIOUS
  <2> HIDE DEF t
  <2>3. \A i \in 1..Len(t) : i = 1 \/ i = 2 \/ i = 3 \/ i = 4 \/ i = 5
    BY <2>2
  <2>4. Free(t, Y)
    BY <1>5, <2>1, <2>2, <2>3 DEF Free
  <2> QED BY <2>4 DEF t
<1>7. ASSUME NEW a, NEW b, NEW c, NEW d, NEW e, NEW f, NEW g, a.does \notin Y, b.does \notin Y, c.does \notin Y, d.does \notin Y, e.does \notin Y, f.does \notin Y, g.does \notin Y
      PROVE  Free(<< a, b, c, d, e, f, g >>, Y)
  <2> DEFINE t == << a, b, c, d, e, f, g >>
  <2>1. IsList(t)
    BY Tuples
  <2>2. Len(t) = 7 /\ t[1] = a /\ t[2] = b /\ t[3] = c /\ t[4] = d /\ t[5] = e /\ t[6] = f /\ t[7] = g
    OBVIOUS
  <2> HIDE DEF t
  <2>3. \A i \in 1..Len(t) : i = 1 \/ i = 2 \/ i = 3 \/ i = 4 \/ i = 5 \/ i = 6 \/ i = 7
    BY <2>2
  <2>4. Free(t, Y)
    BY <1>7, <2>1, <2>2, <2>3 DEF Free
  <2> QED BY <2>4 DEF t
<1> QED BY <1>0, <1>1, <1>2, <1>3, <1>4, <1>5, <1>7

\* Lemma: a list that does nothing of Y is passed by nobody who does, and so is
\* one joined of two of them.
LEMMA FreeJoin ==
    ASSUME NEW Y
    PROVE  /\ \A s : Free(s, Y) => IsList(s) /\ \A d, e : \A y \in Y : ~Passes(s, d, e, y)
           /\ \A s, t : Free(s, Y) /\ Free(t, Y) => Free(s \o t, Y)
<1>1. \A s : Free(s, Y) => IsList(s) /\ \A d, e : \A y \in Y : ~Passes(s, d, e, y)
  BY DEF Free, Passes
<1>2. ASSUME NEW s, NEW t, Free(s, Y), Free(t, Y) PROVE Free(s \o t, Y)
  <2>1. IsList(s) /\ IsList(t) /\ IsList(s \o t)
    BY <1>2, Joined DEF Free
  <2>2. PICK S, T : s \in Seq(S) /\ t \in Seq(T)
    BY <2>1 DEF IsList
  <2>3. s \in Seq(S \cup T) /\ t \in Seq(S \cup T)
    BY <2>2, SeqMonotonic
  <2> DEFINE u == s \o t
  <2>4. /\ Len(u) = Len(s) + Len(t) /\ Len(s) \in Nat /\ Len(t) \in Nat
        /\ \A i \in 1..(Len(s) + Len(t)) : u[i] = IF i <= Len(s) THEN s[i] ELSE t[i - Len(s)]
    BY <2>3, ConcatProperties, LenProperties
  <2> HIDE DEF u
  <2>5. ASSUME NEW i \in 1..Len(u) PROVE u[i].does \notin Y
    <3>1. CASE i <= Len(s)
      <4>1. u[i] = s[i] /\ i \in 1..Len(s)
        BY <2>4, <3>1
      <4> QED BY <1>2, <4>1 DEF Free
    <3>2. CASE ~(i <= Len(s))
      <4>1. u[i] = t[i - Len(s)] /\ i - Len(s) \in 1..Len(t)
        BY <2>4, <3>2
      <4> QED BY <1>2, <4>1 DEF Free
    <3> QED BY <3>1, <3>2
  <2>6. Free(u, Y)
    BY <2>1, <2>5 DEF Free, u
  <2> QED BY <2>6 DEF u
<1> QED BY <1>1, <1>2

\* Lemma: the gates in front of a turn of Teams run nothing, bind nothing and
\* refresh nothing.
LEMMA TeamsFree ==
    ASSUME NEW d, NEW e
    PROVE  /\ Free(TeamsVerified, Acts) /\ Free(TeamsAdmit(d, e), Acts) /\ Free(TeamsConversation, Acts)
           /\ Free(TeamsImage(d, e), Acts)
<1>1. Free(TeamsVerified, Acts)
  <2> DEFINE a == Refuse("bearer", 401, Anon)
             b == Refuse("jwt", 401, Anon)
             c == Do("verified")
             f == Take("adapter", Anon)
             g == Refuse("body", 400, Anon)
             h == Refuse("urlHost", 401, Anon)
             i == Refuse("noUrl", 400, Anon)
  <2>1. /\ a.does \notin Acts /\ b.does \notin Acts /\ c.does \notin Acts /\ f.does \notin Acts
        /\ g.does \notin Acts /\ h.does \notin Acts /\ i.does \notin Acts
    BY DEF Acts, Refuse, Do, Take, Gate
  <2> HIDE DEF a, b, c, f, g, h, i
  <2>2. Free(<< a, b, c, f, g, h, i >>, Acts)
    BY <2>1, TuplesFree
  <2> QED BY <2>2 DEF a, b, c, f, g, h, i, TeamsVerified
<1>2. Free(TeamsConversation, Acts)
  <2> DEFINE a == Refuse("conversation", 400, Sub)
             b == Refuse("recipient", 400, Sub)
  <2>1. a.does \notin Acts /\ b.does \notin Acts
    BY DEF Acts, Refuse, Gate
  <2> HIDE DEF a, b
  <2>2. Free(<< a, b >>, Acts)
    BY <2>1, TuplesFree
  <2> QED BY <2>2 DEF a, b, TeamsConversation
<1>3. Free(TeamsImage(d, e), Acts)
  <2> DEFINE a == LeaveIf(DecodeWithCapAny(d.token, e.ring, TeamsRefCap) # "ok", 401)
             b == LeaveIf(d.token.tool # "img", 401)
             c == LeaveIf(d.token.tool = "img" /\ d.token.args.until < e.now, 410)
             f == Leave("imgArgs", 401)
             g == Do("render")
             h == Leave("noPng", 502)
             i == Done(200)
  <2>1. /\ a.does \notin Acts /\ b.does \notin Acts /\ c.does \notin Acts /\ f.does \notin Acts
        /\ g.does \notin Acts /\ h.does \notin Acts /\ i.does \notin Acts
    BY DEF Acts, LeaveIf, Leave, Do, Done, Gate
  <2> HIDE DEF a, b, c, f, g, h, i
  <2>2. Free(<< a, b, c, f, g, h, i >>, Acts)
    BY <2>1, TuplesFree
  <2> QED BY <2>2 DEF a, b, c, f, g, h, i, TeamsImage
<1> DEFINE azure == << Refuse("aad", 401, Anon), Refuse("noTenant", 401, Sub), Refuse("tenant", 401, Sub) >>
           sender == << Refuse("from", 400, Anon), Refuse("channel", 401, Anon), Refuse("family", 401, Anon) >>
           email == << Do("email") >>
           share == << Do("known"), Take(d.tenant, Sub) >>
<1>4. Free(azure, Acts)
  <2> DEFINE a == Refuse("aad", 401, Anon)
             b == Refuse("noTenant", 401, Sub)
             c == Refuse("tenant", 401, Sub)
  <2>1. a.does \notin Acts /\ b.does \notin Acts /\ c.does \notin Acts
    BY DEF Acts, Refuse, Gate
  <2> HIDE DEF a, b, c
  <2>2. Free(<< a, b, c >>, Acts)
    BY <2>1, TuplesFree
  <2> QED BY <2>2 DEF a, b, c
<1>5. Free(sender, Acts)
  <2> DEFINE a == Refuse("from", 400, Anon)
             b == Refuse("channel", 401, Anon)
             c == Refuse("family", 401, Anon)
  <2>1. a.does \notin Acts /\ b.does \notin Acts /\ c.does \notin Acts
    BY DEF Acts, Refuse, Gate
  <2> HIDE DEF a, b, c
  <2>2. Free(<< a, b, c >>, Acts)
    BY <2>1, TuplesFree
  <2> QED BY <2>2 DEF a, b, c
<1>6. Free(email, Acts)
  <2> DEFINE a == Do("email")
  <2>1. a.does \notin Acts
    BY DEF Acts, Do, Gate
  <2> HIDE DEF a
  <2>2. Free(<< a >>, Acts)
    BY <2>1, TuplesFree
  <2> QED BY <2>2 DEF a
<1>7. Free(share, Acts)
  <2> DEFINE a == Do("known")
             b == Take(d.tenant, Sub)
  <2>1. a.does \notin Acts /\ b.does \notin Acts
    BY DEF Acts, Do, Take, Gate
  <2> HIDE DEF a, b
  <2>2. Free(<< a, b >>, Acts)
    BY <2>1, TuplesFree
  <2> QED BY <2>2 DEF a, b
<1>8. Free(TableResolve, Acts)
  <2> DEFINE a == Refuse("sender", 401, Anon)
  <2>1. a.does \notin Acts
    BY DEF Acts, Refuse, Gate
  <2> HIDE DEF a
  <2>2. Free(<< a >>, Acts)
    BY <2>1, TuplesFree
  <2> QED BY <2>2 DEF a, TableResolve
<1> DEFINE who == IF e.cfg.identity = "azure" THEN azure ELSE TableResolve
           member == IF e.cfg.identity = "azure" THEN email ELSE <<>>
<1>9. TeamsAdmit(d, e) = ((sender \o who) \o member) \o share
  BY Zenon DEF TeamsAdmit, TeamsResolveSender, TeamsIdentity, TeamsFamily, TeamsMember
<1> HIDE DEF azure, sender, email, share
<1>10. Free(who, Acts) /\ Free(member, Acts)
  BY <1>4, <1>6, <1>8, TuplesFree
<1> HIDE DEF who, member
<1>11. Free(((sender \o who) \o member) \o share, Acts)
  BY <1>5, <1>7, <1>10, FreeJoin
<1> QED BY <1>1, <1>2, <1>3, <1>9, <1>11

\* Lemma: and so do those of Google Chat.
LEMMA GoogleFree ==
    ASSUME NEW d, NEW e
    PROVE  /\ Free(GoogleVerified, Acts) /\ Free(GoogleSender(d, e), Acts) /\ Free(GoogleImage(d, e), Acts)
<1>1. Free(GoogleVerified, Acts)
  <2> DEFINE a == Refuse("bearer", 401, Anon)
             b == Refuse("jwt", 401, Anon)
             c == Do("verified")
             f == Take("adapter", Anon)
             g == Refuse("body", 400, Anon)
  <2>1. /\ a.does \notin Acts /\ b.does \notin Acts /\ c.does \notin Acts /\ f.does \notin Acts
        /\ g.does \notin Acts
    BY DEF Acts, Refuse, Do, Take, Gate
  <2> HIDE DEF a, b, c, f, g
  <2>2. Free(<< a, b, c, f, g >>, Acts)
    BY <2>1, TuplesFree
  <2> QED BY <2>2 DEF a, b, c, f, g, GoogleVerified
<1> DEFINE share == << Do("known"), Take(d.tenant, Sub) >>
           image == << LeaveIf(DecodeWithCapAny(d.token, e.ring, GoogleImageCap) # "ok", 404),
                       LeaveIf(d.token.tool \notin {"img", "dash"}, 404),
                       LeaveIf(d.token.tool \in {"img", "dash"} /\ d.token.args.until < e.now, 410),
                       Leave("imgArgs", 404) >>
           report == << Do("render"), Leave("noPng", 502), Done(200) >>
           dash == << Leave("spec", 400), Leave("specSize", 400), Leave("raster", 500), Done(200) >>
<1>2. Free(share, Acts)
  <2> DEFINE a == Do("known")
             b == Take(d.tenant, Sub)
  <2>1. a.does \notin Acts /\ b.does \notin Acts
    BY DEF Acts, Do, Take, Gate
  <2> HIDE DEF a, b
  <2>2. Free(<< a, b >>, Acts)
    BY <2>1, TuplesFree
  <2> QED BY <2>2 DEF a, b
<1>3. Free(image, Acts)
  <2> DEFINE a == LeaveIf(DecodeWithCapAny(d.token, e.ring, GoogleImageCap) # "ok", 404)
             b == LeaveIf(d.token.tool \notin {"img", "dash"}, 404)
             c == LeaveIf(d.token.tool \in {"img", "dash"} /\ d.token.args.until < e.now, 410)
             f == Leave("imgArgs", 404)
  <2>1. a.does \notin Acts /\ b.does \notin Acts /\ c.does \notin Acts /\ f.does \notin Acts
    BY DEF Acts, LeaveIf, Leave, Gate
  <2> HIDE DEF a, b, c, f
  <2>2. Free(<< a, b, c, f >>, Acts)
    BY <2>1, TuplesFree
  <2> QED BY <2>2 DEF a, b, c, f
<1>4. Free(report, Acts)
  <2> DEFINE a == Do("render")
             b == Leave("noPng", 502)
             c == Done(200)
  <2>1. a.does \notin Acts /\ b.does \notin Acts /\ c.does \notin Acts
    BY DEF Acts, Do, Leave, Done, LeaveIf, Gate
  <2> HIDE DEF a, b, c
  <2>2. Free(<< a, b, c >>, Acts)
    BY <2>1, TuplesFree
  <2> QED BY <2>2 DEF a, b, c
<1>5. Free(dash, Acts)
  <2> DEFINE a == Leave("spec", 400)
             b == Leave("specSize", 400)
             c == Leave("raster", 500)
             f == Done(200)
  <2>1. a.does \notin Acts /\ b.does \notin Acts /\ c.does \notin Acts /\ f.does \notin Acts
    BY DEF Acts, Leave, Done, LeaveIf, Gate
  <2> HIDE DEF a, b, c, f
  <2>2. Free(<< a, b, c, f >>, Acts)
    BY <2>1, TuplesFree
  <2> QED BY <2>2 DEF a, b, c, f
<1>6. Free(TableResolve, Acts)
  <2> DEFINE a == Refuse("sender", 401, Anon)
  <2>1. a.does \notin Acts
    BY DEF Acts, Refuse, Gate
  <2> HIDE DEF a
  <2>2. Free(<< a >>, Acts)
    BY <2>1, TuplesFree
  <2> QED BY <2>2 DEF a, TableResolve
<1>7. Free(UpstreamResolve, Acts)
  <2> DEFINE a == Refuse("noSender", 401, Anon)
             b == Do("resolve")
             c == Refuse("sender", 401, Anon)
  <2>1. a.does \notin Acts /\ b.does \notin Acts /\ c.does \notin Acts
    BY DEF Acts, Refuse, Do, Gate
  <2> HIDE DEF a, b, c
  <2>2. Free(<< a, b, c >>, Acts)
    BY <2>1, TuplesFree
  <2> QED BY <2>2 DEF a, b, c, UpstreamResolve
<1> DEFINE who == IF e.cfg.identity = "upstream" THEN UpstreamResolve ELSE TableResolve
           drawn == IF d.token.tool = "img" THEN report ELSE dash
<1>8. GoogleSender(d, e) = who \o share /\ GoogleImage(d, e) = image \o drawn
  BY Zenon DEF GoogleSender, GoogleResolveSender, GoogleImage
<1> HIDE DEF share, image, report, dash
<1>9. Free(who, Acts) /\ Free(drawn, Acts)
  BY <1>4, <1>5, <1>6, <1>7
<1> HIDE DEF who, drawn
<1>10. Free(who \o share, Acts) /\ Free(image \o drawn, Acts)
  BY <1>2, <1>3, <1>9, FreeJoin
<1> QED BY <1>1, <1>8, <1>10

\* Lemma: an agent that the router or a click on its chooser selects is one of
\* the catalogue it was asked with.
LEMMA RoutesIntoCatalogue ==
    ASSUME NEW S, IsFiniteSet(S)
    PROVE  /\ \A text, b, n : LET r == Resolve(text, b, n, S) IN
                 /\ r.to \in {"agent", "chooser", "info"}
                 /\ r.to = "agent" => r.agent \in {a.id : a \in S}
           /\ \A id, rest : LET r == ConfirmPick(id, rest, S) IN
                 r.to = "agent" => r.agent \in {a.id : a \in S}
<1> DEFINE OK(r) == /\ r.to \in {"agent", "chooser", "info"}
                    /\ r.to = "agent" => r.agent \in {a.id : a \in S}
<1>1. \A T : T \subseteq S /\ T # {} => TheOne(T) \in S
  BY DEF TheOne
<1>2. ASSUME NEW a \in S, NEW rest, NEW b PROVE OK(Selection(a, rest, b))
  BY DEF Selection
<1>3. \A reason, offered, rest : OK(Chooser(reason, offered, rest))
  BY DEF Chooser
<1>4. OK(Reserved)
  BY DEF Reserved
<1> HIDE DEF OK
<1>5. \A name : MatchOne(S, name) \subseteq S
  BY DEF MatchOne
<1>6. \A id : ById(S, id) \subseteq S
  BY DEF ById
<1>7. ASSUME NEW text PROVE OK(Switch(text, S))
  <2> DEFINE hits == MatchOne(S, text.name)
  <2>1. hits \subseteq S
    BY <1>5
  <2>2. CASE hits = {}
    BY <1>3, <2>2 DEF Switch
  <2>3. CASE hits # {}
    <3>1. TheOne(hits) \in S
      BY <1>1, <2>1, <2>3
    <3> QED BY <1>2, <1>3, <2>3, <3>1 DEF Switch
  <2> QED BY <2>2, <2>3
<1>8. Cardinality(S) = 1 => S # {}
  BY FS_EmptySet
<1>9. ASSUME NEW text, NEW b, NEW n PROVE OK(Resolve(text, b, n, S))
  <2>1. ById(S, b) # {} => TheOne(ById(S, b)) \in S
    BY <1>1, <1>6
  <2>2. ById(S, n) # {} => TheOne(ById(S, n)) \in S
    BY <1>1, <1>6
  <2>3. Cardinality(S) = 1 => TheOne(S) \in S
    BY <1>1, <1>8
  <2> QED BY <1>2, <1>3, <1>4, <1>7, <2>1, <2>2, <2>3 DEF Resolve
<1>10. ASSUME NEW id, NEW rest PROVE OK(ConfirmPick(id, rest, S))
  <2>1. ById(S, id) # {} => TheOne(ById(S, id)) \in S
    BY <1>1, <1>6
  <2> QED BY <1>2, <1>3, <2>1 DEF ConfirmPick
<1> QED BY <1>9, <1>10 DEF OK

\* Lemma: what comes of a delivery whose list does nothing of Acts, or stops at
\* a gate in front of what does.
LEMMA StopsShort ==
    ASSUME NEW s, NEW t, Free(s, Acts), IsList(t), NEW d, NEW e,
           Ends(t, d, e), ~Passes(t, d, e, "turn")
    PROVE  /\ IsList(s \o t) /\ Ends(s \o t, d, e) /\ ~Passes(s \o t, d, e, "turn")
           /\ "turn" \notin Judge(s \o t, d, e).did
<1>1. IsList(s) /\ ~Passes(s, d, e, "turn")
  BY FreeJoin DEF Acts
<1>2. IsList(s \o t) /\ Ends(s \o t, d, e) /\ ~Passes(s \o t, d, e, "turn")
  BY <1>1, Joined
<1> QED BY <1>2, JudgePasses

\* Lemma: gates that keep everything behind them from happening.
LEMMA Blocked ==
    ASSUME NEW h, NEW g, NEW t, NEW d, NEW e,
           Fails(h, d, e), h.does # "turn", g.does # "turn", IsList(t)
    PROVE  /\ IsList(<< h, g >> \o t) /\ Ends(<< h, g >> \o t, d, e)
           /\ ~Passes(<< h, g >> \o t, d, e, "turn")
<1> DEFINE s == << h, g >>
<1>1. IsList(s) /\ Len(s) = 2 /\ s[1] = h /\ s[2] = g
  BY Tuples
<1> HIDE DEF s
<1>2. Ends(s, d, e) /\ ~Clear(s, d, e)
  <2>1. 1 \in 1..Len(s) /\ Fails(s[1], d, e)
    BY <1>1
  <2> QED BY <2>1 DEF Ends, Clear
<1>3. ~Passes(s, d, e, "turn")
  <2>1. \A i \in 1..Len(s) : s[i] = h \/ s[i] = g
    BY <1>1
  <2> QED BY <2>1 DEF Passes
<1>4. IsList(s \o t) /\ Ends(s \o t, d, e) /\ ~Passes(s \o t, d, e, "turn")
  BY <1>1, <1>2, <1>3, Joined
<1> QED BY <1>4 DEF s

\* Lemma: Teams runs no turn of a message that the router gives to no agent.
LEMMA TeamsUnrouted ==
    ASSUME channel = "msteams", cfg.router, NEW d, d.kind = "message",
           TeamsRoute(d, Env(d.by, Full)).to \in {"chooser", "info"}
    PROVE  "turn" \notin Outcome(d, Full).did
<1> DEFINE e == Env(d.by, Full)
           theme == << Do("theme") >>
           choose == << Do("chooser"), Do("notice"), Done(200) >>
           inform == << Do("notice"), Done(200) >>
           routed == IF TeamsRoute(d, e).to = "chooser" THEN theme \o choose ELSE inform
<1>1. Outcome(d, Full) = Judge(TeamsVerified \o ((TeamsAdmit(d, e) \o TeamsConversation) \o routed), d, e)
  <2>1. Outcome(d, Full) = Judge(Request(d, e), d, e)
    BY DEF Outcome
  <2>2. Request(d, e) = TeamsRequest(d, e)
    BY DEF Request
  <2>3. TeamsRequest(d, e) = TeamsWebhook(d, e)
    BY DEF TeamsRequest
  <2>4. TeamsWebhook(d, e) = TeamsVerified \o TeamsDispatchMessage(d, e)
    BY DEF TeamsWebhook
  <2>5. e.cfg.router
    BY DEF Env
  <2>6. TeamsDispatchMessage(d, e) = (TeamsAdmit(d, e) \o TeamsConversation) \o TeamsRouted(d, e)
    BY <2>5 DEF TeamsDispatchMessage
  <2>7. TeamsRouted(d, e) = routed
    BY DEF TeamsRouted, TeamsChrome
  <2> HIDE DEF routed, e
  <2> QED BY Zenon, <2>1, <2>2, <2>3, <2>4, <2>6, <2>7
<1>2. Free(theme, Acts)
  <2> DEFINE a == Do("theme")
  <2>1. a.does \notin Acts
    BY DEF Acts, Do, Gate
  <2> HIDE DEF a
  <2>2. Free(<< a >>, Acts)
    BY <2>1, TuplesFree
  <2> QED BY <2>2 DEF a
<1>3. Free(choose, Acts) /\ Free(inform, Acts)
  <2> DEFINE a == Do("chooser")
             b == Do("notice")
             c == Done(200)
  <2>1. a.does \notin Acts /\ b.does \notin Acts /\ c.does \notin Acts
    BY DEF Acts, Do, Done, LeaveIf, Gate
  <2> HIDE DEF a, b, c
  <2>2. Free(<< a, b, c >>, Acts) /\ Free(<< b, c >>, Acts)
    BY <2>1, TuplesFree
  <2> QED BY <2>2 DEF a, b, c
<1>4. Ends(choose, d, e) /\ Ends(inform, d, e)
  <2> HIDE DEF e
  <2> QED BY EndLists
<1> HIDE DEF theme, choose, inform, e
<1>5. Free(theme \o choose, Acts) /\ Ends(theme \o choose, d, e)
  BY <1>2, <1>3, <1>4, FreeJoin, Joined
<1>6. Free(routed, Acts) /\ Ends(routed, d, e)
  BY <1>3, <1>4, <1>5
<1> HIDE DEF routed
<1>7. IsList(routed) /\ ~Passes(routed, d, e, "turn")
  BY <1>6, FreeJoin DEF Acts
<1>8. Free(TeamsVerified, Acts) /\ Free(TeamsAdmit(d, e) \o TeamsConversation, Acts)
  BY TeamsFree, FreeJoin
<1> DEFINE rest == (TeamsAdmit(d, e) \o TeamsConversation) \o routed
<1>9. IsList(rest) /\ Ends(rest, d, e) /\ ~Passes(rest, d, e, "turn")
  BY <1>6, <1>7, <1>8, StopsShort
<1>10. Outcome(d, Full) = Judge(TeamsVerified \o rest, d, e)
  BY <1>1
<1> HIDE DEF rest
<1>11. "turn" \notin Judge(TeamsVerified \o rest, d, e).did
  BY <1>8, <1>9, StopsShort
<1> QED BY <1>10, <1>11

\* Lemma: what runs a click of Teams is a list.
LEMMA TeamsRunsClick ==
    ASSUME NEW d, NEW e
    PROVE  IsList(TeamsRunClick(d, e))
<1>1. IsList(TeamsRender)
  BY Tuples, Joined DEF TeamsRender, TeamsChrome, TeamsChart
<1>2. IsList(TeamsPostReply(e)) /\ IsList(TeamsRefreshCard)
  <2> HIDE DEF TeamsRender
  <2> DEFINE a == << Do("turn") >>
             b == << Do("post"), Done(200) >>
             c == << Do("turn"), Do("courier"), Done(200) >>
             f == << Do("respond"), Done(200) >>
  <2>1. IsList(a) /\ IsList(b) /\ IsList(c) /\ IsList(f)
    BY Tuples
  <2>2. /\ TeamsPostReply(e) = IF e.cfg.courier THEN c ELSE (a \o TeamsRender) \o b
        /\ TeamsRefreshCard = (a \o TeamsRender) \o f
    BY Zenon DEF TeamsPostReply, TeamsRefreshCard
  <2> HIDE DEF a, b, c, f
  <2>3. IsList((a \o TeamsRender) \o b) /\ IsList((a \o TeamsRender) \o f)
    BY <1>1, <2>1, Joined
  <2> QED BY <2>1, <2>2, <2>3
<1>3. IsList(TeamsConversation)
  BY Tuples DEF TeamsConversation
<1> DEFINE a == << Do("line") >>
           b == << Do("turn"), Do("courier"), Done(200) >>
<1>4. IsList(a) /\ IsList(b)
  BY Tuples
<1>5. TeamsRunClick(d, e) \in
         {TeamsConversation \o TeamsPostReply(e), TeamsRefreshCard, a \o TeamsRefreshCard, b}
  BY DEF TeamsRunClick
<1> HIDE DEF a, b
<1>6. IsList(TeamsConversation \o TeamsPostReply(e)) /\ IsList(a \o TeamsRefreshCard)
  BY <1>2, <1>3, <1>4, Joined
<1> QED BY <1>2, <1>4, <1>5, <1>6

\* Lemma: to draw an image runs no turn.
LEMMA ImagesRunNothing ==
    ASSUME channel \in {"msteams", "google_chat"}, NEW d, d.kind = "image"
    PROVE  "turn" \notin Outcome(d, Full).did
<1> DEFINE e == Env(d.by, Full)
<1>1. Outcome(d, Full) = Judge(Request(d, e), d, e)
  BY DEF Outcome
<1>2. /\ channel = "msteams" => Request(d, e) = TeamsImage(d, e)
      /\ channel = "google_chat" => Request(d, e) = GoogleImage(d, e)
  BY DEF Request, TeamsRequest, GoogleRequest
<1> HIDE DEF e
<1>3. CASE channel = "msteams"
  <2>1. Ends(TeamsImage(d, e), d, e)
    BY LongEnds DEF TeamsImage
  <2>2. IsList(TeamsImage(d, e)) /\ ~Passes(TeamsImage(d, e), d, e, "turn")
    BY TeamsFree, FreeJoin DEF Acts
  <2>3. "turn" \notin Judge(TeamsImage(d, e), d, e).did
    BY <2>1, <2>2, JudgePasses
  <2> QED BY <1>1, <1>2, <1>3, <2>3
<1>4. CASE channel = "google_chat"
  <2> DEFINE image == << LeaveIf(DecodeWithCapAny(d.token, e.ring, GoogleImageCap) # "ok", 404),
                         LeaveIf(d.token.tool \notin {"img", "dash"}, 404),
                         LeaveIf(d.token.tool \in {"img", "dash"} /\ d.token.args.until < e.now, 410),
                         Leave("imgArgs", 404) >>
             report == << Do("render"), Leave("noPng", 502), Done(200) >>
             dash == << Leave("spec", 400), Leave("specSize", 400), Leave("raster", 500), Done(200) >>
             drawn == IF d.token.tool = "img" THEN report ELSE dash
  <2>1. Ends(GoogleImage(d, e), d, e)
    <3>1. GoogleImage(d, e) = image \o drawn
      BY Zenon DEF GoogleImage
    <3>2. IsList(image) /\ IsList(report) /\ IsList(dash)
      BY Tuples
    <3>3. Ends(report, d, e) /\ Ends(dash, d, e)
      <4> DEFINE a == Do("render")
                 b == Leave("noPng", 502)
                 x == Leave("spec", 400)
                 y == Leave("specSize", 400)
                 z == Leave("raster", 500)
      <4> HIDE DEF a, b, x, y, z
      <4>1. Ends(<< a, b, Done(200) >>, d, e)
        BY EndLists
      <4>2. Ends(<< x, y, z, Done(200) >>, d, e)
        BY LongEnds
      <4> QED BY <4>1, <4>2 DEF a, b, x, y, z
    <3> HIDE DEF image, report, dash
    <3>4. Ends(image \o drawn, d, e)
      BY <3>2, <3>3, Joined
    <3> QED BY <3>1, <3>4
  <2>2. IsList(GoogleImage(d, e)) /\ ~Passes(GoogleImage(d, e), d, e, "turn")
    BY GoogleFree, FreeJoin DEF Acts
  <2>3. "turn" \notin Judge(GoogleImage(d, e), d, e).did
    BY <2>1, <2>2, JudgePasses
  <2> QED BY <1>1, <1>2, <1>4, <2>3
<1> QED BY <1>3, <1>4

\* Lemma: Teams runs no turn of a click on a chooser for an agent that is not in
\* the catalogue.
LEMMA TeamsUnpicked ==
    ASSUME channel = "msteams", cfg.router, NEW d, d.token.tool = "use",
           d.kind \in {"submit", "execute", "fetch"},
           ConfirmPick(d.token.args, "text", agents).to # "agent"
    PROVE  "turn" \notin Outcome(d, Full).did
<1> DEFINE e == Env(d.by, Full)
<1>1. e.cfg.router /\ e.agents = agents
  BY DEF Env
<1>2. Outcome(d, Full) = Judge(TeamsRequest(d, e), d, e)
  <2>1. Outcome(d, Full) = Judge(Request(d, e), d, e)
    BY DEF Outcome
  <2>2. Request(d, e) = TeamsRequest(d, e)
    BY DEF Request
  <2> HIDE DEF e
  <2> QED BY <2>1, <2>2
<1> HIDE DEF e
<1>3. CASE d.kind \in {"submit", "execute"}
  <2> DEFINE p == ConfirmPick(d.token.args, "text", e.agents).to # "agent"
             verdict == RefuseIf(TeamsVerdict(d, e) # "ok", 401, Sub)
             got == << TeamsExtract, verdict >>
             pick == << LeaveIf(p, 200), Do("bind") >> \o TeamsRunClick(d, e)
             rest == (TeamsAdmit(d, e) \o got) \o pick
  <2>1. TeamsRequest(d, e) = TeamsVerified \o rest
    <3>1. TeamsRequest(d, e) = TeamsWebhook(d, e)
      BY <1>3 DEF TeamsRequest
    <3>2. TeamsWebhook(d, e) = TeamsVerified \o TeamsCallback(d, e)
      BY <1>3 DEF TeamsWebhook
    <3>3. TeamsPick(d, e) = pick
      BY Zenon DEF TeamsPick
    <3>4. TeamsCallback(d, e) = (TeamsAdmit(d, e) \o got) \o TeamsPick(d, e)
      BY <1>1 DEF TeamsCallback
    <3> HIDE DEF got, pick
    <3> QED BY Zenon, <3>1, <3>2, <3>3, <3>4
  <2>2. IsList(pick) /\ Ends(pick, d, e) /\ ~Passes(pick, d, e, "turn")
    <3> DEFINE h == LeaveIf(p, 200)
               g == Do("bind")
               t == TeamsRunClick(d, e)
    <3>1. p
      BY <1>1
    <3>2. h.when /\ h.does = "" /\ g.does = "bind"
      BY <3>1 DEF LeaveIf, Do, Gate
    <3>3. IsList(t)
      BY TeamsRunsClick
    <3>4. pick = << h, g >> \o t
      BY Zenon
    <3> HIDE DEF h, g, t, pick
    <3>5. Fails(h, d, e)
      BY <3>2 DEF Fails
    <3>6. h.does # "turn" /\ g.does # "turn"
      BY <3>2
    <3> QED BY <3>3, <3>4, <3>5, <3>6, Blocked
  <2>3. Free(got, Acts)
    <3>1. TeamsExtract.does \notin Acts /\ verdict.does \notin Acts
      BY DEF Acts, TeamsExtract, Refuse, RefuseIf, Gate
    <3> HIDE DEF verdict
    <3> QED BY <3>1, TuplesFree
  <2> HIDE DEF pick, got
  <2>4. Free(TeamsVerified, Acts) /\ Free(TeamsAdmit(d, e) \o got, Acts)
    BY <2>3, TeamsFree, FreeJoin
  <2>5. IsList(rest) /\ Ends(rest, d, e) /\ ~Passes(rest, d, e, "turn")
    BY <2>2, <2>4, StopsShort
  <2> HIDE DEF rest
  <2>6. "turn" \notin Judge(TeamsVerified \o rest, d, e).did
    BY <2>4, <2>5, StopsShort
  <2> QED BY <1>2, <2>1, <2>6
<1>4. CASE d.kind = "fetch"
  <2> DEFINE p == d.token.tool # "open"
             verdict == RefuseIf(TeamsVerdict(d, e) # "ok", 401, Sub)
             none == Leave("noToken", 400)
             got == << none, verdict >>
             dialog == << LeaveIf(p, 400), Leave("skill", 400), Do("turn"), Do("respond"), Done(200) >>
             rest == (TeamsAdmit(d, e) \o got) \o dialog
  <2>1. TeamsRequest(d, e) = TeamsVerified \o rest
    <3>1. TeamsRequest(d, e) = TeamsWebhook(d, e)
      BY <1>4 DEF TeamsRequest
    <3>2. TeamsWebhook(d, e) = TeamsVerified \o TeamsTaskFetch(d, e)
      BY <1>4 DEF TeamsWebhook
    <3>3. TeamsTaskFetch(d, e) = rest
      BY DEF TeamsTaskFetch
    <3> HIDE DEF rest
    <3> QED BY Zenon, <3>1, <3>2, <3>3
  <2>2. IsList(dialog) /\ Ends(dialog, d, e) /\ ~Passes(dialog, d, e, "turn")
    <3> DEFINE g == LeaveIf(p, 400)
               h == Leave("skill", 400)
               i == Do("turn")
               j == Do("respond")
               k == Done(200)
               t == << g, h, i, j, k >>
    <3>1. g.when /\ g.does = ""
      BY DEF LeaveIf, Gate
    <3>2. Fails(g, d, e)
      BY <3>1 DEF Fails
    <3> HIDE DEF g, h, i, j, k
    <3>3. IsList(t) /\ Len(t) = 5 /\ t[1] = g
      BY Tuples
    <3> HIDE DEF t
    <3>4. Fails(t[1], d, e)
      BY <3>2, <3>3
    <3>5. 1 \in 1..Len(t)
      BY <3>3
    <3>6. Ends(t, d, e)
      BY <3>4, <3>5 DEF Ends
    <3>7. ~Passes(t, d, e, "turn")
      <4>1. t[1].does # "turn"
        BY <3>1, <3>3
      <4> QED BY <3>3, <3>4, <4>1 DEF Passes
    <3> QED BY <3>3, <3>6, <3>7 DEF t, g, h, i, j, k
  <2>3. Free(got, Acts)
    <3>1. none.does \notin Acts /\ verdict.does \notin Acts
      BY DEF Acts, Leave, RefuseIf, Gate
    <3> HIDE DEF none, verdict
    <3> QED BY <3>1, TuplesFree
  <2> HIDE DEF dialog, got
  <2>4. Free(TeamsVerified, Acts) /\ Free(TeamsAdmit(d, e) \o got, Acts)
    BY <2>3, TeamsFree, FreeJoin
  <2>5. IsList(rest) /\ Ends(rest, d, e) /\ ~Passes(rest, d, e, "turn")
    BY <2>2, <2>4, StopsShort
  <2> HIDE DEF rest
  <2>6. "turn" \notin Judge(TeamsVerified \o rest, d, e).did
    BY <2>4, <2>5, StopsShort
  <2> QED BY <1>2, <2>1, <2>6
<1> QED BY <1>3, <1>4

\* Lemma: Google Chat runs no turn of a message or of a click on its chooser
\* that the router gives to no agent.
LEMMA GoogleUnrouted ==
    ASSUME channel = "google_chat", cfg.router, NEW d,
           d.kind = "message" \/ (d.kind = "click" /\ d.token.tool = "use"),
           GoogleRoute(d, Env(d.by, Full)).to \in {"chooser", "info"}
    PROVE  "turn" \notin Outcome(d, Full).did
<1> DEFINE e == Env(d.by, Full)
<1>1. e.cfg.router
  BY DEF Env
<1>2. Outcome(d, Full) = Judge(GoogleRequest(d, e), d, e)
  <2>1. Outcome(d, Full) = Judge(Request(d, e), d, e)
    BY DEF Outcome
  <2>2. Request(d, e) = GoogleRequest(d, e)
    BY DEF Request
  <2> HIDE DEF e
  <2> QED BY <2>1, <2>2
<1>3. GoogleRoute(d, e).to \in {"chooser", "info"}
  OBVIOUS
<1> HIDE DEF e
<1> DEFINE theme == << Do("theme") >>
           choose == << Do("chooser"), Do("respond"), Done(200) >>
           inform == << Done(200) >>
           routed == IF GoogleRoute(d, e).to = "chooser" THEN theme \o choose ELSE inform
           missing == << Refuse("noMessage", 400, Anon) >>
           got == << Refuse("noToken", 400, Anon) >>
           verdict == << RefuseIf(GoogleVerdict(d, e) # "ok", 401, Sub) >>
           front == IF d.kind = "message" THEN missing \o GoogleSender(d, e)
                    ELSE (got \o GoogleSender(d, e)) \o verdict
           rest == front \o routed
<1>4. GoogleRouted(d, e) = routed
  <2>1. GoogleRoute(d, e).to \in {"chooser", "info"}
    BY <1>3
  <2>2. e.cfg.router /\ (d.kind = "message" \/ d.token.tool = "use")
    BY <1>1
  <2> QED BY <2>1, <2>2 DEF GoogleRouted, GoogleRender
<1>5. GoogleRequest(d, e) = GoogleVerified \o rest
  <2>1. GoogleRequest(d, e) = GoogleWebhook(d, e)
    BY DEF GoogleRequest
  <2>2. CASE d.kind = "message"
    <3>1. GoogleWebhook(d, e) = GoogleVerified \o ((missing \o GoogleSender(d, e)) \o GoogleRouted(d, e))
      BY <2>2 DEF GoogleWebhook
    <3>2. front = missing \o GoogleSender(d, e)
      BY <2>2
    <3> HIDE DEF front, missing, routed
    <3> QED BY Zenon, <1>4, <2>1, <3>1, <3>2
  <2>3. CASE d.kind = "click"
    <3>1. GoogleWebhook(d, e) =
             GoogleVerified \o (((got \o GoogleSender(d, e)) \o verdict) \o GoogleRouted(d, e))
      BY <2>3 DEF GoogleWebhook, GoogleExtract
    <3>2. front = (got \o GoogleSender(d, e)) \o verdict
      BY <2>3
    <3> HIDE DEF front, got, verdict, routed
    <3> QED BY Zenon, <1>4, <2>1, <3>1, <3>2
  <2> QED BY <2>2, <2>3
<1>6. Free(theme, Acts) /\ Free(choose, Acts) /\ Free(inform, Acts)
  <2> DEFINE a == Do("theme")
             b == Do("chooser")
             c == Do("respond")
             f == Done(200)
  <2>1. a.does \notin Acts /\ b.does \notin Acts /\ c.does \notin Acts /\ f.does \notin Acts
    BY DEF Acts, Do, Done, LeaveIf, Gate
  <2> HIDE DEF a, b, c, f
  <2>2. Free(<< a >>, Acts) /\ Free(<< b, c, f >>, Acts) /\ Free(<< f >>, Acts)
    BY <2>1, TuplesFree
  <2> QED BY <2>2 DEF a, b, c, f
<1>7. Free(missing, Acts) /\ Free(got, Acts) /\ Free(verdict, Acts)
  <2> DEFINE a == Refuse("noMessage", 400, Anon)
             b == Refuse("noToken", 400, Anon)
             c == RefuseIf(GoogleVerdict(d, e) # "ok", 401, Sub)
  <2>1. a.does \notin Acts /\ b.does \notin Acts /\ c.does \notin Acts
    BY DEF Acts, Refuse, RefuseIf, Gate
  <2> HIDE DEF a, b, c
  <2>2. Free(<< a >>, Acts) /\ Free(<< b >>, Acts) /\ Free(<< c >>, Acts)
    BY <2>1, TuplesFree
  <2> QED BY <2>2 DEF a, b, c
<1>8. Ends(choose, d, e) /\ Ends(inform, d, e)
  BY EndLists, LongEnds
<1> HIDE DEF theme, choose, inform, missing, got, verdict
<1>9. Free(theme \o choose, Acts) /\ Ends(theme \o choose, d, e)
  BY <1>6, <1>8, FreeJoin, Joined
<1>10. Free(routed, Acts) /\ Ends(routed, d, e)
  BY <1>6, <1>8, <1>9
<1>11. Free(front, Acts)
  <2>1. Free(GoogleSender(d, e), Acts)
    BY GoogleFree
  <2> QED BY <1>7, <2>1, FreeJoin
<1> HIDE DEF front, routed
<1>12. IsList(routed) /\ ~Passes(routed, d, e, "turn")
  BY <1>10, FreeJoin DEF Acts
<1>13. IsList(rest) /\ Ends(rest, d, e) /\ ~Passes(rest, d, e, "turn")
  BY <1>10, <1>11, <1>12, StopsShort
<1> HIDE DEF rest
<1>14. "turn" \notin Judge(GoogleVerified \o rest, d, e).did
  <2>1. Free(GoogleVerified, Acts)
    BY GoogleFree
  <2> QED BY <1>13, <2>1, StopsShort
<1> QED BY <1>2, <1>5, <1>14

\* Lemma: a delivery that can arrive is a click, an image that is fetched or a
\* message without a token.
LEMMA Arrivals ==
    ASSUME NEW d \in Clicks \cup Messages
    PROVE  /\ d.kind \in Kinds /\ d.flaws = {}
           /\ \/ d.kind \in ClickKinds \cup {"image"}
              \/ d.kind \notin ClickKinds \cup {"image"} /\ d.token = NoToken
<1>1. CASE d \in Clicks
  <2>1. PICK k \in Kinds \cap (ClickKinds \cup {"image"}), u \in Users,
             t \in {card.token, ref.token, ImageToken}, date \in Dates, part \in Parts :
          d = Delivery(k, {}, u, t, Greeting, date, part)
    BY <1>1 DEF Clicks
  <2>2. d.kind = k /\ d.flaws = {}
    BY <2>1 DEF Delivery
  <2> QED BY <2>1, <2>2
<1>2. CASE d \in Messages
  <2>1. PICK k \in Kinds \ (ClickKinds \cup {"image"}), u \in Users, text \in Texts :
          d = Delivery(k, {}, u, NoToken, text, clock, "none")
    BY <1>2 DEF Messages
  <2>2. d.kind = k /\ d.flaws = {} /\ d.token = NoToken
    BY <2>1 DEF Delivery
  <2> QED BY <2>1, <2>2
<1> QED BY <1>1, <1>2

(***************************************************************************)
(* Chat: the statuses a delivery without a flaw may end with.              *)
(***************************************************************************)

\* A gate, and a list of gates, that ends no delivery d with a status of N; and a
\* list that ends it, with another.
Spare(g, d, e, N) == Fails(g, d, e) => g.status \notin N
Spares(s, d, e, N) == \E T : s \in Seq(T) /\ \A g \in T : Spare(g, d, e, N)
Settles(s, d, e, N) == Spares(s, d, e, N) /\ Ends(s, d, e)

\* What is asked of d and N in general: it has no flaw, and N is about none of the
\* refusals that flaws are not needed for.
Benign(d, N) == N = {} \/ (d.flaws = {} /\ N \cap {200, 400, 404, 429} = {})

\* The gates that end no benign delivery; the tuples of gates that do not if none
\* of their gates does; and the tuples that end it with a status outside N.
EasyGates(d, e, N) ==
    /\ \A x : Spare(Do(x), d, e, N)
    /\ \A f, n, w : Spare(Refuse(f, n, w), d, e, N)
    /\ \A f, n : Spare(Leave(f, n), d, e, N)
    /\ \A b, w : Spare(Take(b, w), d, e, N)
    /\ \A c, w : \A n \in {200, 400, 404} :
          Spare(LeaveIf(c, n), d, e, N) /\ Spare(RefuseIf(c, n, w), d, e, N)
    /\ Spare(Done(200), d, e, N)
    /\ \A c, n, w : (n \in N => ~c) => Spare(RefuseIf(c, n, w), d, e, N)
EasyLists(d, e, N) ==
    /\ Spares(<<>>, d, e, N)
    /\ \A a : Spare(a, d, e, N) => Spares(<< a >>, d, e, N)
    /\ \A a, b : Spare(a, d, e, N) /\ Spare(b, d, e, N) => Spares(<< a, b >>, d, e, N)
    /\ \A a, b, c :
          Spare(a, d, e, N) /\ Spare(b, d, e, N) /\ Spare(c, d, e, N) =>
          Spares(<< a, b, c >>, d, e, N)
    /\ \A a, b, c, f :
          Spare(a, d, e, N) /\ Spare(b, d, e, N) /\ Spare(c, d, e, N) /\ Spare(f, d, e, N) =>
          Spares(<< a, b, c, f >>, d, e, N)
    /\ \A a, b, c, f, g :
          Spare(a, d, e, N) /\ Spare(b, d, e, N) /\ Spare(c, d, e, N) /\ Spare(f, d, e, N) /\
          Spare(g, d, e, N) =>
          Spares(<< a, b, c, f, g >>, d, e, N)
    /\ \A a, b, c, f, g, h :
          Spare(a, d, e, N) /\ Spare(b, d, e, N) /\ Spare(c, d, e, N) /\ Spare(f, d, e, N) /\
          Spare(g, d, e, N) /\ Spare(h, d, e, N) =>
          Spares(<< a, b, c, f, g, h >>, d, e, N)
    /\ \A a, b, c, f, g, h, i :
          Spare(a, d, e, N) /\ Spare(b, d, e, N) /\ Spare(c, d, e, N) /\ Spare(f, d, e, N) /\
          Spare(g, d, e, N) /\ Spare(h, d, e, N) /\ Spare(i, d, e, N) =>
          Spares(<< a, b, c, f, g, h, i >>, d, e, N)
EasyEnds(d, e, N) ==
    /\ \A w : Settles(<< RefuseIf(TRUE, 200, w) >>, d, e, N)
    /\ Settles(<< Done(200) >>, d, e, N)
    /\ \A a : Spare(a, d, e, N) => Settles(<< a, Done(200) >>, d, e, N)
    /\ \A a, b : Spare(a, d, e, N) /\ Spare(b, d, e, N) => Settles(<< a, b, Done(200) >>, d, e, N)
    /\ \A a, b, c :
          Spare(a, d, e, N) /\ Spare(b, d, e, N) /\ Spare(c, d, e, N) =>
          Settles(<< a, b, c, Done(200) >>, d, e, N)
    /\ \A a, b, c, f :
          Spare(a, d, e, N) /\ Spare(b, d, e, N) /\ Spare(c, d, e, N) /\ Spare(f, d, e, N) =>
          Settles(<< a, b, c, f, Done(200) >>, d, e, N)
    /\ \A a, b, c, f, g, h :
          Spare(a, d, e, N) /\ Spare(b, d, e, N) /\ Spare(c, d, e, N) /\ Spare(f, d, e, N) /\
          Spare(g, d, e, N) /\ Spare(h, d, e, N) =>
          Settles(<< a, b, c, f, g, h, Done(200) >>, d, e, N)

\* Lemma: which gates end no benign delivery.
LEMMA GateSpares ==
    ASSUME NEW d, NEW e, NEW N, Benign(d, N)
    PROVE  EasyGates(d, e, N)
<1>1. /\ \A f, n, w : Fails(Refuse(f, n, w), d, e) => f \in d.flaws
      /\ \A f, n : Fails(Leave(f, n), d, e) => f \in d.flaws
      /\ \A x : Fails(Do(x), d, e) => "" \in d.flaws
  BY DEF Refuse, Leave, Do, Gate, Fails
<1>2. /\ \A c, n, w : RefuseIf(c, n, w).status = n
      /\ \A c, n : LeaveIf(c, n).status = n /\ Done(n).status = n
      /\ \A b, w : Take(b, w).status = 429
  BY DEF RefuseIf, LeaveIf, Done, Take, Gate
<1>3. ASSUME NEW g, NEW n \in {200, 400, 404, 429}, g.status = n PROVE Spare(g, d, e, N)
  BY <1>3 DEF Spare, Benign
<1>4. ASSUME NEW g, Fails(g, d, e) => d.flaws # {} PROVE Spare(g, d, e, N)
  BY <1>4 DEF Spare, Benign
<1>5. /\ \A x : Spare(Do(x), d, e, N)
      /\ \A f, n, w : Spare(Refuse(f, n, w), d, e, N)
      /\ \A f, n : Spare(Leave(f, n), d, e, N)
  BY <1>1, <1>4
<1>6. /\ \A b, w : Spare(Take(b, w), d, e, N)
      /\ \A c, w : \A n \in {200, 400, 404} :
            Spare(LeaveIf(c, n), d, e, N) /\ Spare(RefuseIf(c, n, w), d, e, N)
      /\ Spare(Done(200), d, e, N)
  BY <1>2, <1>3
<1>7. ASSUME NEW c, NEW n, NEW w, n \in N => ~c PROVE Spare(RefuseIf(c, n, w), d, e, N)
  <2>1. CASE n \notin N
    BY <1>2, <2>1 DEF Spare
  <2>2. CASE n \in N
    <3> DEFINE g == RefuseIf(c, n, w)
    <3>1. g.flaw = "" /\ g.when = c /\ g.takes = ""
      BY DEF RefuseIf, Gate
    <3> HIDE DEF g
    <3>2. ~c
      BY <1>7, <2>2
    <3>3. Fails(g, d, e) => d.flaws # {}
      BY <3>1, <3>2 DEF Fails
    <3>4. Spare(g, d, e, N)
      BY <1>4, <3>3
    <3> QED BY <3>4 DEF g
  <2> QED BY <2>1, <2>2
<1> QED BY <1>5, <1>6, <1>7 DEF EasyGates

\* Lemma: a tuple of gates that end no delivery with a status of N.
LEMMA TupleSpares ==
    ASSUME NEW d, NEW e, NEW N
    PROVE  EasyLists(d, e, N)
<1>a. ASSUME NEW s, NEW T, s \in Seq(T), \A g \in T : Spare(g, d, e, N) PROVE Spares(s, d, e, N)
  BY Zenon, <1>a DEF Spares
<1>0. Spares(<<>>, d, e, N)
  <2> DEFINE t == <<>>
             T == {}
  <2>1. t \in Seq(T) /\ \A x \in T : Spare(x, d, e, N)
    OBVIOUS
  <2> HIDE DEF t, T
  <2>2. Spares(t, d, e, N)
    BY <1>a, <2>1
  <2> QED BY <2>2 DEF t
<1>1. ASSUME NEW a, \A x \in {a} : Spare(x, d, e, N)
      PROVE  Spares(<< a >>, d, e, N)
  <2> DEFINE t == << a >>
             T == {a}
  <2>1. t \in Seq(T) /\ \A x \in T : Spare(x, d, e, N)
    BY <1>1
  <2> HIDE DEF t, T
  <2>2. Spares(t, d, e, N)
    BY <1>a, <2>1
  <2> QED BY <2>2 DEF t
<1>2. ASSUME NEW a, NEW b, \A x \in {a, b} : Spare(x, d, e, N)
      PROVE  Spares(<< a, b >>, d, e, N)
  <2> DEFINE t == << a, b >>
             T == {a, b}
  <2>1. t \in Seq(T) /\ \A x \in T : Spare(x, d, e, N)
    BY <1>2
  <2> HIDE DEF t, T
  <2>2. Spares(t, d, e, N)
    BY <1>a, <2>1
  <2> QED BY <2>2 DEF t
<1>3. ASSUME NEW a, NEW b, NEW c, \A x \in {a, b, c} : Spare(x, d, e, N)
      PROVE  Spares(<< a, b, c >>, d, e, N)
  <2> DEFINE t == << a, b, c >>
             T == {a, b, c}
  <2>1. t \in Seq(T) /\ \A x \in T : Spare(x, d, e, N)
    BY <1>3
  <2> HIDE DEF t, T
  <2>2. Spares(t, d, e, N)
    BY <1>a, <2>1
  <2> QED BY <2>2 DEF t
<1>4. ASSUME NEW a, NEW b, NEW c, NEW f, \A x \in {a, b, c, f} : Spare(x, d, e, N)
      PROVE  Spares(<< a, b, c, f >>, d, e, N)
  <2> DEFINE t == << a, b, c, f >>
             T == {a, b, c, f}
  <2>1. t \in Seq(T) /\ \A x \in T : Spare(x, d, e, N)
    BY <1>4
  <2> HIDE DEF t, T
  <2>2. Spares(t, d, e, N)
    BY <1>a, <2>1
  <2> QED BY <2>2 DEF t
<1>5. ASSUME NEW a, NEW b, NEW c, NEW f, NEW g, \A x \in {a, b, c, f, g} : Spare(x, d, e, N)
      PROVE  Spares(<< a, b, c, f, g >>, d, e, N)
  <2> DEFINE t == << a, b, c, f, g >>
             T == {a, b, c, f, g}
  <2>1. t \in Seq(T) /\ \A x \in T : Spare(x, d, e, N)
    BY <1>5
  <2> HIDE DEF t, T
  <2>2. Spares(t, d, e, N)
    BY <1>a, <2>1
  <2> QED BY <2>2 DEF t
<1>6. ASSUME NEW a, NEW b, NEW c, NEW f, NEW g, NEW h, \A x \in {a, b, c, f, g, h} : Spare(x, d, e, N)
      PROVE  Spares(<< a, b, c, f, g, h >>, d, e, N)
  <2> DEFINE t == << a, b, c, f, g, h >>
             T == {a, b, c, f, g, h}
  <2>1. t \in Seq(T) /\ \A x \in T : Spare(x, d, e, N)
    BY <1>6
  <2> HIDE DEF t, T
  <2>2. Spares(t, d, e, N)
    BY <1>a, <2>1
  <2> QED BY <2>2 DEF t
<1>7. ASSUME NEW a, NEW b, NEW c, NEW f, NEW g, NEW h, NEW i, \A x \in {a, b, c, f, g, h, i} : Spare(x, d, e, N)
      PROVE  Spares(<< a, b, c, f, g, h, i >>, d, e, N)
  <2> DEFINE t == << a, b, c, f, g, h, i >>
             T == {a, b, c, f, g, h, i}
  <2>1. t \in Seq(T) /\ \A x \in T : Spare(x, d, e, N)
    BY <1>7
  <2> HIDE DEF t, T
  <2>2. Spares(t, d, e, N)
    BY <1>a, <2>1
  <2> QED BY <2>2 DEF t
<1> QED BY <1>0, <1>1, <1>2, <1>3, <1>4, <1>5, <1>6, <1>7 DEF EasyLists

\* Lemma: a tuple of gates that ends a benign delivery.
LEMMA TupleEnds ==
    ASSUME NEW d, NEW e, NEW N, Benign(d, N)
    PROVE  EasyEnds(d, e, N)
<1>1. \A s : Spares(s, d, e, N) /\ Ends(s, d, e) => Settles(s, d, e, N)
  BY DEF Settles
<1>2. EasyGates(d, e, N) /\ EasyLists(d, e, N)
  BY GateSpares, TupleSpares
<1>3. ASSUME NEW w PROVE Settles(<< RefuseIf(TRUE, 200, w) >>, d, e, N)
  <2> DEFINE z == RefuseIf(TRUE, 200, w)
  <2>1. Spare(z, d, e, N)
    BY <1>2 DEF EasyGates
  <2>2. Ends(<< z >>, d, e)
    BY EndLists
  <2> HIDE DEF z
  <2>3. Settles(<< z >>, d, e, N)
    BY <1>1, <1>2, <2>1, <2>2 DEF EasyLists
  <2> QED BY <2>3 DEF z
<1>4. Spare(Done(200), d, e, N)
  BY <1>2 DEF EasyGates
<1>5. Settles(<< Done(200) >>, d, e, N)
  <2> DEFINE z == Done(200)
  <2>1. Spare(z, d, e, N) /\ Ends(<< z >>, d, e)
    BY <1>4, LongEnds
  <2> HIDE DEF z
  <2>2. Spares(<< z >>, d, e, N)
    BY <1>2, <2>1 DEF EasyLists
  <2>3. Settles(<< z >>, d, e, N)
    BY <1>1, <2>1, <2>2
  <2> QED BY <2>3 DEF z
<1>6. ASSUME NEW a,
             Spare(a, d, e, N)
      PROVE  Settles(<< a, Done(200) >>, d, e, N)
  <2> DEFINE z == Done(200)
  <2>1. Spare(z, d, e, N) /\ Ends(<< a, z >>, d, e)
    BY <1>4, EndLists
  <2> HIDE DEF z
  <2>2. Spares(<< a, z >>, d, e, N)
    BY <1>2, <1>6, <2>1 DEF EasyLists
  <2>3. Settles(<< a, z >>, d, e, N)
    BY <1>1, <2>1, <2>2
  <2> QED BY <2>3 DEF z
<1>7. ASSUME NEW a, NEW b,
             Spare(a, d, e, N), Spare(b, d, e, N)
      PROVE  Settles(<< a, b, Done(200) >>, d, e, N)
  <2> DEFINE z == Done(200)
  <2>1. Spare(z, d, e, N) /\ Ends(<< a, b, z >>, d, e)
    BY <1>4, EndLists
  <2> HIDE DEF z
  <2>2. Spares(<< a, b, z >>, d, e, N)
    BY <1>2, <1>7, <2>1 DEF EasyLists
  <2>3. Settles(<< a, b, z >>, d, e, N)
    BY <1>1, <2>1, <2>2
  <2> QED BY <2>3 DEF z
<1>8. ASSUME NEW a, NEW b, NEW c,
             Spare(a, d, e, N), Spare(b, d, e, N), Spare(c, d, e, N)
      PROVE  Settles(<< a, b, c, Done(200) >>, d, e, N)
  <2> DEFINE z == Done(200)
  <2>1. Spare(z, d, e, N) /\ Ends(<< a, b, c, z >>, d, e)
    BY <1>4, LongEnds
  <2> HIDE DEF z
  <2>2. Spares(<< a, b, c, z >>, d, e, N)
    BY <1>2, <1>8, <2>1 DEF EasyLists
  <2>3. Settles(<< a, b, c, z >>, d, e, N)
    BY <1>1, <2>1, <2>2
  <2> QED BY <2>3 DEF z
<1>9. ASSUME NEW a, NEW b, NEW c, NEW f,
             Spare(a, d, e, N), Spare(b, d, e, N), Spare(c, d, e, N), Spare(f, d, e, N)
      PROVE  Settles(<< a, b, c, f, Done(200) >>, d, e, N)
  <2> DEFINE z == Done(200)
  <2>1. Spare(z, d, e, N) /\ Ends(<< a, b, c, f, z >>, d, e)
    BY <1>4, LongEnds
  <2> HIDE DEF z
  <2>2. Spares(<< a, b, c, f, z >>, d, e, N)
    BY <1>2, <1>9, <2>1 DEF EasyLists
  <2>3. Settles(<< a, b, c, f, z >>, d, e, N)
    BY <1>1, <2>1, <2>2
  <2> QED BY <2>3 DEF z
<1>10. ASSUME NEW a, NEW b, NEW c, NEW f, NEW g, NEW h,
             Spare(a, d, e, N), Spare(b, d, e, N), Spare(c, d, e, N), Spare(f, d, e, N),
             Spare(g, d, e, N), Spare(h, d, e, N)
      PROVE  Settles(<< a, b, c, f, g, h, Done(200) >>, d, e, N)
  <2> DEFINE z == Done(200)
  <2>1. Spare(z, d, e, N) /\ Ends(<< a, b, c, f, g, h, z >>, d, e)
    BY <1>4, LongEnds
  <2> HIDE DEF z
  <2>2. Spares(<< a, b, c, f, g, h, z >>, d, e, N)
    BY <1>2, <1>10, <2>1 DEF EasyLists
  <2>3. Settles(<< a, b, c, f, g, h, z >>, d, e, N)
    BY <1>1, <2>1, <2>2
  <2> QED BY <2>3 DEF z
<1>11. \A w : Settles(<< RefuseIf(TRUE, 200, w) >>, d, e, N)
  BY <1>3
<1>12. \A a : Spare(a, d, e, N) => Settles(<< a, Done(200) >>, d, e, N)
  BY <1>6
<1>13. \A a, b : Spare(a, d, e, N) /\ Spare(b, d, e, N) => Settles(<< a, b, Done(200) >>, d, e, N)
  BY <1>7
<1> QED BY <1>5, <1>8, <1>9, <1>10, <1>11, <1>12, <1>13 DEF EasyEnds

\* Lemma: lists that end no delivery with a status of N, joined; and what comes of
\* a delivery that such a list ends.
LEMMA SparesJoin ==
    ASSUME NEW d, NEW e, NEW N
    PROVE  /\ \A s : Spares(s, d, e, N) => IsList(s)
           /\ \A s, t : Spares(s, d, e, N) /\ Spares(t, d, e, N) => Spares(s \o t, d, e, N)
           /\ \A s, t : Spares(s, d, e, N) /\ Settles(t, d, e, N) => Settles(s \o t, d, e, N)
           /\ \A s : Settles(s, d, e, N) => Judge(s, d, e).status \notin N
<1>1. ASSUME NEW s, Spares(s, d, e, N) PROVE IsList(s)
  BY <1>1 DEF Spares, IsList
<1>2. ASSUME NEW s, NEW t, Spares(s, d, e, N), Spares(t, d, e, N) PROVE Spares(s \o t, d, e, N)
  <2>1. PICK S : s \in Seq(S) /\ \A g \in S : Spare(g, d, e, N)
    BY <1>2 DEF Spares
  <2>2. PICK T : t \in Seq(T) /\ \A g \in T : Spare(g, d, e, N)
    BY <1>2 DEF Spares
  <2>3. s \in Seq(S \cup T) /\ t \in Seq(S \cup T)
    BY <2>1, <2>2, SeqMonotonic
  <2>4. s \o t \in Seq(S \cup T)
    BY <2>3, ConcatProperties
  <2> QED BY <2>1, <2>2, <2>4 DEF Spares
<1>3. ASSUME NEW s, NEW t, Spares(s, d, e, N), Settles(t, d, e, N) PROVE Settles(s \o t, d, e, N)
  <2>1. IsList(s) /\ IsList(t)
    BY <1>1, <1>3 DEF Settles
  <2> QED BY <1>2, <1>3, <2>1, Joined DEF Settles
<1>4. ASSUME NEW s, Settles(s, d, e, N) PROVE Judge(s, d, e).status \notin N
  <2>1. PICK T : s \in Seq(T) /\ \A g \in T : Spare(g, d, e, N)
    BY <1>4 DEF Settles, Spares
  <2>2. IsList(s) /\ Ends(s, d, e)
    BY <1>1, <1>4 DEF Settles
  <2>3. PICK n \in 1..Len(s) : Fails(s[n], d, e) /\ Judge(s, d, e).status = s[n].status
    BY <2>2, JudgeEnds
  <2>4. s[n] \in T
    BY <2>1, <2>3
  <2> QED BY <2>1, <2>3, <2>4 DEF Spare
<1> QED BY <1>1, <1>2, <1>3, <1>4

\* Lemma: how lists are put together that end no delivery with a status of N.
LEMMA Easy ==
    ASSUME NEW d, NEW e, NEW N, Benign(d, N)
    PROVE  /\ EasyGates(d, e, N) /\ EasyLists(d, e, N) /\ EasyEnds(d, e, N)
           /\ Spares(TableResolve, d, e, N) /\ Spares(UpstreamResolve, d, e, N)
<1>1. EasyGates(d, e, N) /\ EasyLists(d, e, N) /\ EasyEnds(d, e, N)
  BY GateSpares, TupleSpares, TupleEnds
<1>2. Spares(TableResolve, d, e, N) /\ Spares(UpstreamResolve, d, e, N)
  BY <1>1 DEF EasyGates, EasyLists, TableResolve, UpstreamResolve
<1> QED BY <1>1, <1>2

\* Lemma: the adapters of phones end a benign delivery with a status outside N.
LEMMA PhoneSettles ==
    ASSUME NEW d, NEW e, NEW N, Benign(d, N)
    PROVE  /\ Settles(WhatsAppRequest(d, e), d, e, N) /\ Settles(TwilioRequest(d), d, e, N)
           /\ Settles(RcsRequest(d), d, e, N) /\ Settles(TwilioStatus(d, e), d, e, N)
           /\ Settles(BridgeRequest(d), d, e, N) /\ Settles(SignalRequest(d), d, e, N)
<1>1. EasyGates(d, e, N) /\ EasyLists(d, e, N) /\ EasyEnds(d, e, N)
  BY Easy
<1>2. Spares(TableResolve, d, e, N) /\ Spares(UpstreamResolve, d, e, N)
  BY Easy
<1> DEFINE Mild(s) == Spares(s, d, e, N)
           End(s) == Settles(s, d, e, N)
           other == LeaveIf(d.kind # "message", 200)
           webhook == << WhatsAppSignature, Do("verified"), Take("adapter", Anon),
                         Refuse("body", 400, Anon), other >>
           opens == << Do("known"), Do("window"), Take(d.tenant, Sub) >>
           bridge == << Do("verified"), other, Take("adapter", Anon) >>
           share == << Do("known"), Take(d.tenant, Sub) >>
           twilio == << Refuse("body", 400, Anon), TwilioSignature, Do("verified"),
                        Take("adapter", Anon), other,
                        Refuse("prefix", 400, Anon) >>
           signal == << Do("verified"), other, Take("adapter", Anon),
                        Refuse("noUuid", 400, Anon) >>
<1>3. Spare(other, d, e, N)
  <2>1. EasyGates(d, e, N)
    BY <1>1
  <2> QED BY <2>1 DEF EasyGates
<1> HIDE DEF other
<1>4. Mild(webhook) /\ Mild(opens)
  BY <1>3, <1>1 DEF EasyGates, EasyLists, WhatsAppSignature
<1>5. Mild(bridge) /\ Mild(share) /\ Mild(signal)
  BY <1>3, <1>1 DEF EasyGates, EasyLists
<1>6. Mild(twilio)
  BY <1>3, <1>1 DEF EasyGates, EasyLists, TwilioSignature
<1>7. End(PhoneTurn) /\ End(WhatsAppVerify)
  BY <1>1 DEF EasyGates, EasyEnds, PhoneTurn, WhatsAppVerify
<1>8. End(TwilioStatus(d, e))
  BY <1>1 DEF EasyGates, EasyEnds, TwilioStatus, TwilioSignature
<1>9. /\ \A s, t : Mild(s) /\ Mild(t) => Mild(s \o t)
      /\ \A s, t : Mild(s) /\ End(t) => End(s \o t)
  BY SparesJoin
<1> DEFINE who == IF e.cfg.identity = "upstream" THEN UpstreamResolve ELSE TableResolve
<1>10. Mild(who) /\ Mild(TableResolve)
  BY <1>2
<1>11. /\ WhatsAppWebhook(d, e) = webhook \o ((who \o opens) \o PhoneTurn)
       /\ BridgeRequest(d) = ((bridge \o TableResolve) \o share) \o PhoneTurn
       /\ TwilioRequest(d) = twilio \o ((TableResolve \o share) \o PhoneTurn)
       /\ RcsRequest(d) = twilio \o ((TableResolve \o share) \o PhoneTurn)
       /\ SignalRequest(d) = ((signal \o TableResolve) \o share) \o PhoneTurn
  BY Zenon DEF WhatsAppWebhook, WhatsAppMessage, BridgeRequest, TwilioRequest, RcsRequest,
               RcsMessage, TwilioMessage, SignalRequest, other
<1>12. WhatsAppRequest(d, e) \in {WhatsAppVerify, WhatsAppWebhook(d, e)}
  BY DEF WhatsAppRequest
<1> HIDE DEF webhook, opens, bridge, share, twilio, signal, who, Mild, End
<1>13. /\ End(webhook \o ((who \o opens) \o PhoneTurn))
       /\ End(((bridge \o TableResolve) \o share) \o PhoneTurn)
       /\ End(twilio \o ((TableResolve \o share) \o PhoneTurn))
       /\ End(((signal \o TableResolve) \o share) \o PhoneTurn)
  BY <1>4, <1>5, <1>6, <1>7, <1>9, <1>10
<1>14. /\ End(WhatsAppRequest(d, e)) /\ End(TwilioRequest(d)) /\ End(RcsRequest(d))
       /\ End(TwilioStatus(d, e)) /\ End(BridgeRequest(d)) /\ End(SignalRequest(d))
  BY <1>7, <1>8, <1>11, <1>12, <1>13
<1> QED BY <1>14 DEF End

\* Lemma: Telegram ends a benign delivery with a status outside N, unless it is a
\* click that is stale, early or not signed.
LEMMA TelegramSettles ==
    ASSUME NEW d, NEW e, NEW N, Benign(d, N),
           401 \in N /\ d.kind = "click" =>
               /\ ~TelegramStale(d, e) /\ ~(d.date > e.now + CallbackSkew)
               /\ TelegramVerdict(d, e) = "ok"
    PROVE  Settles(TelegramRequest(d, e), d, e, N)
<1>1. EasyGates(d, e, N) /\ EasyLists(d, e, N) /\ EasyEnds(d, e, N)
  BY Easy
<1>2. Spares(TableResolve, d, e, N) /\ Spares(UpstreamResolve, d, e, N)
  BY Easy
<1> DEFINE Mild(s) == Spares(s, d, e, N)
           End(s) == Settles(s, d, e, N)
           who == IF e.cfg.identity = "upstream" THEN UpstreamResolve ELSE TableResolve
           share == << Do("known"), Take(d.tenant, Sub) >>
           old == TelegramStale(d, e)
           soon == d.date > e.now + CallbackSkew
           bad == TelegramVerdict(d, e) # "ok"
           stale == RefuseIf(old, 401, Sub)
           early == RefuseIf(soon, 401, Sub)
           signed == RefuseIf(bad, 401, Sub)
           click == << Refuse("noToken", 400, Sub), Refuse("noDate", 401, Sub), stale, early, signed >>
           form == << Do("form"), Do("post"), Done(200) >>
           last == << Do("form"), Refuse("gone", 200, Sub) >>
           none == << Done(200) >>
           hook == << Refuse("secret", 401, Anon), Do("verified"), Take("adapter", Anon),
                      Refuse("body", 400, Anon) >>
           poll == << Do("verified"), Take("adapter", Anon) >>
<1>3. d.kind = "click" =>
         Spare(stale, d, e, N) /\ Spare(early, d, e, N) /\ Spare(signed, d, e, N)
  <2>1. EasyGates(d, e, N)
    BY <1>1
  <2>2. 401 \in N /\ d.kind = "click" => ~old /\ ~soon /\ ~bad
    OBVIOUS
  <2> HIDE DEF old, soon, bad
  <2> QED BY <2>1, <2>2 DEF EasyGates
<1> HIDE DEF stale, early, signed
<1>4. d.kind = "click" => Mild(click)
  BY <1>1, <1>3 DEF EasyGates, EasyLists
<1>5. Mild(share) /\ Mild(hook) /\ Mild(poll) /\ Mild(last)
  BY <1>1 DEF EasyGates, EasyLists
<1>6. End(form) /\ End(none) /\ End(TelegramTurn)
  BY <1>1 DEF EasyGates, EasyEnds, TelegramTurn
<1>7. /\ \A s, t : Mild(s) /\ Mild(t) => Mild(s \o t)
      /\ \A s, t : Mild(s) /\ End(t) => End(s \o t)
  BY SparesJoin
<1>8. Mild(who)
  BY <1>2
<1>9. TelegramSender(d, e) = who \o share
  BY Zenon DEF TelegramSender
<1>10. TelegramUpdate(d, e) =
          CASE d.kind = "click" -> (TelegramSender(d, e) \o click) \o TelegramTurn
            [] d.kind = "empty" -> none
            [] d.kind \in {"cancel", "answer", "last"} -> TelegramSender(d, e) \o TelegramForm(d)
            [] OTHER -> TelegramSender(d, e) \o TelegramTurn
  BY DEF TelegramUpdate, TelegramCallback, stale, early, signed
<1>10a. TelegramForm(d) \in {last \o TelegramTurn, form}
  BY DEF TelegramForm
<1>11. TelegramRequest(d, e) \in {hook \o TelegramUpdate(d, e), poll \o TelegramUpdate(d, e)}
  BY DEF TelegramRequest, TelegramWebhook, TelegramPolled
<1> HIDE DEF who, share, click, form, last, none, hook, poll, Mild, End
<1>12. Mild(TelegramSender(d, e))
  BY <1>5, <1>7, <1>8, <1>9
<1>13. /\ d.kind = "click" => End((TelegramSender(d, e) \o click) \o TelegramTurn)
       /\ End(TelegramSender(d, e) \o TelegramForm(d)) /\ End(TelegramSender(d, e) \o TelegramTurn)
  <2>1. End(last \o TelegramTurn)
    BY <1>5, <1>6, <1>7
  <2>2. End(TelegramForm(d))
    BY <1>6, <1>10a, <2>1
  <2> QED BY <1>4, <1>6, <1>7, <1>12, <2>2
<1>14. End(TelegramUpdate(d, e))
  BY <1>6, <1>10, <1>13
<1>15. End(hook \o TelegramUpdate(d, e)) /\ End(poll \o TelegramUpdate(d, e))
  BY <1>5, <1>7, <1>14
<1>16. End(TelegramRequest(d, e))
  BY <1>11, <1>15
<1> QED BY <1>16 DEF End

\* Lemma: Discord ends a benign delivery with a status outside N, unless it is a
\* component or a modal that is stale, early or not signed.
LEMMA DiscordSettles ==
    ASSUME NEW d, NEW e, NEW N, Benign(d, N),
           401 \in N /\ d.kind \in {"component", "modal"} => DiscordVerdict(d, e) = "ok",
           401 \in N /\ d.kind = "component" => ~DiscordStale(d, e) /\ ~DiscordEarly(d, e)
    PROVE  Settles(DiscordRequest(d, e), d, e, N)
<1>1. EasyGates(d, e, N) /\ EasyLists(d, e, N) /\ EasyEnds(d, e, N)
  BY Easy
<1>2. Spares(TableResolve, d, e, N)
  BY Easy
<1> DEFINE Mild(s) == Spares(s, d, e, N)
           End(s) == Settles(s, d, e, N)
           share == << Do("known"), Take(d.tenant, Sub), Refuse("noData", 400, Sub) >>
           old == DiscordStale(d, e)
           soon == DiscordEarly(d, e)
           bad == DiscordVerdict(d, e) # "ok"
           stale == RefuseIf(old, 401, Sub)
           early == RefuseIf(soon, 401, Sub)
           signed == RefuseIf(bad, 401, Sub)
           fits == RefuseIf(DiscordVerdict(d, e) = "ok" /\ ~DiscordFits(d), 400, Sub)
           filled == RefuseIf(DiscordVerdict(d, e) = "ok" /\ ~DiscordModalFits(d), 400, Sub)
           part == << Refuse("noToken", 400, Sub), Refuse("noDate", 401, Sub),
                      Refuse("badDate", 400, Sub), stale, early, signed, fits >>
           modal == << Refuse("noToken", 400, Sub), signed, filled >>
           named == << Refuse("noName", 400, Sub), DiscordOptions >>
           admit == << Do("verified"), Take("adapter", Anon), Refuse("body", 400, Anon) >>
           none == << Done(200) >>
           unknown == << RefuseIf(TRUE, 200, Anon) >>
<1>3. /\ d.kind \in {"component", "modal"} => Spare(signed, d, e, N)
      /\ d.kind = "component" => Spare(stale, d, e, N) /\ Spare(early, d, e, N)
  <2>1. EasyGates(d, e, N)
    BY <1>1
  <2>2. /\ 401 \in N /\ d.kind \in {"component", "modal"} => ~bad
        /\ 401 \in N /\ d.kind = "component" => ~old /\ ~soon
    OBVIOUS
  <2> HIDE DEF old, soon, bad
  <2> QED BY <2>1, <2>2 DEF EasyGates
<1>4. Spare(fits, d, e, N) /\ Spare(filled, d, e, N)
  <2>1. EasyGates(d, e, N)
    BY <1>1
  <2> QED BY <2>1 DEF EasyGates
<1> HIDE DEF stale, early, signed, fits, filled
<1>5. /\ d.kind = "component" => Mild(part)
      /\ d.kind = "modal" => Mild(modal)
  BY <1>1, <1>3, <1>4 DEF EasyGates, EasyLists
<1>6. Mild(share) /\ Mild(admit) /\ Mild(DiscordSignature)
  BY <1>1 DEF EasyGates, EasyLists, DiscordSignature
<1>7. Mild(named)
  BY <1>1 DEF EasyGates, EasyLists, DiscordOptions
<1>8. End(DiscordTurn) /\ End(DiscordModalTurn) /\ End(none) /\ End(unknown)
  <2>1. EasyEnds(d, e, N)
    BY <1>1
  <2>2. End(unknown)
    BY <2>1 DEF EasyEnds
  <2>3. End(DiscordTurn) /\ End(DiscordModalTurn) /\ End(none)
    BY <1>1 DEF EasyGates, EasyEnds, DiscordTurn, DiscordModalTurn
  <2> QED BY <2>2, <2>3
<1>9. /\ \A s, t : Mild(s) /\ Mild(t) => Mild(s \o t)
      /\ \A s, t : Mild(s) /\ End(t) => End(s \o t)
  BY SparesJoin
<1> DEFINE handled ==
        CASE d.kind = "ping" -> none
          [] d.kind = "command" -> (DiscordSender(d) \o named) \o DiscordTurn
          [] d.kind = "component" -> (DiscordSender(d) \o part) \o DiscordTurn
          [] d.kind = "modal" -> (DiscordSender(d) \o modal) \o DiscordModalTurn
          [] OTHER -> unknown
<1>10. DiscordRequest(d, e) = (DiscordSignature \o admit) \o handled
  BY Zenon DEF DiscordRequest, DiscordCommand, DiscordCommandTurn, DiscordComponent, DiscordModal,
               stale, early, signed, fits, filled
<1>11. DiscordSender(d) = TableResolve \o share
  BY Zenon DEF DiscordSender
<1> HIDE DEF share, part, modal, named, admit, none, unknown, Mild, End
<1>12. Mild(DiscordSender(d)) /\ Mild(DiscordSignature \o admit) /\ Mild(TableResolve)
  <2>1. Mild(TableResolve)
    BY <1>2 DEF Mild
  <2> QED BY <1>6, <1>9, <1>11, <2>1
<1>13. /\ End((DiscordSender(d) \o named) \o DiscordTurn)
       /\ d.kind = "component" => End((DiscordSender(d) \o part) \o DiscordTurn)
       /\ d.kind = "modal" => End((DiscordSender(d) \o modal) \o DiscordModalTurn)
  BY <1>5, <1>7, <1>8, <1>9, <1>12
<1>14. End(handled)
  BY <1>8, <1>13
<1> HIDE DEF handled
<1>15. End(DiscordRequest(d, e))
  BY <1>9, <1>10, <1>12, <1>14
<1> QED BY <1>15 DEF End

\* Lemma: what runs a turn of Google Chat ends a benign delivery with a status
\* outside N.
LEMMA GoogleRunSettles ==
    ASSUME NEW d, NEW e, NEW N, Benign(d, N)
    PROVE  /\ Settles(GoogleRun(d, e), d, e, N) /\ Settles(GoogleRouted(d, e), d, e, N)
           /\ Settles(GoogleOpenDoc(d), d, e, N)
<1>1. EasyGates(d, e, N) /\ EasyLists(d, e, N) /\ EasyEnds(d, e, N)
  BY Easy
<1> DEFINE Mild(s) == Spares(s, d, e, N)
           End(s) == Settles(s, d, e, N)
           run == << Do("turn") >>
           respond == << Do("respond"), Done(200) >>
           hand == << Do("turn"), Do("courier"), Done(200) >>
           choose == << Do("chooser"), Do("respond"), Done(200) >>
           bind == << Do("bind") >>
           none == << Done(200) >>
<1>2. Mild(run) /\ Mild(bind) /\ Mild(GoogleRender) /\ Mild(<<>>)
  BY <1>1 DEF EasyGates, EasyLists, GoogleRender
<1>3. End(respond) /\ End(hand) /\ End(choose) /\ End(none)
  BY <1>1 DEF EasyGates, EasyEnds
<1>4. /\ \A s, t : Mild(s) /\ Mild(t) => Mild(s \o t)
      /\ \A s, t : Mild(s) /\ End(t) => End(s \o t)
  BY SparesJoin
<1>5. GoogleRun(d, e) \in {hand, (run \o GoogleRender) \o respond}
  BY DEF GoogleRun, GoogleInline
<1>6. GoogleOpenDoc(d) \in {<<>> \o respond, run \o respond}
  BY DEF GoogleOpenDoc
<1>7. GoogleRouted(d, e) \in {GoogleRun(d, e), GoogleRender \o choose, none, bind \o GoogleRun(d, e)}
  BY DEF GoogleRouted
<1> HIDE DEF run, respond, hand, choose, bind, none, Mild, End
<1>8. End(GoogleRun(d, e)) /\ End(GoogleOpenDoc(d))
  BY <1>2, <1>3, <1>4, <1>5, <1>6
<1>9. End(GoogleRouted(d, e))
  BY <1>2, <1>3, <1>4, <1>7, <1>8
<1> QED BY <1>8, <1>9 DEF End

\* Lemma: Google Chat ends a benign delivery with a status outside N, unless it is
\* a click that is not signed.
LEMMA GoogleSettles ==
    ASSUME NEW d, NEW e, NEW N, Benign(d, N), d.kind # "image",
           401 \in N /\ d.kind = "click" => GoogleVerdict(d, e) = "ok"
    PROVE  Settles(GoogleRequest(d, e), d, e, N)
<1>1. EasyGates(d, e, N) /\ EasyLists(d, e, N) /\ EasyEnds(d, e, N)
  BY Easy
<1>2. Spares(TableResolve, d, e, N) /\ Spares(UpstreamResolve, d, e, N)
  BY Easy
<1> DEFINE Mild(s) == Spares(s, d, e, N)
           End(s) == Settles(s, d, e, N)
           who == IF e.cfg.identity = "upstream" THEN UpstreamResolve ELSE TableResolve
           share == << Do("known"), Take(d.tenant, Sub) >>
           bad == GoogleVerdict(d, e) # "ok"
           signed == RefuseIf(bad, 401, Sub)
           checked == << signed >>
           missing == << Refuse("noMessage", 400, Anon) >>
           extract == << GoogleExtract >>
           none == << Done(200) >>
           shown == IF d.token.tool = "open" THEN GoogleOpenDoc(d) ELSE GoogleRouted(d, e)
<1>3. d.kind = "click" => Spare(signed, d, e, N)
  <2>1. EasyGates(d, e, N)
    BY <1>1
  <2>2. 401 \in N /\ d.kind = "click" => ~bad
    OBVIOUS
  <2> HIDE DEF bad
  <2> QED BY <2>1, <2>2 DEF EasyGates
<1> HIDE DEF signed
<1>4. d.kind = "click" => Mild(checked)
  BY <1>1, <1>3 DEF EasyLists
<1>5. Mild(share) /\ Mild(missing) /\ Mild(extract) /\ Mild(GoogleVerified)
  BY <1>1 DEF EasyGates, EasyLists, GoogleExtract, GoogleVerified
<1>6. End(none) /\ End(GoogleRun(d, e)) /\ End(GoogleRouted(d, e)) /\ End(shown)
  BY <1>1, GoogleRunSettles DEF EasyGates, EasyEnds
<1>7. /\ \A s, t : Mild(s) /\ Mild(t) => Mild(s \o t)
      /\ \A s, t : Mild(s) /\ End(t) => End(s \o t)
  BY SparesJoin
<1>8. Mild(who)
  BY <1>2
<1>9. GoogleSender(d, e) = who \o share
  BY Zenon DEF GoogleSender, GoogleResolveSender
<1> DEFINE handled ==
        CASE d.kind \in {"empty", "other"} -> none
          [] d.kind = "message" -> (missing \o GoogleSender(d, e)) \o GoogleRouted(d, e)
          [] d.kind = "click" -> ((extract \o GoogleSender(d, e)) \o checked) \o shown
          [] OTHER -> GoogleSender(d, e) \o GoogleRun(d, e)
<1>10. GoogleRequest(d, e) = GoogleVerified \o handled
  <2>1. GoogleRequest(d, e) = GoogleWebhook(d, e)
    BY DEF GoogleRequest
  <2>2. GoogleWebhook(d, e) = GoogleVerified \o handled
    BY Zenon DEF GoogleWebhook, signed
  <2> QED BY <2>1, <2>2
<1> HIDE DEF who, share, checked, missing, extract, none, shown, Mild, End
<1>11. Mild(GoogleSender(d, e))
  BY <1>5, <1>7, <1>8, <1>9
<1>12. /\ End((missing \o GoogleSender(d, e)) \o GoogleRouted(d, e))
       /\ d.kind = "click" => End(((extract \o GoogleSender(d, e)) \o checked) \o shown)
       /\ End(GoogleSender(d, e) \o GoogleRun(d, e))
  BY <1>4, <1>5, <1>6, <1>7, <1>11
<1>13. End(handled)
  BY <1>6, <1>12
<1> HIDE DEF handled
<1>14. End(GoogleRequest(d, e))
  BY <1>5, <1>7, <1>10, <1>13
<1> QED BY <1>14 DEF End

\* Lemma: what runs a turn of Teams ends a benign delivery with a status outside
\* N.
LEMMA TeamsRunSettles ==
    ASSUME NEW d, NEW e, NEW N, Benign(d, N)
    PROVE  /\ Settles(TeamsPostReply(e), d, e, N) /\ Settles(TeamsRouted(d, e), d, e, N)
           /\ Settles(TeamsRunClick(d, e), d, e, N) /\ Settles(TeamsPick(d, e), d, e, N)
           /\ Settles(TeamsSendText(d, e), d, e, N) /\ Spares(TeamsConversation, d, e, N)
<1>1. EasyGates(d, e, N) /\ EasyLists(d, e, N) /\ EasyEnds(d, e, N)
  BY Easy
<1> DEFINE Mild(s) == Spares(s, d, e, N)
           End(s) == Settles(s, d, e, N)
           run == << Do("turn") >>
           post == << Do("post"), Done(200) >>
           respond == << Do("respond"), Done(200) >>
           hand == << Do("turn"), Do("courier"), Done(200) >>
           choose == << Do("chooser"), Do("notice"), Done(200) >>
           notice == << Do("notice"), Done(200) >>
           rebind == << Do("bind"), Do("notice"), Done(200) >>
           bind == << Do("bind") >>
           noted == << Do("line") >>
           p == ResolveMessage(d.token.args, d.inputs) # "ok"
           q == TeamsRoute(d, e).to # "agent"
           r == ConfirmPick(d.token.args, "text", e.agents).to # "agent"
           unsent == LeaveIf(p, 200)
           unrouted == LeaveIf(q, 200)
           unpicked == LeaveIf(r, 200)
           send == << unsent >>
           typed == << unrouted, Do("bind") >>
           pick == << unpicked, Do("bind") >>
<1>2. Spare(unsent, d, e, N) /\ Spare(unrouted, d, e, N) /\ Spare(unpicked, d, e, N)
  <2>1. \A c : Spare(LeaveIf(c, 200), d, e, N)
    BY <1>1 DEF EasyGates
  <2> HIDE DEF p, q, r
  <2> QED BY <2>1
<1> HIDE DEF unsent, unrouted, unpicked
<1>3. Mild(send) /\ Mild(typed) /\ Mild(pick) /\ Mild(<<>>)
  BY <1>1, <1>2 DEF EasyGates, EasyLists
<1>4. /\ Mild(run) /\ Mild(bind) /\ Mild(noted) /\ Mild(TeamsChrome) /\ Mild(TeamsChart)
      /\ Mild(TeamsConversation)
  BY <1>1 DEF EasyGates, EasyLists, TeamsChrome, TeamsChart, TeamsConversation
<1>5. End(post) /\ End(respond) /\ End(hand) /\ End(choose) /\ End(notice) /\ End(rebind)
  BY <1>1 DEF EasyGates, EasyEnds
<1>6. /\ \A s, t : Mild(s) /\ Mild(t) => Mild(s \o t)
      /\ \A s, t : Mild(s) /\ End(t) => End(s \o t)
  BY SparesJoin
<1>7. /\ TeamsPostReply(e) \in {hand, (run \o TeamsRender) \o post}
      /\ TeamsRefreshCard = (run \o TeamsRender) \o respond
      /\ TeamsRender = TeamsChrome \o TeamsChart
  BY DEF TeamsPostReply, TeamsRefreshCard, TeamsRender
<1>8. TeamsRouted(d, e) \in {TeamsChrome \o choose, notice, rebind, bind \o TeamsPostReply(e)}
  BY DEF TeamsRouted
<1>9. TeamsRunClick(d, e) \in
         {TeamsConversation \o TeamsPostReply(e), TeamsRefreshCard, noted \o TeamsRefreshCard, hand}
  BY DEF TeamsRunClick
<1>10. /\ TeamsPick(d, e) = pick \o TeamsRunClick(d, e)
       /\ TeamsSendText(d, e) = (send \o TeamsTyped(d, e)) \o TeamsRunClick(d, e)
  BY Zenon DEF TeamsPick, TeamsSendText, unpicked, unsent
<1>11. TeamsTyped(d, e) \in {<<>>, typed}
  BY DEF TeamsTyped, unrouted
<1> HIDE DEF run, post, respond, hand, choose, notice, rebind, bind, noted, send, typed, pick, Mild, End
<1>12. End(TeamsPostReply(e)) /\ End(TeamsRefreshCard)
  BY <1>4, <1>5, <1>6, <1>7
<1>13. End(TeamsRouted(d, e)) /\ End(TeamsRunClick(d, e))
  BY <1>4, <1>5, <1>6, <1>8, <1>9, <1>12
<1>14. End(TeamsPick(d, e)) /\ End(TeamsSendText(d, e))
  BY <1>3, <1>6, <1>10, <1>11, <1>13
<1>15. /\ End(TeamsPostReply(e)) /\ End(TeamsRouted(d, e)) /\ End(TeamsRunClick(d, e))
       /\ End(TeamsPick(d, e)) /\ End(TeamsSendText(d, e)) /\ Mild(TeamsConversation)
  BY <1>4, <1>12, <1>13, <1>14
<1> QED BY <1>15 DEF End, Mild

\* Lemma: Teams ends a benign delivery with a status outside N, unless it is a
\* click that is not signed.
LEMMA TeamsSettles ==
    ASSUME NEW d, NEW e, NEW N, Benign(d, N), d.kind # "image",
           401 \in N /\ d.kind \in {"submit", "execute", "fetch"} => TeamsVerdict(d, e) = "ok"
    PROVE  Settles(TeamsRequest(d, e), d, e, N)
<1>1. EasyGates(d, e, N) /\ EasyLists(d, e, N) /\ EasyEnds(d, e, N)
  BY Easy
<1>2. Spares(TableResolve, d, e, N)
  BY Easy
<1> DEFINE Mild(s) == Spares(s, d, e, N)
           End(s) == Settles(s, d, e, N)
           azure == << Refuse("aad", 401, Anon), Refuse("noTenant", 401, Sub), Refuse("tenant", 401, Sub) >>
           sender == << Refuse("from", 400, Anon), Refuse("channel", 401, Anon), TeamsFamily >>
           who == IF e.cfg.identity = "azure" THEN azure ELSE TableResolve
           email == << Do("email") >>
           member == IF e.cfg.identity = "azure" THEN email ELSE <<>>
           share == << Do("known"), Take(d.tenant, Sub) >>
           bad == TeamsVerdict(d, e) # "ok"
           signed == RefuseIf(bad, 401, Sub)
           extracted == << TeamsExtract, signed >>
           fetched == << Leave("noToken", 400), signed >>
           renew == << Do("refresh"), Done(200) >>
           closed == LeaveIf(d.token.tool # "open", 400)
           embed == << Leave("link", 400), Done(200) >>
           dialog == << closed, Leave("skill", 400), Do("turn"), Do("respond"), Done(200) >>
           none == << Done(200) >>
           clicked == CASE d.token.tool = "refresh" -> renew
                        [] d.token.tool = "send" -> TeamsSendText(d, e)
                        [] d.token.tool = "use" /\ e.cfg.router -> TeamsPick(d, e)
                        [] OTHER -> TeamsRunClick(d, e)
           shown == IF d.token.tool = "embed" THEN embed ELSE dialog
           said == IF e.cfg.router THEN TeamsRouted(d, e) ELSE TeamsPostReply(e)
           click == d.kind \in {"submit", "execute", "fetch"}
<1>3. click => Spare(signed, d, e, N)
  <2>1. EasyGates(d, e, N)
    BY <1>1
  <2>2. 401 \in N /\ click => ~bad
    OBVIOUS
  <2> HIDE DEF bad, click
  <2> QED BY <2>1, <2>2 DEF EasyGates
<1>4. Spare(closed, d, e, N)
  <2>1. EasyGates(d, e, N)
    BY <1>1
  <2> QED BY <2>1 DEF EasyGates
<1> HIDE DEF signed, closed
<1>5. click => Mild(extracted) /\ Mild(fetched)
  BY <1>1, <1>3 DEF EasyGates, EasyLists, TeamsExtract
<1>6. Mild(azure) /\ Mild(sender) /\ Mild(email) /\ Mild(share) /\ Mild(<<>>)
  BY <1>1 DEF EasyGates, EasyLists, TeamsFamily
<1>7. Mild(TeamsVerified)
  BY <1>1 DEF EasyGates, EasyLists, TeamsVerified
<1>8. End(renew) /\ End(embed) /\ End(dialog) /\ End(none)
  BY <1>1, <1>4 DEF EasyGates, EasyEnds
<1>9. End(clicked) /\ End(shown) /\ End(said) /\ Mild(TeamsConversation)
  <2>1. /\ End(TeamsPostReply(e)) /\ End(TeamsRouted(d, e)) /\ End(TeamsRunClick(d, e))
        /\ End(TeamsPick(d, e)) /\ End(TeamsSendText(d, e)) /\ Mild(TeamsConversation)
    BY TeamsRunSettles
  <2> HIDE DEF renew, embed, dialog, Mild, End
  <2> QED BY <1>8, <2>1
<1>10. /\ \A s, t : Mild(s) /\ Mild(t) => Mild(s \o t)
       /\ \A s, t : Mild(s) /\ End(t) => End(s \o t)
  BY SparesJoin
<1>11. Mild(who) /\ Mild(member)
  BY <1>2, <1>6
<1>12. TeamsAdmit(d, e) = ((sender \o who) \o member) \o share
  BY Zenon DEF TeamsAdmit, TeamsResolveSender, TeamsIdentity, TeamsMember
<1> DEFINE handled ==
        CASE d.kind \in {"execute", "submit"} -> (TeamsAdmit(d, e) \o extracted) \o clicked
          [] d.kind = "fetch" -> (TeamsAdmit(d, e) \o fetched) \o shown
          [] d.kind = "message" -> (TeamsAdmit(d, e) \o TeamsConversation) \o said
          [] OTHER -> none
<1>13. TeamsRequest(d, e) = TeamsVerified \o handled
  <2>1. TeamsRequest(d, e) = TeamsWebhook(d, e)
    BY DEF TeamsRequest
  <2>2. TeamsWebhook(d, e) = TeamsVerified \o handled
    BY Zenon DEF TeamsWebhook, TeamsCallback, TeamsTaskFetch, TeamsDispatchMessage, signed, closed
  <2> QED BY <2>1, <2>2
<1> HIDE DEF azure, sender, who, email, member, share, extracted, fetched, renew, embed, dialog,
             none, clicked, shown, said, Mild, End
<1>14. Mild(TeamsAdmit(d, e))
  BY <1>6, <1>10, <1>11, <1>12
<1>15. /\ click => End((TeamsAdmit(d, e) \o extracted) \o clicked)
       /\ click => End((TeamsAdmit(d, e) \o fetched) \o shown)
       /\ End((TeamsAdmit(d, e) \o TeamsConversation) \o said)
  BY <1>5, <1>9, <1>10, <1>14
<1>16. End(handled)
  BY <1>8, <1>15
<1> HIDE DEF handled
<1>17. End(TeamsRequest(d, e))
  BY <1>7, <1>10, <1>13, <1>16
<1> QED BY <1>17 DEF End

\* Lemma: what arrives without a flaw and is no image ends with a status outside
\* N, for an N that is about neither the usual refusals nor the unauthorized.
LEMMA RequestSettles ==
    ASSUME NEW d, NEW e, NEW N, Benign(d, N), 401 \notin N, d.kind # "image"
    PROVE  Judge(Request(d, e), d, e).status \notin N
<1>1. Settles(TeamsRequest(d, e), d, e, N)
  BY TeamsSettles
<1>2. Settles(GoogleRequest(d, e), d, e, N)
  BY GoogleSettles
<1>3. Settles(TelegramRequest(d, e), d, e, N)
  BY TelegramSettles
<1>4. Settles(DiscordRequest(d, e), d, e, N)
  BY DiscordSettles
<1>5. /\ Settles(WhatsAppRequest(d, e), d, e, N) /\ Settles(TwilioRequest(d), d, e, N)
      /\ Settles(RcsRequest(d), d, e, N) /\ Settles(TwilioStatus(d, e), d, e, N)
      /\ Settles(BridgeRequest(d), d, e, N) /\ Settles(SignalRequest(d), d, e, N)
  BY PhoneSettles
<1>6. Settles(Request(d, e), d, e, N)
  BY <1>1, <1>2, <1>3, <1>4, <1>5 DEF Request
<1> QED BY <1>6, SparesJoin

(***************************************************************************)
(* Chat: cards, the keys that sign them and the clicks on them.            *)
(***************************************************************************)

\* Lemma: a delivery that the front of a list ends is ended with a status of that
\* front.
LEMMA SettlesLead ==
    ASSUME NEW d, NEW e, NEW N, NEW s, NEW t, Settles(s, d, e, N), IsList(t)
    PROVE  Judge(s \o t, d, e).status \notin N
<1>1. PICK S, T : s \in Seq(S) /\ t \in Seq(T) /\ \A g \in S : Spare(g, d, e, N)
  BY DEF Settles, Spares, IsList
<1>2. s \in Seq(S \cup T) /\ t \in Seq(S \cup T)
  BY <1>1, SeqMonotonic
<1>3. /\ s \o t \in Seq(S \cup T) /\ Len(s \o t) = Len(s) + Len(t)
      /\ \A i \in 1..Len(s) : (s \o t)[i] = s[i]
  BY <1>2, ConcatProperties
<1> DEFINE u == s \o t
<1>4. /\ IsList(u) /\ Len(s) \in Nat /\ Len(u) \in Nat /\ Len(s) <= Len(u)
      /\ \A i \in 1..Len(s) : u[i] = s[i]
  BY <1>1, <1>3 DEF IsList
<1> HIDE DEF u
<1>5. PICK k \in 1..Len(s) : Fails(s[k], d, e)
  BY DEF Settles, Ends
<1>6. k \in 1..Len(u) /\ Fails(u[k], d, e)
  BY <1>4, <1>5
<1>7. PICK n \in 1..Len(u) : /\ Fails(u[n], d, e) /\ \A i \in 1..(n - 1) : ~Fails(u[i], d, e)
                             /\ Judge(u, d, e).status = u[n].status
  BY <1>4, <1>6, JudgeEnds DEF Ends
<1>8. n \in 1..Len(s)
  BY <1>4, <1>6, <1>7
<1>9. s[n] \in S /\ u[n] = s[n]
  BY <1>1, <1>4, <1>8
<1>10. Judge(u, d, e).status \notin N
  BY <1>1, <1>7, <1>9 DEF Spare
<1> QED BY <1>10 DEF u

\* Lemma: it does not matter how lists are joined.
LEMMA ListsAssociate ==
    ASSUME NEW s, NEW t, NEW u, IsList(s), IsList(t), IsList(u)
    PROVE  (s \o t) \o u = s \o (t \o u)
<1>1. PICK S, T, U : s \in Seq(S) /\ t \in Seq(T) /\ u \in Seq(U)
  BY DEF IsList
<1> DEFINE V == (S \cup T) \cup U
<1>2. s \in Seq(V) /\ t \in Seq(V) /\ u \in Seq(V)
  BY <1>1, SeqMonotonic
<1> HIDE DEF V
<1> QED BY <1>2, ConcatAssociative

\* Lemma: an adapter that shows cards is built only with a key to sign them.
LEMMA RingsBuilt ==
    ASSUME channel \in {"msteams", "google_chat", "telegram", "discord"}, NEW cf, NEW flaws,
           Judge(FromManifest(cf), [flaws |-> flaws], [level |-> Full]).status = 0
    PROVE  RingOf(cf.keys) # <<>>
<1> SUFFICES ASSUME RingOf(cf.keys) = <<>> PROVE FALSE
  OBVIOUS
<1> DEFINE d == [flaws |-> flaws]
           e == [level |-> Full]
           N == {0}
           Mild(s) == Spares(s, d, e, N)
           last == << Done(0) >>
           ring1 == RefuseIf(RingRefused(cf.keys), 1, Anon)
<1>1. RingRefused(cf.keys)
  BY DEF RingRefused
<1>2. Fails(ring1, d, e)
  <2>1. ring1.when = RingRefused(cf.keys)
    BY DEF RefuseIf, Gate
  <2> QED BY <1>1, <2>1 DEF Fails
<1>3. /\ \A f : Spare(Refuse(f, 1, Anon), d, e, N)
      /\ \A c : Spare(RefuseIf(c, 1, Anon), d, e, N)
  <2>1. ASSUME NEW g, g.status = 1 PROVE Spare(g, d, e, N)
    BY <2>1 DEF Spare
  <2>2. \A f, c : Refuse(f, 1, Anon).status = 1 /\ RefuseIf(c, 1, Anon).status = 1
    BY DEF Refuse, RefuseIf, Gate
  <2> QED BY <2>1, <2>2
<1>4. EasyLists(d, e, N)
  BY TupleSpares
<1>5. Mild(ParseTable) /\ Mild(ParseResolver) /\ Mild(TeamsChannels) /\ Mild(TeamsTokenClient) /\ Mild(<<>>)
  BY <1>3, <1>4 DEF EasyLists, ParseTable, ParseResolver, TeamsChannels, TeamsTokenClient
<1>6. IsList(last) /\ IsList(TeamsTokenClient \o last)
  <2>1. IsList(last)
    BY Tuples
  <2>2. IsList(TeamsTokenClient)
    BY <1>5, SparesJoin
  <2> QED BY <2>1, <2>2, Joined
<1>7. Spare(ring1, d, e, N)
  BY <1>3
<1> HIDE DEF ring1, d, e, N
<1>8. ASSUME NEW a, Spare(a, d, e, N)
      PROVE  /\ Settles(<< ring1 >>, d, e, N) /\ Settles(<< ring1, a >>, d, e, N)
             /\ Settles(<< a, ring1 >>, d, e, N)
  <2> DEFINE s == << ring1 >>
             t == << ring1, a >>
             u == << a, ring1 >>
  <2>1. Mild(s) /\ Mild(t) /\ Mild(u)
    BY <1>4, <1>7, <1>8 DEF EasyLists
  <2>2. Len(s) = 1 /\ s[1] = ring1 /\ Len(t) = 2 /\ t[1] = ring1 /\ Len(u) = 2 /\ u[2] = ring1
    OBVIOUS
  <2>3. Ends(s, d, e) /\ Ends(t, d, e) /\ Ends(u, d, e)
    <3> HIDE DEF s, t, u
    <3> QED BY <1>2, <2>2 DEF Ends
  <2> QED BY <2>1, <2>3 DEF Settles
<1>9. ASSUME NEW s, NEW t, NEW u, Mild(s), Settles(t, d, e, N), IsList(u)
      PROVE  (s \o t) \o u # FromManifest(cf) /\ s \o (t \o u) # FromManifest(cf)
  <2>1. Settles(s \o t, d, e, N)
    BY <1>9, SparesJoin
  <2>2. Judge((s \o t) \o u, d, e).status # 0
    <3>1. Judge((s \o t) \o u, d, e).status \notin N
      BY <1>9, <2>1, SettlesLead
    <3> QED BY <3>1 DEF N
  <2>3. (s \o t) \o u = s \o (t \o u)
    <3>1. IsList(s) /\ IsList(t)
      BY <1>9, SparesJoin DEF Settles
    <3> QED BY <1>9, <3>1, ListsAssociate
  <2> QED BY <2>2, <2>3 DEF d, e
<1>10. \A s, t : Mild(s) /\ Mild(t) => Mild(s \o t)
  BY SparesJoin
<1>11. CASE channel = "telegram"
  <2> DEFINE first == << Refuse("kind", 1, Anon), Refuse("signatureKind", 1, Anon),
                         SupportedKind(cf, {"table", "upstream"}), Refuse("secret", 1, Anon) >>
             who == IF cf.identity = "upstream" THEN ParseResolver ELSE ParseTable
             a == Refuse("outboundToken", 1, Anon)
             rest == << a, ring1 >>
  <2>1. Mild(first) /\ Spare(a, d, e, N)
    <3> DEFINE p == cf.identity \notin {"table", "upstream"}
    <3> HIDE DEF p
    <3>1. SupportedKind(cf, {"table", "upstream"}) = RefuseIf(p, 1, Anon)
      BY DEF SupportedKind, p
    <3> QED BY <1>3, <1>4, <3>1 DEF EasyLists
  <2>2. Mild(first \o who) /\ Settles(rest, d, e, N)
    BY <1>5, <1>8, <1>10, <2>1
  <2>3. TelegramFromManifest(cf) = (first \o who) \o << a, ring1, Done(0) >>
    BY Zenon DEF TelegramFromManifest, TelegramIdentityConfig, ring1
  <2>4. << a, ring1, Done(0) >> = rest \o last
    <3> DEFINE z == Done(0)
    <3> HIDE DEF a, z
    <3>1. << a, ring1, z >> = << a, ring1 >> \o << z >>
      OBVIOUS
    <3> QED BY <3>1 DEF z
  <2>5. FromManifest(cf) = TelegramFromManifest(cf)
    BY <1>11 DEF FromManifest
  <2> HIDE DEF first, who, a, rest, last, Mild
  <2>6. FromManifest(cf) = (first \o who) \o (rest \o last)
    BY <2>3, <2>4, <2>5
  <2> QED BY <1>6, <1>9, <2>2, <2>6
<1>12. Settles(<< ring1 >>, d, e, N) /\ << ring1, Done(0) >> = << ring1 >> \o last
  <2> DEFINE z == Done(0)
  <2> HIDE DEF z
  <2>1. << ring1, z >> = << ring1 >> \o << z >>
    OBVIOUS
  <2> QED BY <1>7, <1>8, <2>1 DEF z
<1>13. CASE channel = "discord"
  <2> DEFINE first == << Refuse("kind", 1, Anon), Refuse("signatureKind", 1, Anon),
                         SupportedKind(cf, {"table"}), Refuse("publicKey", 1, Anon),
                         Refuse("outboundToken", 1, Anon) >>
             rest == << ring1 >>
  <2>1. Mild(first)
    <3> DEFINE p == cf.identity \notin {"table"}
    <3> HIDE DEF p
    <3>1. SupportedKind(cf, {"table"}) = RefuseIf(p, 1, Anon)
      BY DEF SupportedKind, p
    <3> QED BY <1>3, <1>4, <3>1 DEF EasyLists
  <2>2. Mild(first \o ParseTable)
    BY <1>5, <1>10, <2>1
  <2>3. DiscordFromManifest(cf) = (first \o ParseTable) \o << ring1, Done(0) >>
    BY Zenon DEF DiscordFromManifest, ring1
  <2>5. FromManifest(cf) = DiscordFromManifest(cf)
    BY <1>13 DEF FromManifest
  <2> HIDE DEF first, last, Mild
  <2>6. FromManifest(cf) = (first \o ParseTable) \o (rest \o last)
    BY <1>12, <2>3, <2>5
  <2> HIDE DEF rest
  <2> QED BY <1>6, <1>9, <1>12, <2>2, <2>6 DEF rest
<1>14. CASE channel = "google_chat"
  <2> DEFINE rest == << ring1 >>
  <2>1. Mild(GoogleCredentials(cf))
    <3> DEFINE p == cf.identity \notin {"table", "enrol", "upstream"}
               q == cf.courier /\ ~cf.outbound
               b == RefuseIf(q, 1, Anon)
    <3>1. SupportedKind(cf, {"table", "enrol", "upstream"}) = RefuseIf(p, 1, Anon)
      BY DEF SupportedKind
    <3>2. Spare(b, d, e, N)
      BY <1>3
    <3>3. GoogleCredentials(cf) = << Refuse("kind", 1, Anon), Refuse("signatureKind", 1, Anon),
             RefuseIf(p, 1, Anon), Refuse("audience", 1, Anon), Refuse("outboundToken", 1, Anon),
             b, Refuse("accountKey", 1, Anon) >>
      BY Zenon, <3>1 DEF GoogleCredentials
    <3> HIDE DEF p, b
    <3> QED BY <1>3, <1>4, <3>2, <3>3 DEF EasyLists
  <2>2. Mild(GoogleIdentityConfig(cf))
    BY <1>5 DEF GoogleIdentityConfig
  <2> DEFINE first == GoogleCredentials(cf) \o GoogleIdentityConfig(cf)
  <2>3. Mild(first)
    BY <1>10, <2>1, <2>2
  <2>4. GoogleFromManifest(cf) = first \o << ring1, Done(0) >>
    BY Zenon DEF GoogleFromManifest, ring1
  <2>5. FromManifest(cf) = GoogleFromManifest(cf)
    BY <1>14 DEF FromManifest
  <2> HIDE DEF first, last, Mild
  <2>6. FromManifest(cf) = first \o (rest \o last)
    BY <1>12, <2>4, <2>5
  <2> HIDE DEF rest
  <2> QED BY <1>6, <1>9, <1>12, <2>3, <2>6 DEF rest
<1>15. CASE channel = "msteams"
  <2> DEFINE a == Refuse("inboundTenant", 1, Anon)
             rest == << ring1, a >>
  <2>1. Mild(TeamsCredentials(cf))
    <3> DEFINE p == cf.identity \notin {"table", "azure"}
               one == {g \in {Refuse("kind", 1, Anon), Refuse("signatureKind", 1, Anon),
                              Refuse("outboundKind", 1, Anon), RefuseIf(p, 1, Anon),
                              Refuse("audience", 1, Anon), Refuse("clientId", 1, Anon),
                              Refuse("twoCredentials", 1, Anon), Refuse("noCredential", 1, Anon),
                              Refuse("federatedTenant", 1, Anon)} : Spare(g, d, e, N)}
    <3>1. SupportedKind(cf, {"table", "azure"}) = RefuseIf(p, 1, Anon)
      BY DEF SupportedKind
    <3>2. TeamsCredentials(cf) =
             << Refuse("kind", 1, Anon), Refuse("signatureKind", 1, Anon), Refuse("outboundKind", 1, Anon),
                RefuseIf(p, 1, Anon), Refuse("audience", 1, Anon), Refuse("clientId", 1, Anon),
                Refuse("twoCredentials", 1, Anon), Refuse("noCredential", 1, Anon),
                Refuse("federatedTenant", 1, Anon) >>
      BY Zenon, <3>1 DEF TeamsCredentials
    <3> HIDE DEF p
    <3>3. TeamsCredentials(cf) \in Seq(one)
      BY <1>3, <3>2
    <3> QED BY <3>3 DEF Spares
  <2>2. Mild(TeamsIdentityConfig(cf))
    <3> DEFINE x == << Refuse("azureConfig", 1, Anon) >>
               y == << Refuse("tenantsNotOne", 1, Anon) >>
    <3>1. Mild(x) /\ Mild(y)
      BY <1>3, <1>4 DEF EasyLists
    <3>2. TeamsIdentityConfig(cf) \in {ParseTable \o TeamsChannels, (x \o TeamsChannels) \o y}
      BY Zenon DEF TeamsIdentityConfig
    <3> HIDE DEF x, y, Mild
    <3> QED BY <1>5, <1>10, <3>1, <3>2
  <2> DEFINE first == TeamsCredentials(cf) \o TeamsIdentityConfig(cf)
  <2>3. Mild(first) /\ Settles(rest, d, e, N)
    BY <1>3, <1>8, <1>10, <2>1, <2>2
  <2>4. TeamsFromManifest(cf) = ((first \o rest) \o TeamsTokenClient) \o last
    BY Zenon DEF TeamsFromManifest, ring1
  <2>5. FromManifest(cf) = TeamsFromManifest(cf)
    BY <1>15 DEF FromManifest
  <2> HIDE DEF first, rest, last, Mild
  <2>6. Settles(rest \o TeamsTokenClient, d, e, N)
    <3>1. Spares(rest \o TeamsTokenClient, d, e, N)
      BY <1>5, <1>10, <2>3 DEF Settles, Mild
    <3>2. Ends(rest \o TeamsTokenClient, d, e)
      <4>1. IsList(rest) /\ IsList(TeamsTokenClient)
        BY <1>5, <2>3, SparesJoin DEF Settles, Mild
      <4> QED BY <2>3, <4>1, Joined DEF Settles
    <3> QED BY <3>1, <3>2 DEF Settles
  <2>7. (first \o rest) \o TeamsTokenClient = first \o (rest \o TeamsTokenClient)
    <3>1. IsList(first) /\ IsList(rest) /\ IsList(TeamsTokenClient)
      BY <1>5, <2>3, SparesJoin DEF Settles, Mild
    <3> QED BY <3>1, ListsAssociate
  <2>8. FromManifest(cf) = (first \o (rest \o TeamsTokenClient)) \o last
    BY <2>4, <2>5, <2>7
  <2> QED BY <1>6, <1>9, <2>3, <2>6, <2>8
<1> QED BY <1>11, <1>13, <1>14, <1>15

\* The adapters that show cards, and how long a token of theirs may be.
CardChannels == {"msteams", "google_chat", "telegram", "discord"}
CardCap ==
    CASE channel = "msteams" -> TeamsCap [] channel = "google_chat" -> GoogleCap
      [] channel = "discord" -> DiscordCap [] OTHER -> TelegramCap

\* What a token says: a card's is signed for the user it was shown to, from when
\* it was shown; a reference is signed for nobody.
CardShape ==
    /\ card.token.tool # "none" /\ ~(card.token.size > CardCap)
    /\ card.token.mac = TenantKey(card.token.mac.key, Binding(channel, Home[card.owner], card.owner))
    /\ card.token.exp = IF channel = "telegram" THEN Never ELSE CeilHours(card.born + CardTTL)
    /\ card.born \in Nat /\ 1 <= card.born /\ card.born <= clock
UnboundToken(t) == t.tool = "none" \/ t.mac.for = Unbound

\* The invariant of the cards: an adapter that is up has keys, and what it signs
\* with them has its shape.
CardInv ==
    /\ clock \in Nat /\ 1 <= clock
    /\ (Up /\ channel \in CardChannels) => ring # <<>> /\ ring \in Seq({OldKey, NewKey, ShortKey})
    /\ card.token = NoToken \/ (channel \in CardChannels /\ CardShape)
    /\ UnboundToken(ref.token)

\* Lemma: what EncodeBound makes.
LEMMA Encoded ==
    ASSUME NEW tool, tool # "none", NEW args, NEW key, NEW b, NEW x,
           NEW size, NEW cap
    PROVE  LET t == EncodeBound(tool, args, key, b, x, size, cap) IN
           \/ t = NoToken
           \/ /\ t.tool # "none" /\ ~(t.size > cap) /\ t.mac = TenantKey(key, b)
              /\ t.mac.key = key
              /\ t.exp = IF x = Never THEN Never ELSE CeilHours(x)
<1> DEFINE t == [tool |-> tool, args |-> args, mac |-> TenantKey(key, b), size |-> size,
                 exp |-> IF x = Never THEN Never ELSE CeilHours(x)]
<1>1. /\ t.tool = tool /\ t.size = size /\ t.mac = TenantKey(key, b) /\ TenantKey(key, b).key = key
      /\ t.exp = IF x = Never THEN Never ELSE CeilHours(x)
  BY DEF TenantKey
<1>2. \/ EncodeBound(tool, args, key, b, x, size, cap) = NoToken
      \/ ~(size > cap) /\ EncodeBound(tool, args, key, b, x, size, cap) = t
  BY Zenon DEF EncodeBound
<1> HIDE DEF t
<1> QED BY <1>1, <1>2

\* What is signed at a time for a delivery's user, if anything.
SignedFor(t, d, n) ==
    \/ t = NoToken
    \/ /\ t.tool # "none" /\ ~(t.size > CardCap)
       /\ t.mac = TenantKey(t.mac.key, Binding(channel, d.tenant, d.by))
       /\ t.exp = IF channel = "telegram" THEN Never ELSE CeilHours(n + CardTTL)

\* Lemma: what a card is signed with.
LEMMA CardSigned ==
    ASSUME channel \in CardChannels, NEW d, NEW e, NEW tool \in CardTools, NEW args,
           NEW size, NEW n \in Nat, n = e.now, 1 <= n
    PROVE  SignedFor(CardToken(d, e, tool, args, size), d, n)
<1>1. tool # "none"
  <2>1. CardTools \subseteq {"tool", "send", "use", "refresh", "open", "embed"}
    BY DEF CardTools
  <2> QED BY <2>1
<1>2. n + CardTTL # Never
  BY TokenConstants DEF Never
<1> DEFINE b == Binding(channel, d.tenant, d.by)
           x == IF channel = "telegram" THEN Never ELSE n + CardTTL
           k == Signing(e.ring)
<1>3. CardToken(d, e, tool, args, size) = EncodeBound(tool, args, k, b, x, size, CardCap)
  <2>1. CASE channel = "msteams"
    BY <2>1 DEF CardToken, TeamsCardToken, TeamsBinding, CardCap
  <2>2. CASE channel = "google_chat"
    BY <2>2 DEF CardToken, GoogleCardToken, GoogleBinding, CardCap
  <2>3. CASE channel = "discord"
    BY <2>3 DEF CardToken, DiscordCardToken, DiscordBinding, CardCap
  <2>4. CASE channel = "telegram"
    BY <2>4 DEF CardToken, TelegramCardToken, TelegramBinding, CardCap
  <2> QED BY <2>1, <2>2, <2>3, <2>4 DEF CardChannels
<1> DEFINE t == CardToken(d, e, tool, args, size)
<1> HIDE DEF b, x, k, t
<1>5. \/ t = NoToken
      \/ /\ t.tool # "none" /\ ~(t.size > CardCap) /\ t.mac = TenantKey(k, b) /\ t.mac.key = k
         /\ t.exp = IF x = Never THEN Never ELSE CeilHours(x)
  BY <1>1, <1>3, Encoded DEF t
<1>6. \/ t = NoToken
      \/ /\ t.tool # "none" /\ ~(t.size > CardCap) /\ t.mac = TenantKey(t.mac.key, b)
         /\ t.exp = IF channel = "telegram" THEN Never ELSE CeilHours(n + CardTTL)
  BY <1>2, <1>5 DEF x
<1>7. SignedFor(t, d, n)
  BY <1>6 DEF b, SignedFor
<1> QED BY <1>7 DEF t

\* Lemma: a reference and an image link are signed for nobody.
LEMMA UnboundTokens ==
    ASSUME NEW d, NEW e
    PROVE  UnboundToken(Reference(d, e)) /\ UnboundToken(ImageToken)
<1>1. \A tool, args, key, size, cap : UnboundToken(EncodeWithCap(tool, args, key, size, cap))
  BY DEF UnboundToken, EncodeWithCap, NoToken, Raw
<1>2. UnboundToken(NoToken)
  BY DEF UnboundToken, NoToken
<1>3. UnboundToken(Reference(d, e))
  BY <1>1, <1>2 DEF Reference, TeamsReference, GoogleReference
<1>4. UnboundToken(ImageToken)
  BY <1>1 DEF ImageToken, TeamsImageToken, GoogleImageToken
<1> QED BY <1>3, <1>4

\* Lemma: the invariant of the cards holds.
LEMMA CardInvHolds ==
    /\ IngressInit => CardInv
    /\ CardInv /\ [IngressNext]_ingressVars => CardInv'
<1>1. ASSUME IngressInit PROVE CardInv
  <2>1. clock = 1 /\ card.token = NoToken /\ ref.token = NoToken /\ ~Up
    BY <1>1 DEF IngressInit, ChatInit, NoCard, Up
  <2> QED BY <2>1 DEF CardInv, UnboundToken, NoToken
<1>2. ASSUME CardInv, ChatNext PROVE CardInv'
  <2> USE <1>2
  <2>1. ASSUME NEW cf \in Configs, NEW f, Boot(cf, {f}) PROVE CardInv'
    <3>1. channel \in CardChannels => RingOf(cf.keys) # <<>>
      BY <2>1, RingsBuilt DEF Boot, CardChannels
    <3>2. RingOf(cf.keys) \in Seq({OldKey, NewKey, ShortKey})
      BY ChatConstants
    <3>3. ring' = RingOf(cf.keys) /\ UNCHANGED <<channel, clock, card, ref>>
      BY <2>1 DEF Boot
    <3> QED BY <3>1, <3>2, <3>3 DEF CardInv, CardShape, CardCap, UnboundToken
  <2>2. ASSUME Up, Shows PROVE CardInv'
    <3>1. PICK d \in Own(Messages), tool \in CardTools, size \in {1, 4} :
             \E args \in CardArgs(tool) : Show(d, tool, args, size)
      BY <2>2 DEF Shows
    <3>2. PICK args : Show(d, tool, args, size)
      BY <3>1
    <3>3. /\ UNCHANGED <<channel, cfg, ring, clock, ref>> /\ card'.owner = d.by /\ card'.born = clock
          /\ card'.token = CardToken(d, Env(d.by, Full), tool, args, size)
      BY <3>2 DEF Show
    <3>4. channel \in CardChannels
      BY <3>1 DEF CardTools, CardChannels
    <3>5. d.tenant = Home[d.by] /\ Env(d.by, Full).now = clock
      BY DeliveryShape DEF Own, Env
    <3>6. card'.token = NoToken \/ CardShape'
      <4>1. clock \in Nat /\ 1 <= clock
        BY DEF CardInv
      <4> DEFINE e == Env(d.by, Full)
                 t == CardToken(d, e, tool, args, size)
      <4>2. SignedFor(t, d, clock)
        <5>1. clock = e.now /\ tool \in CardTools
          BY <3>1, <3>5
        <5> HIDE DEF e
        <5> QED BY <3>4, <4>1, <5>1, CardSigned
      <4> HIDE DEF t
      <4>3. card'.token = t /\ CardCap' = CardCap
        BY <3>3 DEF t, CardCap
      <4> QED BY <3>3, <3>5, <4>1, <4>2, <4>3 DEF CardShape, SignedFor
    <3> QED BY <3>3, <3>4, <3>6 DEF CardInv, Up, UnboundToken
  <2>3. ASSUME Up, NEW d \in Own(Messages), Keep(d) PROVE CardInv'
    <3>1. ref'.token = Reference(d, Env(d.by, Full)) /\ UNCHANGED <<channel, cfg, ring, clock, card>>
      BY <2>3 DEF Keep
    <3>2. UnboundToken(ref'.token)
      BY <3>1, UnboundTokens
    <3> QED BY <3>1, <3>2 DEF CardInv, CardShape, CardCap, UnboundToken, Up
  <2>4. ASSUME NEW d, NEW lv, Bind(d) \/ Write(d, lv) PROVE CardInv'
    <3>1. UNCHANGED <<channel, cfg, ring, clock, card, ref>>
      BY <2>4 DEF Bind, Write
    <3> QED BY <3>1 DEF CardInv, CardShape, CardCap, UnboundToken, Up
  <2>5. ASSUME NEW t \in 1..MaxClock, Tick(t) PROVE CardInv'
    <3>1. t \in Nat /\ clock' = t /\ clock < t /\ clock \in Nat
      <4>1. clock \in Nat /\ t \in (clock + 1)..MaxClock /\ MaxClock \in Nat /\ clock' = t
        BY <2>5, ChatConstants DEF Tick, CardInv
      <4> QED BY <4>1
    <3>2. UNCHANGED <<channel, cfg, ring, card, ref>>
      BY <2>5 DEF Tick
    <3> QED BY <3>1, <3>2 DEF CardInv, CardShape, CardCap, UnboundToken, Up
  <2>6. ASSUME Rotate \/ Retire PROVE CardInv'
    <3>1. ring' \in {<< NewKey, OldKey >>, << NewKey >>} /\ UNCHANGED <<channel, cfg, clock, card, ref>>
      BY <2>6 DEF Rotate, Retire
    <3>2. ring' # <<>> /\ ring' \in Seq({OldKey, NewKey, ShortKey})
      <4>1. CASE ring' = << NewKey, OldKey >>
        BY <4>1
      <4>2. CASE ring' = << NewKey >>
        BY <4>2
      <4> QED BY <3>1, <4>1, <4>2
    <3> QED BY <3>1, <3>2 DEF CardInv, CardShape, CardCap, UnboundToken, Up
  <2>7. ASSUME NEW a \in agents, Revoke(a) PROVE CardInv'
    <3>1. UNCHANGED <<channel, cfg, ring, clock, card, ref>>
      BY <2>7 DEF Revoke
    <3> QED BY <3>1 DEF CardInv, CardShape, CardCap, UnboundToken, Up
  <2> QED BY <2>1, <2>2, <2>3, <2>4, <2>5, <2>6, <2>7 DEF ChatNext
<1>3. ASSUME CardInv, UNCHANGED chatVars PROVE CardInv'
  BY <1>3 DEF CardInv, CardShape, CardCap, UnboundToken, chatVars, Up
<1> QED BY <1>1, <1>2, <1>3 DEF IngressNext, ChatStep, HttpStep, KeysStep, LimitsStep, PlatformStep, ingressVars

\* Lemma: a ring opens a bound token exactly if one of its keys signed it for that
\* binding, it is not too long, and it has not expired.
LEMMA RingVerdict ==
    ASSUME NEW S, NEW r \in Seq(S), r # <<>>, NEW t, NEW cap, NEW b, NEW n
    PROVE  DecodeBoundAny(t, r, cap, b, n) = "ok" <=>
              /\ t.tool # "none" /\ ~(t.size > cap)
              /\ \E i \in DOMAIN r : t.mac = TenantKey(r[i], b)
              /\ ~(t.exp # Never /\ t.exp * Hour < n)
<1> DEFINE fits == t.tool # "none" /\ ~(t.size > cap)
           Mine(i) == t.mac = TenantKey(r[i], b)
           late == t.exp # Never /\ t.exp * Hour < n
           v == [i \in DOMAIN r |-> DecodeBound(t, r[i], cap, b, n)]
           verified == {i \in DOMAIN v : v[i] \in {"ok", "body"}}
           k == IF verified = {} THEN 1 ELSE Min(verified)
<1>1. DOMAIN r = 1..Len(r) /\ Len(r) \in Nat /\ Len(r) # 0 /\ DOMAIN v = DOMAIN r
  OBVIOUS
<1>2. 1 \in DOMAIN v /\ verified \in SUBSET Nat
  BY <1>1
<1>3. DecodeBoundAny(t, r, cap, b, n) = v[k]
  BY Zenon DEF DecodeBoundAny, TryRing
<1>4. \A i \in DOMAIN v : v[i] = IF ~fits THEN "malformed" ELSE IF ~Mine(i) THEN "signature"
                                 ELSE IF late THEN "body" ELSE "ok"
  BY DEF DecodeBound
<1>5. verified # {} => k \in verified
  <2> SUFFICES ASSUME verified # {} PROVE Min(verified) \in verified
    OBVIOUS
  <2> HIDE DEF verified
  <2>1. \E m \in verified : \A y \in verified : m <= y
    BY <1>2, LeastNatural
  <2> QED BY <2>1 DEF Min
<1>6. verified = {} => k = 1
  OBVIOUS
<1>7. \A i : i \in verified <=> i \in DOMAIN v /\ v[i] \in {"ok", "body"}
  OBVIOUS
<1> HIDE DEF fits, Mine, late, v, verified, k
<1>8. ASSUME v[k] = "ok" PROVE fits /\ (\E i \in DOMAIN r : Mine(i)) /\ ~late
  <2>1. k \in DOMAIN v
    BY <1>2, <1>5, <1>6, <1>7
  <2> QED BY <1>1, <1>4, <1>8, <2>1
<1>9. ASSUME fits, NEW i \in DOMAIN r, Mine(i), ~late PROVE v[k] = "ok"
  <2>1. i \in verified
    BY <1>1, <1>4, <1>7, <1>9
  <2>2. k \in DOMAIN v /\ v[k] \in {"ok", "body"}
    BY <1>5, <1>7, <2>1
  <2> QED BY <1>4, <1>9, <2>2
<1>10. v[k] = "ok" <=> fits /\ (\E i \in DOMAIN r : Mine(i)) /\ ~late
  BY <1>8, <1>9
<1> QED BY <1>3, <1>10 DEF fits, Mine, late

\* Lemma: an hour that is begun counts whole.
LEMMA HoursRoundUp ==
    ASSUME NEW n \in Nat, 1 <= n
    PROVE  /\ CeilHours(n) \in Nat /\ CeilHours(n) # Never
           /\ n <= CeilHours(n) * Hour /\ CeilHours(n) * Hour <= n + Hour
<1> DEFINE m == n + Hour - 1
           q == m \div Hour
<1>1. Hour \in Nat /\ Hour > 0 /\ m \in Nat /\ m >= Hour
  BY TokenConstants
<1> HIDE DEF m
<1>2. q \in Int /\ q * Hour <= m /\ m < q * Hour + Hour
  BY <1>1
<1>3. q \in Nat /\ q # 0
  BY <1>1, <1>2
<1>4. CeilHours(n) = q
  BY DEF CeilHours, m
<1> HIDE DEF q
<1> QED BY <1>1, <1>2, <1>3, <1>4 DEF m, Never

\* Lemma: a delivery that is ended by a front without acts does none.
LEMMA Barred ==
    ASSUME NEW s, NEW t, Free(s, Acts), IsList(t), NEW d, NEW e,
           Judge(s \o t, d, e).did \cap Acts # {}
    PROVE  Clear(s, d, e)
<1> SUFFICES ASSUME ~Clear(s, d, e) PROVE FALSE
  OBVIOUS
<1>1. IsList(s) /\ Ends(s, d, e)
  BY FreeJoin DEF Clear, Ends
<1>2. IsList(s \o t) /\ Ends(s \o t, d, e)
  BY <1>1, Joined
<1>3. PICK y \in Acts : y \in Judge(s \o t, d, e).did
  OBVIOUS
<1>4. Passes(s \o t, d, e, y)
  BY <1>2, <1>3, JudgePasses
<1>5. Passes(s, d, e, y)
  BY <1>1, <1>4, Joined
<1> QED BY <1>3, <1>5, FreeJoin

\* A gate, and a list of gates, that does none of the acts.
Idle(g) == g.does \notin Acts
Idles(s) == Free(s, Acts)

\* Lemma: which gates and lists do none of the acts.
LEMMA IdleLists ==
    /\ \A f, n, w : Idle(Refuse(f, n, w))
    /\ \A c, n, w : Idle(RefuseIf(c, n, w))
    /\ \A f, n : Idle(Leave(f, n))
    /\ \A b, w : Idle(Take(b, w))
    /\ Idle(Do("verified")) /\ Idle(Do("known")) /\ Idle(Do("resolve"))
    /\ \A a : Idle(a) => Idles(<< a >>)
    /\ \A a, b : Idle(a) /\ Idle(b) => Idles(<< a, b >>)
    /\ \A a, b, c : Idle(a) /\ Idle(b) /\ Idle(c) => Idles(<< a, b, c >>)
    /\ \A a, b, c, f : Idle(a) /\ Idle(b) /\ Idle(c) /\ Idle(f) => Idles(<< a, b, c, f >>)
    /\ \A a, b, c, f, g : Idle(a) /\ Idle(b) /\ Idle(c) /\ Idle(f) /\ Idle(g) =>
          Idles(<< a, b, c, f, g >>)
    /\ \A a, b, c, f, g, h, i :
          Idle(a) /\ Idle(b) /\ Idle(c) /\ Idle(f) /\ Idle(g) /\ Idle(h) /\ Idle(i) =>
          Idles(<< a, b, c, f, g, h, i >>)
    /\ \A s, t : Idles(s) /\ Idles(t) => Idles(s \o t)
    /\ \A s : Idles(s) => IsList(s)
<1>1. /\ \A f, n, w : Idle(Refuse(f, n, w))
      /\ \A c, n, w : Idle(RefuseIf(c, n, w))
      /\ \A f, n : Idle(Leave(f, n))
      /\ \A b, w : Idle(Take(b, w))
      /\ Idle(Do("verified")) /\ Idle(Do("known")) /\ Idle(Do("resolve"))
  BY DEF Refuse, RefuseIf, Leave, Take, Do, Gate, Acts, Idle
<1>2. /\ \A a : Idle(a) => Idles(<< a >>)
      /\ \A a, b : Idle(a) /\ Idle(b) => Idles(<< a, b >>)
      /\ \A a, b, c : Idle(a) /\ Idle(b) /\ Idle(c) => Idles(<< a, b, c >>)
      /\ \A a, b, c, f : Idle(a) /\ Idle(b) /\ Idle(c) /\ Idle(f) => Idles(<< a, b, c, f >>)
  BY TuplesFree DEF Idle, Idles
<1>3. \A a, b, c, f, g : Idle(a) /\ Idle(b) /\ Idle(c) /\ Idle(f) /\ Idle(g) =>
          Idles(<< a, b, c, f, g >>)
  BY TuplesFree DEF Idle, Idles
<1>4. \A a, b, c, f, g, h, i :
          Idle(a) /\ Idle(b) /\ Idle(c) /\ Idle(f) /\ Idle(g) /\ Idle(h) /\ Idle(i) =>
          Idles(<< a, b, c, f, g, h, i >>)
  BY TuplesFree DEF Idle, Idles
<1>5. (\A s, t : Idles(s) /\ Idles(t) => Idles(s \o t)) /\ (\A s : Idles(s) => IsList(s))
  BY FreeJoin DEF Idles
<1> QED BY <1>1, <1>2, <1>3, <1>4, <1>5

\* Lemma: what a front without acts ends does none of them.
LEMMA StoppedInFront ==
    ASSUME NEW a, NEW u, NEW t, Idles(a), Idles(u), IsList(t), NEW d, NEW e, Ends(u, d, e)
    PROVE  Judge(a \o (u \o t), d, e).did \cap Acts = {}
<1>1. IsList(a) /\ IsList(u) /\ Free(a \o u, Acts)
  BY IdleLists DEF Idles
<1>2. (a \o u) \o t = a \o (u \o t)
  BY <1>1, ListsAssociate
<1>3. ~Clear(a \o u, d, e)
  BY <1>1, Joined DEF Clear, Ends
<1>4. Judge((a \o u) \o t, d, e).did \cap Acts = {}
  BY <1>1, <1>3, Barred
<1> QED BY <1>2, <1>4

\* Lemma: and so what acts has failed no gate of the front.
LEMMA BehindFront ==
    ASSUME NEW a, NEW s, NEW g, NEW t, Idles(a), Idles(s), Idles(g), IsList(t), NEW d, NEW e
    PROVE  Judge(a \o ((s \o g) \o t), d, e).did \cap Acts # {} =>
              \A i \in 1..Len(g) : ~Fails(g[i], d, e)
<1> SUFFICES ASSUME NEW i \in 1..Len(g), Fails(g[i], d, e)
             PROVE  Judge(a \o ((s \o g) \o t), d, e).did \cap Acts = {}
  OBVIOUS
<1>1. IsList(s) /\ IsList(g) /\ Idles(s \o g)
  BY IdleLists
<1>2. Ends(g, d, e)
  BY DEF Ends
<1>3. Ends(s \o g, d, e)
  BY <1>1, <1>2, Joined
<1> QED BY <1>1, <1>3, StoppedInFront

\* Lemma: a click of Telegram acts only with a token that is the user's and whose
\* message is neither old nor from the future.
LEMMA TelegramClicked ==
    ASSUME NEW d, NEW e, d.kind = "click", Judge(TelegramRequest(d, e), d, e).did \cap Acts # {}
    PROVE  /\ TelegramVerdict(d, e) = "ok" /\ ~TelegramStale(d, e)
           /\ ~(d.date > e.now + CallbackSkew)
<1> DEFINE webhook == << Refuse("secret", 401, Anon), Do("verified"), Take("adapter", Anon),
                         Refuse("body", 400, Anon) >>
           polled == << Do("verified"), Take("adapter", Anon) >>
           head == IF e.cfg.polled THEN polled ELSE webhook
           share == << Do("known"), Take(d.tenant, Sub) >>
           who == IF e.cfg.identity = "upstream" THEN UpstreamResolve ELSE TableResolve
           p == TelegramStale(d, e)
           q == d.date > e.now + CallbackSkew
           r == TelegramVerdict(d, e) # "ok"
           stale == RefuseIf(p, 401, Sub)
           early == RefuseIf(q, 401, Sub)
           signed == RefuseIf(r, 401, Sub)
           g == << Refuse("noToken", 400, Sub), Refuse("noDate", 401, Sub), stale, early, signed >>
<1>1. TelegramRequest(d, e) = head \o (((who \o share) \o g) \o TelegramTurn)
  <2>1. TelegramUpdate(d, e) = ((who \o share) \o g) \o TelegramTurn
    BY Zenon DEF TelegramUpdate, TelegramCallback, TelegramSender
  <2>2. TelegramRequest(d, e) = head \o TelegramUpdate(d, e)
    <3> HIDE DEF stale, early, signed, g
    <3> QED BY Zenon DEF TelegramRequest, TelegramPolled, TelegramWebhook
  <2> HIDE DEF head, who, share, g
  <2> QED BY <2>1, <2>2
<1>2. (p => Fails(stale, d, e)) /\ (q => Fails(early, d, e)) /\ (r => Fails(signed, d, e))
  <2>1. stale.when = p /\ early.when = q /\ signed.when = r
    BY DEF RefuseIf, Gate
  <2> HIDE DEF p, q, r, stale, early, signed
  <2> QED BY <2>1 DEF Fails
<1> HIDE DEF p, q, r
<1>3. Idles(webhook) /\ Idles(polled) /\ Idles(share)
  BY IdleLists
<1>4. Idles(UpstreamResolve) /\ Idles(TableResolve)
  BY IdleLists DEF UpstreamResolve, TableResolve
<1>5. Idles(g)
  BY IdleLists
<1> HIDE DEF stale, early, signed
<1>6. Len(g) = 5 /\ g[3] = stale /\ g[4] = early /\ g[5] = signed
  OBVIOUS
<1>7. IsList(TelegramTurn)
  BY Tuples DEF TelegramTurn
<1> HIDE DEF webhook, polled, share, g
<1>8. Idles(head) /\ Idles(who \o share)
  BY <1>3, <1>4, IdleLists
<1> HIDE DEF head, who
<1>9. \A i \in 1..Len(g) : ~Fails(g[i], d, e)
  BY <1>1, <1>5, <1>7, <1>8, BehindFront
<1>10. ~Fails(stale, d, e) /\ ~Fails(early, d, e) /\ ~Fails(signed, d, e)
  BY <1>6, <1>9
<1>11. ~p /\ ~q /\ ~r
  BY <1>2, <1>10
<1> QED BY <1>11 DEF p, q, r

\* Lemma: a component or a modal of Discord acts only with a token that is the
\* user's, and a component only in a message that is neither old nor from the future.
LEMMA DiscordClicked ==
    ASSUME NEW d, NEW e, d.kind \in {"component", "modal"},
           Judge(DiscordRequest(d, e), d, e).did \cap Acts # {}
    PROVE  /\ DiscordVerdict(d, e) = "ok"
           /\ d.kind = "component" => ~DiscordStale(d, e) /\ ~DiscordEarly(d, e)
<1> DEFINE head == << Do("verified"), Take("adapter", Anon), Refuse("body", 400, Anon) >>
           share == << Do("known"), Take(d.tenant, Sub), Refuse("noData", 400, Sub) >>
           p == DiscordStale(d, e)
           q == DiscordEarly(d, e)
           r == DiscordVerdict(d, e) # "ok"
           x == DiscordVerdict(d, e) = "ok" /\ ~DiscordFits(d)
           y == DiscordVerdict(d, e) = "ok" /\ ~DiscordModalFits(d)
           stale == RefuseIf(p, 401, Sub)
           early == RefuseIf(q, 401, Sub)
           signed == RefuseIf(r, 401, Sub)
           fits == RefuseIf(x, 400, Sub)
           filled == RefuseIf(y, 400, Sub)
           g == << Refuse("noToken", 400, Sub), Refuse("noDate", 401, Sub), Refuse("badDate", 400, Sub),
                   stale, early, signed, fits >>
           h == << Refuse("noToken", 400, Sub), signed, filled >>
           front == DiscordSignature \o head
           who == TableResolve \o share
<1>1. /\ d.kind = "component" => DiscordRequest(d, e) = front \o ((who \o g) \o DiscordTurn)
      /\ d.kind = "modal" => DiscordRequest(d, e) = front \o ((who \o h) \o DiscordModalTurn)
  <2>1. DiscordComponent(d, e) = (who \o g) \o DiscordTurn
    BY Zenon DEF DiscordComponent, DiscordSender
  <2>2. DiscordModal(d, e) = (who \o h) \o DiscordModalTurn
    BY Zenon DEF DiscordModal, DiscordSender
  <2> HIDE DEF g, h, who
  <2>3. d.kind = "component" => DiscordRequest(d, e) = front \o DiscordComponent(d, e)
    BY DEF DiscordRequest
  <2>4. d.kind = "modal" => DiscordRequest(d, e) = front \o DiscordModal(d, e)
    BY DEF DiscordRequest
  <2> HIDE DEF front
  <2> QED BY <2>1, <2>2, <2>3, <2>4
<1>2. (p => Fails(stale, d, e)) /\ (q => Fails(early, d, e)) /\ (r => Fails(signed, d, e))
  <2>1. stale.when = p /\ early.when = q /\ signed.when = r
    BY DEF RefuseIf, Gate
  <2> HIDE DEF p, q, r, stale, early, signed
  <2> QED BY <2>1 DEF Fails
<1> HIDE DEF p, q, r, x, y
<1>3. Idles(head) /\ Idles(share) /\ Idles(DiscordSignature) /\ Idles(TableResolve)
  BY IdleLists DEF DiscordSignature, TableResolve
<1>4. Idle(stale) /\ Idle(early) /\ Idle(signed) /\ Idle(fits) /\ Idle(filled)
  BY IdleLists
<1> HIDE DEF head, share, stale, early, signed, fits, filled
<1>5. Idles(g) /\ Idles(h)
  BY <1>4, IdleLists
<1>6. Len(g) = 7 /\ g[4] = stale /\ g[5] = early /\ g[6] = signed /\ Len(h) = 3 /\ h[2] = signed
  OBVIOUS
<1>7. IsList(DiscordTurn) /\ IsList(DiscordModalTurn)
  BY Tuples DEF DiscordTurn, DiscordModalTurn
<1>8. Idles(front) /\ Idles(who)
  BY <1>3, IdleLists
<1> HIDE DEF front, who, g, h
<1>9. CASE d.kind = "component"
  <2>1. \A i \in 1..Len(g) : ~Fails(g[i], d, e)
    BY <1>1, <1>5, <1>7, <1>8, <1>9, BehindFront
  <2>2. ~Fails(stale, d, e) /\ ~Fails(early, d, e) /\ ~Fails(signed, d, e)
    BY <1>6, <2>1
  <2>3. ~p /\ ~q /\ ~r
    BY <1>2, <2>2
  <2> QED BY <2>3 DEF p, q, r
<1>10. CASE d.kind = "modal"
  <2>1. \A i \in 1..Len(h) : ~Fails(h[i], d, e)
    BY <1>1, <1>5, <1>7, <1>8, <1>10, BehindFront
  <2>2. ~Fails(signed, d, e)
    BY <1>6, <2>1
  <2>3. ~r
    BY <1>2, <2>2
  <2> QED BY <1>10, <2>3 DEF r
<1> QED BY <1>9, <1>10

\* Lemma: a click of Google Chat acts only with a token that is the user's.
LEMMA GoogleClicked ==
    ASSUME NEW d, NEW e, d.kind = "click", Judge(GoogleRequest(d, e), d, e).did \cap Acts # {}
    PROVE  GoogleVerdict(d, e) = "ok"
<1> DEFINE r == GoogleVerdict(d, e) # "ok"
           signed == RefuseIf(r, 401, Sub)
           extract == << GoogleExtract >>
           g == << signed >>
           tail == IF d.token.tool = "open" THEN GoogleOpenDoc(d) ELSE GoogleRouted(d, e)
<1>1. GoogleRequest(d, e) = GoogleVerified \o (((extract \o GoogleSender(d, e)) \o g) \o tail)
  <2>1. GoogleRequest(d, e) = GoogleWebhook(d, e)
    BY DEF GoogleRequest
  <2> HIDE DEF g, extract
  <2>2. GoogleWebhook(d, e) = GoogleVerified \o (((extract \o GoogleSender(d, e)) \o g) \o tail)
    BY DEF GoogleWebhook, g, extract
  <2> HIDE DEF tail
  <2> QED BY <2>1, <2>2
<1>2. r => Fails(signed, d, e)
  <2>1. signed.when = r
    BY DEF RefuseIf, Gate
  <2> HIDE DEF r, signed
  <2> QED BY <2>1 DEF Fails
<1> HIDE DEF r
<1>3. Idles(extract) /\ Idle(signed)
  BY IdleLists DEF GoogleExtract
<1> HIDE DEF extract, signed
<1>4. Idles(GoogleVerified) /\ Idles(GoogleSender(d, e)) /\ Idles(g)
  BY <1>3, GoogleFree, IdleLists DEF Idles
<1>5. Len(g) = 1 /\ g[1] = signed
  OBVIOUS
<1>6. IsList(tail)
  <2>1. Benign(d, {})
    BY DEF Benign
  <2>2. Settles(GoogleOpenDoc(d), d, e, {}) /\ Settles(GoogleRouted(d, e), d, e, {})
    BY <2>1, GoogleRunSettles
  <2> QED BY <2>2, SparesJoin DEF Settles
<1> HIDE DEF g, tail
<1>7. Idles(extract \o GoogleSender(d, e))
  BY <1>3, <1>4, IdleLists
<1>8. \A i \in 1..Len(g) : ~Fails(g[i], d, e)
  BY <1>1, <1>4, <1>6, <1>7, BehindFront
<1>9. ~Fails(signed, d, e)
  BY <1>5, <1>8
<1>10. ~r
  BY <1>2, <1>9
<1> QED BY <1>10 DEF r

\* Lemma: a click or a dialog of Teams acts only with a token that is the user's.
LEMMA TeamsClicked ==
    ASSUME NEW d, NEW e, d.kind \in {"submit", "execute", "fetch"},
           Judge(TeamsRequest(d, e), d, e).did \cap Acts # {}
    PROVE  TeamsVerdict(d, e) = "ok"
<1> DEFINE r == TeamsVerdict(d, e) # "ok"
           closed == LeaveIf(d.token.tool # "open", 400)
           signed == RefuseIf(r, 401, Sub)
           g == << TeamsExtract, signed >>
           h == << Leave("noToken", 400), signed >>
           renew == << Do("refresh"), Done(200) >>
           embed == << Leave("link", 400), Done(200) >>
           dialog == << closed, Leave("skill", 400), Do("turn"), Do("respond"), Done(200) >>
           clicked == CASE d.token.tool = "refresh" -> renew
                        [] d.token.tool = "send" -> TeamsSendText(d, e)
                        [] d.token.tool = "use" /\ e.cfg.router -> TeamsPick(d, e)
                        [] OTHER -> TeamsRunClick(d, e)
           shown == IF d.token.tool = "embed" THEN embed ELSE dialog
<1>1. /\ d.kind # "fetch" => TeamsRequest(d, e) = TeamsVerified \o ((TeamsAdmit(d, e) \o g) \o clicked)
      /\ d.kind = "fetch" => TeamsRequest(d, e) = TeamsVerified \o ((TeamsAdmit(d, e) \o h) \o shown)
  <2>1. TeamsCallback(d, e) = (TeamsAdmit(d, e) \o g) \o clicked
    BY Zenon DEF TeamsCallback
  <2>2. TeamsTaskFetch(d, e) = (TeamsAdmit(d, e) \o h) \o shown
    BY Zenon DEF TeamsTaskFetch
  <2> HIDE DEF g, h, clicked, shown
  <2>3. TeamsRequest(d, e) = TeamsWebhook(d, e)
    BY DEF TeamsRequest
  <2>4. d.kind # "fetch" => TeamsWebhook(d, e) = TeamsVerified \o TeamsCallback(d, e)
    BY DEF TeamsWebhook
  <2>5. d.kind = "fetch" => TeamsWebhook(d, e) = TeamsVerified \o TeamsTaskFetch(d, e)
    BY DEF TeamsWebhook
  <2> QED BY <2>1, <2>2, <2>3, <2>4, <2>5
<1>2. r => Fails(signed, d, e)
  <2>1. signed.when = r
    BY DEF RefuseIf, Gate
  <2> HIDE DEF r, signed
  <2> QED BY <2>1 DEF Fails
<1> HIDE DEF r
<1>3. Idle(signed) /\ Idle(TeamsExtract)
  BY IdleLists DEF TeamsExtract
<1> HIDE DEF signed
<1>4. Idles(TeamsVerified) /\ Idles(TeamsAdmit(d, e))
  BY TeamsFree DEF Idles
<1>5. Idles(g) /\ Idles(h)
  BY <1>3, IdleLists
<1>6. Len(g) = 2 /\ g[2] = signed /\ Len(h) = 2 /\ h[2] = signed
  OBVIOUS
<1>7. IsList(clicked) /\ IsList(shown)
  <2>1. Benign(d, {})
    BY DEF Benign
  <2>2. /\ Settles(TeamsRunClick(d, e), d, e, {}) /\ Settles(TeamsPick(d, e), d, e, {})
        /\ Settles(TeamsSendText(d, e), d, e, {})
    BY <2>1, TeamsRunSettles
  <2>3. IsList(TeamsRunClick(d, e)) /\ IsList(TeamsPick(d, e)) /\ IsList(TeamsSendText(d, e))
    BY <2>2, SparesJoin DEF Settles
  <2>4. IsList(renew) /\ IsList(embed) /\ IsList(dialog)
    BY Tuples
  <2> HIDE DEF renew, embed, dialog
  <2> QED BY <2>3, <2>4
<1> HIDE DEF g, h, clicked, shown
<1>8. ~Fails(signed, d, e)
  <2>1. CASE d.kind # "fetch"
    <3>1. \A i \in 1..Len(g) : ~Fails(g[i], d, e)
      BY <1>1, <1>4, <1>5, <1>7, <2>1, BehindFront
    <3> QED BY <1>6, <3>1
  <2>2. CASE d.kind = "fetch"
    <3>1. \A i \in 1..Len(h) : ~Fails(h[i], d, e)
      BY <1>1, <1>4, <1>5, <1>7, <2>2, BehindFront
    <3> QED BY <1>6, <3>1
  <2> QED BY <2>1, <2>2
<1>9. ~r
  BY <1>2, <1>8
<1> QED BY <1>9 DEF r

\* What the adapter of the channel makes of a click's token.
ClickVerdict(d) == DecodeBoundAny(d.token, ring, CardCap, Binding(channel, d.tenant, d.by), clock)

\* Lemma: that is each adapter's verdict.
LEMMA Verdicts ==
    ASSUME NEW d
    PROVE  LET e == Env(d.by, Full) IN
           /\ channel = "msteams" => TeamsVerdict(d, e) = ClickVerdict(d)
           /\ channel = "google_chat" => GoogleVerdict(d, e) = ClickVerdict(d)
           /\ channel = "telegram" => TelegramVerdict(d, e) = ClickVerdict(d)
           /\ channel = "discord" => DiscordVerdict(d, e) = ClickVerdict(d)
<1> DEFINE e == Env(d.by, Full)
<1>1. e.ring = ring /\ e.now = clock
  BY DEF Env
<1> HIDE DEF e
<1>2. channel = "msteams" => TeamsVerdict(d, e) = ClickVerdict(d)
  BY <1>1 DEF TeamsVerdict, TeamsBinding, ClickVerdict, CardCap
<1>3. channel = "google_chat" => GoogleVerdict(d, e) = ClickVerdict(d)
  BY <1>1 DEF GoogleVerdict, GoogleBinding, ClickVerdict, CardCap
<1>4. channel = "telegram" => TelegramVerdict(d, e) = ClickVerdict(d)
  BY <1>1 DEF TelegramVerdict, TelegramBinding, ClickVerdict, CardCap
<1>5. channel = "discord" => DiscordVerdict(d, e) = ClickVerdict(d)
  BY <1>1 DEF DiscordVerdict, DiscordBinding, ClickVerdict, CardCap
<1> QED BY <1>2, <1>3, <1>4, <1>5 DEF e

\* Lemma: a click whose token the ring opens brings the card, and is of the user it
\* was shown to, in the lifetime of the token.
LEMMA OpenedIsCard ==
    ASSUME CardInv, Up, channel \in CardChannels, NEW d,
           d.token \in {card.token, ref.token, ImageToken}, ClickVerdict(d) = "ok"
    PROVE  /\ d.token = card.token /\ CardShape /\ card.owner = d.by /\ InRing(card.token)
           /\ channel # "telegram" => clock <= card.born + (CardTTL + Hour)
<1> DEFINE b == Binding(channel, d.tenant, d.by)
           t == d.token
<1>1. ring # <<>> /\ ring \in Seq({OldKey, NewKey, ShortKey}) /\ clock \in Nat
  BY DEF CardInv
<1>2. /\ t.tool # "none" /\ (\E i \in DOMAIN ring : t.mac = TenantKey(ring[i], b))
      /\ ~(t.exp # Never /\ t.exp * Hour < clock)
  BY <1>1, RingVerdict DEF ClickVerdict
<1>3. PICK i \in DOMAIN ring : t.mac = TenantKey(ring[i], b)
  BY <1>2
<1>4. t.mac.key = ring[i] /\ t.mac.for = b
  BY <1>3 DEF TenantKey
<1>5. b # Unbound
  <2>1. b.platform = channel /\ Unbound.platform = "-"
    BY DEF Binding, Unbound
  <2>2. channel # "-"
    BY DEF CardChannels
  <2> HIDE DEF b
  <2> QED BY <2>1, <2>2
<1>6. ~UnboundToken(t)
  BY <1>2, <1>4, <1>5 DEF UnboundToken
<1>7. t = card.token
  BY <1>6, UnboundTokens DEF CardInv
<1>8. CardShape
  BY <1>2, <1>7 DEF CardInv, NoToken
<1>9. card.owner = d.by
  <2>1. TenantKey(card.token.mac.key, Binding(channel, Home[card.owner], card.owner)).for = b
    BY <1>4, <1>7, <1>8 DEF CardShape
  <2>2. Binding(channel, Home[card.owner], card.owner) = b
    BY <2>1 DEF TenantKey
  <2>3. Binding(channel, Home[card.owner], card.owner).sender = card.owner /\ b.sender = d.by
    BY DEF Binding
  <2> HIDE DEF b
  <2> QED BY <2>2, <2>3
<1>10. InRing(card.token)
  BY <1>3, <1>4, <1>7 DEF InRing
<1>11. ASSUME channel # "telegram" PROVE clock <= card.born + (CardTTL + Hour)
  <2>1. t.exp = CeilHours(card.born + CardTTL) /\ card.born \in Nat /\ 1 <= card.born
    BY <1>7, <1>8, <1>11 DEF CardShape
  <2> DEFINE n == card.born + CardTTL
             x == CeilHours(n)
  <2>2. n \in Nat /\ 1 <= n /\ Hour \in Nat /\ CardTTL \in Nat
    BY <2>1, TokenConstants
  <2> HIDE DEF n
  <2>3. x \in Nat /\ x # Never /\ x * Hour <= n + Hour
    BY <2>2, HoursRoundUp
  <2>4. ~(x * Hour < clock)
    BY <1>2, <2>1, <2>3 DEF n
  <2> HIDE DEF x
  <2>5. clock <= n + Hour
    <3>1. x * Hour \in Nat
      BY <2>2, <2>3
    <3> DEFINE z == x * Hour
    <3> HIDE DEF z
    <3>2. z \in Nat /\ z <= n + Hour /\ ~(z < clock)
      BY <2>3, <2>4, <3>1 DEF z
    <3> QED BY <1>1, <2>2, <3>2
  <2> QED BY <1>1, <2>1, <2>2, <2>5 DEF n
<1> QED BY <1>7, <1>8, <1>9, <1>10, <1>11

\* Lemma: the ring opens the card for its user while it lives and its key is held.
LEMMA CardOpens ==
    ASSUME CardInv, Up, card.token # NoToken, InRing(card.token), clock <= card.born + CardTTL,
           NEW d, d.token = card.token, d.by = card.owner, d.tenant = Home[d.by]
    PROVE  channel \in CardChannels /\ CardShape /\ ClickVerdict(d) = "ok"
<1>1. channel \in CardChannels /\ CardShape /\ clock \in Nat
  BY DEF CardInv
<1>2. ring # <<>> /\ ring \in Seq({OldKey, NewKey, ShortKey})
  BY <1>1 DEF CardInv
<1> DEFINE b == Binding(channel, d.tenant, d.by)
           t == d.token
<1>3. t.tool # "none" /\ ~(t.size > CardCap) /\ t.mac = TenantKey(t.mac.key, b)
  BY <1>1 DEF CardShape
<1>4. PICK i \in DOMAIN ring : ring[i] = t.mac.key
  BY DEF InRing
<1>5. t.mac = TenantKey(ring[i], b)
  BY <1>3, <1>4
<1>6. ~(t.exp # Never /\ t.exp * Hour < clock)
  <2>1. CASE channel = "telegram"
    BY <1>1, <2>1 DEF CardShape
  <2>2. CASE channel # "telegram"
    <3>1. t.exp = CeilHours(card.born + CardTTL) /\ card.born \in Nat /\ 1 <= card.born
      BY <1>1, <2>2 DEF CardShape
    <3> DEFINE n == card.born + CardTTL
               x == CeilHours(n)
    <3>2. n \in Nat /\ 1 <= n /\ Hour \in Nat /\ clock <= n
      BY <3>1, TokenConstants
    <3> HIDE DEF n
    <3>3. x \in Nat /\ n <= x * Hour
      BY <3>2, HoursRoundUp
    <3> HIDE DEF x
    <3>4. ~(x * Hour < clock)
      <4>1. x * Hour \in Nat
        BY <3>2, <3>3
      <4> DEFINE z == x * Hour
      <4> HIDE DEF z
      <4>2. z \in Nat /\ n <= z
        BY <3>3, <4>1 DEF z
      <4>3. ~(z < clock)
        BY <1>1, <3>2, <4>2
      <4> QED BY <4>3 DEF z
    <3> QED BY <3>1, <3>4 DEF x, n
  <2> QED BY <2>1, <2>2
<1>7. ClickVerdict(d) = "ok"
  BY <1>2, <1>3, <1>5, <1>6, RingVerdict DEF ClickVerdict
<1> QED BY <1>1, <1>7

\* Lemma: what is clicked, as it should be or with a flaw.
LEMMA ClickShape ==
    ASSUME NEW d \in Clicks \cup Flawed
    PROVE  /\ d.kind \in Kinds /\ d.token \in {card.token, ref.token, ImageToken}
           /\ d.tenant = Home[d.by]
           /\ d.date = card.born \/ (channel = "telegram" /\ d.date = clock + CallbackSkew + 1)
           /\ d \in Clicks => d.flaws = {}
<1>1. CASE d \in Clicks
  <2>1. PICK k \in Kinds \cap (ClickKinds \cup {"image"}), u \in Users,
             t \in {card.token, ref.token, ImageToken}, date \in Dates, part \in Parts :
          d = Delivery(k, {}, u, t, Greeting, date, part)
    BY <1>1 DEF Clicks
  <2>2. /\ d.kind = k /\ d.token = t /\ d.by = u /\ d.tenant = Home[u] /\ d.date = date
        /\ d.flaws = {}
    BY <2>1 DEF Delivery
  <2>3. date = card.born \/ (channel = "telegram" /\ date = clock + CallbackSkew + 1)
    BY DEF Dates
  <2> QED BY <2>1, <2>2, <2>3
<1>2. CASE d \in Flawed /\ d \notin Clicks
  <2>1. PICK k \in Kinds, flaws \in {{f} : f \in Flaws} :
          d = Delivery(k, flaws, Owner, card.token, Greeting, card.born, "button")
    BY <1>2 DEF Flawed
  <2>2. /\ d.kind = k /\ d.token = card.token /\ d.by = Owner /\ d.tenant = Home[Owner]
        /\ d.date = card.born
    BY <2>1 DEF Delivery
  <2> QED BY <1>2, <2>1, <2>2
<1> QED BY <1>1, <1>2

\* Lemma: which kinds of clicks an adapter has.
LEMMA ChannelClicks ==
    ASSUME NEW k \in Kinds, k \in ClickKinds
    PROVE  \/ channel = "msteams" /\ k \in {"submit", "execute", "fetch"}
           \/ channel = "google_chat" /\ k = "click"
           \/ channel = "telegram" /\ k = "click"
           \/ channel = "discord" /\ k \in {"component", "modal"}
BY DEF Kinds, ClickKinds, TeamsKinds, GoogleKinds, TelegramKinds, DiscordKinds, PhoneKinds

\* Lemma: a click that does something comes with a token that opens, and on Telegram
\* and Discord in time.
LEMMA ActsInTime ==
    ASSUME NEW d, d.kind \in Kinds, d.kind \in ClickKinds, Outcome(d, Full).did \cap Acts # {}
    PROVE  LET e == Env(d.by, Full) IN
           /\ channel \in CardChannels /\ ClickVerdict(d) = "ok"
           /\ channel = "telegram" => ~TelegramStale(d, e) /\ ~(d.date > e.now + CallbackSkew)
           /\ (channel = "discord" /\ d.kind = "component") => ~DiscordStale(d, e)
<1> DEFINE e == Env(d.by, Full)
<1>1. Judge(Request(d, e), d, e).did \cap Acts # {}
  BY DEF Outcome
<1>2. /\ channel = "msteams" => TeamsVerdict(d, e) = ClickVerdict(d)
      /\ channel = "google_chat" => GoogleVerdict(d, e) = ClickVerdict(d)
      /\ channel = "telegram" => TelegramVerdict(d, e) = ClickVerdict(d)
      /\ channel = "discord" => DiscordVerdict(d, e) = ClickVerdict(d)
  BY Verdicts
<1> HIDE DEF e
<1>3. CASE channel = "msteams" /\ d.kind \in {"submit", "execute", "fetch"}
  <2>1. Request(d, e) = TeamsRequest(d, e)
    BY <1>3 DEF Request
  <2>2. TeamsVerdict(d, e) = "ok"
    BY <1>1, <1>3, <2>1, TeamsClicked
  <2> QED BY <1>2, <1>3, <2>2 DEF CardChannels
<1>4. CASE channel = "google_chat" /\ d.kind = "click"
  <2>1. Request(d, e) = GoogleRequest(d, e)
    BY <1>4 DEF Request
  <2>2. GoogleVerdict(d, e) = "ok"
    BY <1>1, <1>4, <2>1, GoogleClicked
  <2> QED BY <1>2, <1>4, <2>2 DEF CardChannels
<1>5. CASE channel = "telegram" /\ d.kind = "click"
  <2>1. Request(d, e) = TelegramRequest(d, e)
    BY <1>5 DEF Request
  <2>2. /\ TelegramVerdict(d, e) = "ok" /\ ~TelegramStale(d, e)
        /\ ~(d.date > e.now + CallbackSkew)
    BY <1>1, <1>5, <2>1, TelegramClicked
  <2> QED BY <1>2, <1>5, <2>2 DEF CardChannels, e
<1>6. CASE channel = "discord" /\ d.kind \in {"component", "modal"}
  <2>1. Request(d, e) = DiscordRequest(d, e)
    BY <1>6 DEF Request
  <2>2. DiscordVerdict(d, e) = "ok" /\ (d.kind = "component" => ~DiscordStale(d, e))
    BY <1>1, <1>6, <2>1, DiscordClicked
  <2> QED BY <1>2, <1>6, <2>2 DEF CardChannels, e
<1> QED BY <1>3, <1>4, <1>5, <1>6, ChannelClicks

\* Lemma: a click with a token that opens, in time, is not turned away as
\* unauthorized.
LEMMA OpensIsAuthorized ==
    ASSUME NEW d, d.kind \in Kinds, d.kind \in ClickKinds, d.flaws = {}, ClickVerdict(d) = "ok",
           LET e == Env(d.by, Full) IN
           /\ channel = "telegram" => ~TelegramStale(d, e) /\ ~(d.date > e.now + CallbackSkew)
           /\ channel = "discord" => ~DiscordStale(d, e) /\ ~DiscordEarly(d, e)
    PROVE  Outcome(d, Full).status # 401
<1> DEFINE e == Env(d.by, Full)
           N == {401}
<1>1. Benign(d, N)
  BY DEF Benign
<1>2. /\ channel = "msteams" => TeamsVerdict(d, e) = "ok"
      /\ channel = "google_chat" => GoogleVerdict(d, e) = "ok"
      /\ channel = "telegram" => TelegramVerdict(d, e) = "ok"
      /\ channel = "discord" => DiscordVerdict(d, e) = "ok"
  BY Verdicts
<1>3. /\ channel = "telegram" => ~TelegramStale(d, e) /\ ~(d.date > e.now + CallbackSkew)
      /\ channel = "discord" => ~DiscordStale(d, e) /\ ~DiscordEarly(d, e)
  OBVIOUS
<1>4. d.kind # "image"
  BY DEF ClickKinds
<1> HIDE DEF e, N
<1>5. Settles(Request(d, e), d, e, N)
  <2>1. CASE channel = "msteams"
    <3>1. Settles(TeamsRequest(d, e), d, e, N)
      BY <1>1, <1>2, <1>4, <2>1, TeamsSettles
    <3> QED BY <2>1, <3>1 DEF Request
  <2>2. CASE channel = "google_chat"
    <3>1. Settles(GoogleRequest(d, e), d, e, N)
      BY <1>1, <1>2, <1>4, <2>2, GoogleSettles
    <3> QED BY <2>2, <3>1 DEF Request
  <2>3. CASE channel = "telegram"
    <3>1. Settles(TelegramRequest(d, e), d, e, N)
      BY <1>1, <1>2, <1>3, <2>3, TelegramSettles
    <3> QED BY <2>3, <3>1 DEF Request
  <2>4. CASE channel = "discord"
    <3>1. Settles(DiscordRequest(d, e), d, e, N)
      BY <1>1, <1>2, <1>3, <2>4, DiscordSettles
    <3> QED BY <2>4, <3>1 DEF Request
  <2> QED BY <2>1, <2>2, <2>3, <2>4, ChannelClicks
<1>6. Judge(Request(d, e), d, e).status \notin N
  BY <1>5, SparesJoin
<1> QED BY <1>6 DEF e, N, Outcome

(***************************************************************************)
(* What the platforms deliver again.                                       *)
(***************************************************************************)

\* What may have become of a message the platform no longer holds.
Settled == {"answered", "silent", "ignored"} \cup (IF platform = "poll" THEN {"dropped"} ELSE {})

\* The inductive invariant of Redelivery.  What is dealt with, runs and is still
\* ahead are apart; what is over or let go of has a fate; an answer is
\* paid for by a wasted one, by the delivery under way or by the platform having
\* let go; and the poller's offset is above what it dealt with and only that.
RdTypes ==
    /\ held \subseteq All /\ ahead \subseteq held /\ dealt \subseteq All /\ replied \subseteq dealt
    /\ current = 0 \/ current \in held \ (ahead \cup dealt)
    /\ ahead \cap dealt = {} /\ offset \in Nat
    /\ fate \in [All -> {"none", "answered", "silent", "ignored", "dropped"}]
    /\ answers \in [All -> Nat] /\ wasted \in [All -> Nat]
RdSettled == \A m \in All : m \in dealt \/ m \notin held => fate[m] \in Settled
RdPaid ==
    \A m \in All : answers[m] <= wasted[m] + (IF m \in replied \/ m \notin held THEN 1 ELSE 0)
RdOffset ==
    IF platform # "poll" THEN dealt \subseteq held
    ELSE /\ \A m \in dealt : m < offset
         /\ \A m \in held : m < offset => m \in dealt \/ m = current
         /\ current # 0 => current < offset
         /\ \A m \in ahead, k \in held : k < m => k \in dealt \cup ahead \/ k = current
RdInv == RdTypes /\ RdSettled /\ RdPaid /\ RdOffset

\* Lemma: a message that is over is settled and its answer accounted for.
LEMMA HandledKeeps ==
    ASSUME RdTypes, RdSettled, RdPaid, NEW m \in held, m \notin dealt, NEW f \in Settled,
           HandledAs(m, f), UNCHANGED platform
    PROVE  /\ RdSettled' /\ RdPaid' /\ replied' \subseteq dealt' /\ dealt' = dealt \cup {m}
           /\ dealt' \subseteq All /\ held' = held
           /\ fate' \in [All -> {"none", "answered", "silent", "ignored", "dropped"}]
           /\ answers' \in [All -> Nat] /\ wasted' \in [All -> Nat]
<1>1. m \in All /\ m \notin replied /\ f \in {"none", "answered", "silent", "ignored", "dropped"}
  BY DEF RdTypes, Settled
<1>2. /\ replied' \subseteq dealt' /\ dealt' = dealt \cup {m} /\ dealt' \subseteq All /\ held' = held
      /\ fate' \in [All -> {"none", "answered", "silent", "ignored", "dropped"}]
      /\ answers' \in [All -> Nat] /\ wasted' \in [All -> Nat]
  BY <1>1 DEF HandledAs, RdTypes
<1>3. RdSettled'
  BY <1>1 DEF HandledAs, RdTypes, RdSettled, Settled
<1>4. RdPaid'
  BY <1>1 DEF HandledAs, RdTypes, RdPaid
<1> QED BY <1>2, <1>3, <1>4

\* Lemma: a delivery that is not acknowledged wastes the answers it gave.
LEMMA UnacknowledgedKeeps ==
    ASSUME RdInv, Unacknowledged, UNCHANGED platform,
           (offset' = offset /\ platform # "poll") \/ offset' = 0
    PROVE  RdInv'
<1>1. RdTypes' /\ RdSettled'
  BY DEF Unacknowledged, RdInv, RdTypes, RdSettled, Settled
<1>2. RdPaid'
  BY DEF Unacknowledged, RdInv, RdTypes, RdPaid
<1>3. RdOffset'
  <2>1. \A m \in held : m \in Nat
    BY RedeliveryConstants DEF RdInv, RdTypes, All
  <2> QED BY <2>1 DEF Unacknowledged, RdInv, RdTypes, RdOffset
<1> QED BY <1>1, <1>2, <1>3 DEF RdInv

\* Lemma: the next message of a delivery is the lowest the poller has not dealt with.
LEMMA NextIsLowest ==
    ASSUME RdInv, NEW m, IsNext(m)
    PROVE  /\ m \in Nat /\ m \in held /\ m \in All /\ m \notin dealt /\ current = 0 /\ m \in ahead
           /\ OffsetPast(m) \in Nat
           /\ platform = "poll" =>
                 /\ OffsetPast(m) = m + 1
                 /\ \A k \in held : k < m + 1 => k \in dealt \cup {m}
                 /\ \A k \in dealt : k < m + 1
                 /\ \A k \in ahead : m <= k
<1>1. m \in ahead /\ current = 0 /\ (\A k \in ahead : m <= k) /\ m \in held /\ m \in All /\ m \notin dealt
  BY DEF IsNext, RdInv, RdTypes
<1>2. m \in Nat /\ offset \in Nat /\ 0 \notin held /\ \A k \in held \cup dealt : k \in Nat
  BY <1>1, RedeliveryConstants DEF RdInv, RdTypes, All
<1>3. platform = "poll" => m >= offset
  BY <1>1, <1>2 DEF RdInv, RdOffset
<1>4. platform = "poll" => \A k \in held : k < m + 1 => k \in dealt \cup {m}
  <2> SUFFICES ASSUME platform = "poll", NEW k \in held, k < m + 1, k # m PROVE k \in dealt
    OBVIOUS
  <2>1. k < m
    BY <1>2
  <2>2. k \in dealt \cup ahead \/ k = current
    BY <1>1, <2>1 DEF RdInv, RdOffset
  <2>3. k \notin ahead
    BY <1>1, <1>2, <2>1
  <2> QED BY <1>1, <1>2, <2>2, <2>3
<1>5. platform = "poll" => \A k \in dealt : k < m + 1
  BY <1>2, <1>3 DEF RdInv, RdOffset
<1> QED BY <1>1, <1>2, <1>3, <1>4, <1>5 DEF OffsetPast

\* Lemma: a message that is over without a turn.
LEMMA PassedKeeps ==
    ASSUME RdInv, NEW m, IsNext(m), NEW f \in Settled, HandledAs(m, f), ahead' = ahead \ {m},
           offset' = OffsetPast(m), UNCHANGED <<platform, current>>
    PROVE  RdInv'
<1>1. /\ m \in held /\ m \notin dealt /\ current = 0 /\ m \in ahead /\ OffsetPast(m) \in Nat
      /\ platform = "poll" => /\ OffsetPast(m) = m + 1 /\ \A k \in held : k < m + 1 => k \in dealt \cup {m}
                              /\ \A k \in dealt : k < m + 1
                              /\ m \in Nat
  BY NextIsLowest
<1>2. /\ RdSettled' /\ RdPaid' /\ replied' \subseteq dealt' /\ dealt' = dealt \cup {m}
      /\ dealt' \subseteq All /\ held' = held
      /\ fate' \in [All -> {"none", "answered", "silent", "ignored", "dropped"}]
      /\ answers' \in [All -> Nat] /\ wasted' \in [All -> Nat]
  BY <1>1, HandledKeeps DEF RdInv
<1>3. RdTypes'
  BY <1>1, <1>2 DEF RdInv, RdTypes
<1>4. RdOffset'
  <2>1. CASE platform # "poll"
    BY <1>1, <1>2, <2>1 DEF RdInv, RdOffset
  <2>2. CASE platform = "poll"
    <3>1. \A k \in dealt' : k < offset'
      BY <1>1, <1>2, <2>2
    <3>2. \A k \in held' : k < offset' => k \in dealt' \/ k = current'
      BY <1>1, <1>2, <2>2
    <3>3. \A j \in ahead', k \in held' : k < j => k \in dealt' \cup ahead' \/ k = current'
      BY <1>1, <1>2, <2>2 DEF RdInv, RdOffset
    <3> QED BY <1>1, <2>2, <3>1, <3>2, <3>3 DEF RdOffset
  <2> QED BY <2>1, <2>2
<1> QED BY <1>2, <1>3, <1>4 DEF RdInv

\* Lemma: a turn that is over.
LEMMA TurnedKeeps ==
    ASSUME RdInv, current # 0, NEW f \in Settled, HandledAs(current, f), current' = 0,
           UNCHANGED <<platform, ahead, offset>>
    PROVE  RdInv'
<1>1. current \in held /\ current \notin dealt /\ current \notin ahead /\ 0 \notin held
  BY DEF RdInv, RdTypes, All
<1>2. /\ RdSettled' /\ RdPaid' /\ replied' \subseteq dealt' /\ dealt' = dealt \cup {current}
      /\ dealt' \subseteq All /\ held' = held
      /\ fate' \in [All -> {"none", "answered", "silent", "ignored", "dropped"}]
      /\ answers' \in [All -> Nat] /\ wasted' \in [All -> Nat]
  BY <1>1, HandledKeeps DEF RdInv
<1>3. RdTypes'
  BY <1>1, <1>2 DEF RdInv, RdTypes
<1>4. platform = "poll" => current < offset
  BY DEF RdInv, RdOffset
<1>5. RdOffset'
  BY <1>1, <1>2, <1>4 DEF RdInv, RdOffset
<1> QED BY <1>2, <1>3, <1>5 DEF RdInv

\* Lemma: the invariant holds at first, and every step keeps it.
LEMMA RdInvHolds ==
    /\ IngressInit => RdInv
    /\ RdInv /\ [IngressNext]_ingressVars => RdInv'
<1>1. IngressInit => RdInv
  BY RedeliveryConstants DEF IngressInit, RdInit, RdInv, RdTypes, RdSettled, RdPaid, RdOffset, All
<1>2. ASSUME RdInv, UNCHANGED rdVars PROVE RdInv'
  BY <1>2 DEF rdVars, RdInv, RdTypes, RdSettled, RdPaid, RdOffset, Settled
<1>3. ASSUME RdInv, RdNext PROVE RdInv'
  <2>1. ASSUME NEW batch \in SUBSET held, Post(batch) PROVE RdInv'
    BY <1>3, <2>1 DEF Post, RdInv, RdTypes, RdSettled, RdPaid, RdOffset, Settled
  <2>2. ASSUME NEW batch \in SUBSET held, GetUpdates(batch) PROVE RdInv'
    <3>1. \A m \in held \cup dealt : m \in Nat
      BY <1>3, RedeliveryConstants DEF RdInv, RdTypes, All
    <3>2. \A m \in held \ held' : m \in dealt
      BY <1>3, <2>2, <3>1 DEF GetUpdates, RdInv, RdTypes, RdOffset, All
    <3>3. RdTypes' /\ RdSettled'
      BY <1>3, <2>2, <3>2 DEF GetUpdates, RdInv, RdTypes, RdSettled, Settled
    <3>4. \A m \in replied : m \notin held'
      BY <1>3, <2>2, <3>1 DEF GetUpdates, RdInv, RdTypes, RdOffset
    <3>5. RdPaid'
      BY <1>3, <2>2, <3>4 DEF GetUpdates, RdInv, RdTypes, RdPaid
    <3>6. RdOffset'
      BY <1>3, <2>2, <3>1 DEF GetUpdates, RdInv, RdTypes, RdOffset
    <3> QED BY <3>3, <3>5, <3>6 DEF RdInv
  <2>3. ASSUME NEW m \in ahead, Ignore(m) PROVE RdInv'
    BY <1>3, <2>3, PassedKeeps DEF Ignore, Settled
  <2>4. ASSUME NEW m \in ahead, RefuseMessage(m) PROVE RdInv'
    <3>1. CASE platform = "poll"
      BY <1>3, <2>4, <3>1, PassedKeeps DEF RefuseMessage, Settled
    <3>2. CASE platform # "poll"
      BY <1>3, <2>4, <3>2, UnacknowledgedKeeps DEF RefuseMessage
    <3> QED BY <3>1, <3>2
  <2>5. ASSUME NEW m \in ahead, Begin(m) PROVE RdInv'
    <3>1. /\ IsNext(m) /\ ahead' = ahead \ {m} /\ current' = m /\ offset' = OffsetPast(m)
          /\ UNCHANGED <<platform, held, dealt, replied, fate, answers, wasted>>
      BY <2>5 DEF Begin
    <3>2. /\ m \in Nat /\ m \in held /\ m \notin dealt /\ current = 0 /\ OffsetPast(m) \in Nat
          /\ platform = "poll" => /\ OffsetPast(m) = m + 1 /\ \A k \in held : k < m + 1 => k \in dealt \cup {m}
                                  /\ \A k \in dealt : k < m + 1
      BY <1>3, <3>1, NextIsLowest
    <3>3. RdTypes' /\ RdSettled' /\ RdPaid'
      BY <1>3, <3>1, <3>2 DEF RdInv, RdTypes, RdSettled, RdPaid, Settled
    <3>4. RdOffset'
      BY <1>3, <3>1, <3>2 DEF RdInv, RdOffset
    <3> QED BY <3>3, <3>4 DEF RdInv
  <2>6. ASSUME NEW m \in ahead, FormDropped(m) PROVE RdInv'
    <3>1. PICK f \in {"answered", "silent"} : HandledAs(m, f)
      BY <2>6 DEF FormDropped
    <3> QED BY <1>3, <2>6, <3>1, PassedKeeps DEF FormDropped, Settled
  <2>7. ASSUME NEW f \in {"answered", "silent"}, Turned(f) PROVE RdInv'
    BY <1>3, <2>7, TurnedKeeps DEF Turned, Settled
  <2>8. CASE Failed
    <3>1. CASE platform = "poll"
      BY <1>3, <2>8, <3>1, TurnedKeeps DEF Failed, Settled
    <3>2. CASE platform # "poll"
      BY <1>3, <2>8, <3>2, UnacknowledgedKeeps DEF Failed
    <3> QED BY <3>1, <3>2
  <2>9. CASE Acknowledge
    <3>1. RdTypes' /\ RdSettled' /\ RdOffset'
      BY <1>3, <2>9 DEF Acknowledge, RdInv, RdTypes, RdSettled, RdOffset, Settled
    <3>2. RdPaid'
      BY <1>3, <2>9 DEF Acknowledge, RdInv, RdTypes, RdPaid
    <3> QED BY <3>1, <3>2, <1>3, <2>9 DEF Acknowledge, RdInv
  <2>10. CASE HangsUp
    BY <1>3, <2>10, UnacknowledgedKeeps DEF HangsUp
  <2>11. CASE RestartAll
    BY <1>3, <2>11, UnacknowledgedKeeps DEF RestartAll
  <2>12. CASE InstallForm
    BY <1>3, <2>12 DEF InstallForm, RdInv, RdTypes, RdSettled, RdPaid, RdOffset, Settled
  <2> QED BY <1>3, <2>1, <2>2, <2>3, <2>4, <2>5, <2>6, <2>7, <2>8, <2>9, <2>10, <2>11, <2>12 DEF RdNext
<1> QED BY <1>1, <1>2, <1>3 DEF IngressNext, ChatStep, HttpStep, KeysStep, LimitsStep, PlatformStep, ingressVars

\* Forms are numbered as they are opened; the one in the slot is in no
\* submission yet, and no two submissions are of the same.
FormsNumbered ==
    /\ openedForms \in Nat /\ slot \in 0..openedForms /\ submitted \in Seq(1..openedForms)
    /\ \A i \in 1..Len(submitted) : submitted[i] # slot
    /\ \A i, j \in 1..Len(submitted) : submitted[i] = submitted[j] => i = j

\* Lemma: the forms are numbered at first, and every step keeps to it.
LEMMA FormsNumberedHolds ==
    /\ IngressInit => FormsNumbered
    /\ FormsNumbered /\ [IngressNext]_ingressVars => FormsNumbered'
<1>1. IngressInit => FormsNumbered
  <2> SUFFICES ASSUME IngressInit PROVE FormsNumbered
    OBVIOUS
  <2>1. openedForms \in {0, 1} /\ slot = openedForms /\ submitted = <<>>
    BY DEF IngressInit, RdInit
  <2> QED BY <2>1 DEF FormsNumbered
<1>2. ASSUME FormsNumbered, UNCHANGED rdVars PROVE FormsNumbered'
  BY <1>2 DEF rdVars, FormsNumbered
<1>3. ASSUME FormsNumbered, RdNext PROVE FormsNumbered'
  <2>1. ASSUME slot' \in {0, slot}, UNCHANGED <<openedForms, submitted>> PROVE FormsNumbered'
    BY <1>3, <2>1 DEF FormsNumbered
  <2>2. ASSUME NEW batch \in SUBSET held, Post(batch) \/ GetUpdates(batch) PROVE FormsNumbered'
    BY <2>1, <2>2 DEF Post, GetUpdates
  <2>3. ASSUME NEW m \in ahead, Ignore(m) \/ RefuseMessage(m) \/ FormDropped(m) PROVE FormsNumbered'
    BY <2>1, <2>3 DEF Ignore, RefuseMessage, FormDropped, FormAfter
  <2>4. ASSUME NEW m \in ahead, Begin(m) PROVE FormsNumbered'
    <3>1. CASE ~Submits(m)
      BY <2>1, <2>4, <3>1 DEF Begin, FormAfter
    <3>2. CASE Submits(m)
      <4>1. slot \in 1..openedForms /\ slot' = 0 /\ submitted' = Append(submitted, slot) /\ openedForms' = openedForms
        BY <1>3, <2>4, <3>2 DEF Begin, FormAfter, Submits, FormsNumbered
      <4>2. /\ submitted' \in Seq(1..openedForms) /\ Len(submitted') = Len(submitted) + 1 /\ Len(submitted) \in Nat
            /\ submitted'[Len(submitted) + 1] = slot
            /\ \A i \in 1..Len(submitted) : submitted'[i] = submitted[i]
        BY <1>3, <4>1 DEF FormsNumbered
      <4>3. \A i \in 1..Len(submitted') : submitted'[i] # 0
        <5> SUFFICES ASSUME NEW i \in 1..Len(submitted') PROVE submitted'[i] # 0
          OBVIOUS
        <5>1. i \in 1..Len(submitted) \/ i = Len(submitted) + 1
          BY <4>2
        <5>2. openedForms \in Nat /\ \A k \in 1..Len(submitted) : submitted[k] \in 1..openedForms
          BY <1>3 DEF FormsNumbered
        <5> QED BY <4>1, <4>2, <5>1, <5>2
      <4>4. \A i, j \in 1..Len(submitted') : submitted'[i] = submitted'[j] => i = j
        <5> SUFFICES ASSUME NEW i \in 1..Len(submitted'), NEW j \in 1..Len(submitted'),
                            submitted'[i] = submitted'[j]
                     PROVE  i = j
          OBVIOUS
        <5>1. /\ i \in 1..Len(submitted) \/ i = Len(submitted) + 1
              /\ j \in 1..Len(submitted) \/ j = Len(submitted) + 1
          BY <4>2
        <5> QED BY <1>3, <4>2, <5>1 DEF FormsNumbered
      <4> QED BY <1>3, <4>1, <4>2, <4>3, <4>4 DEF FormsNumbered
    <3> QED BY <3>1, <3>2
  <2>5. CASE InstallForm
    <3>1. openedForms' = openedForms + 1 /\ slot' = openedForms + 1 /\ submitted' = submitted
      BY <2>5 DEF InstallForm
    <3>2. openedForms \in Nat /\ \A i \in 1..Len(submitted) : submitted[i] \in 1..openedForms
      BY <1>3 DEF FormsNumbered
    <3>3. submitted' \in Seq(1..openedForms')
      BY <1>3, <3>1, <3>2 DEF FormsNumbered
    <3> QED BY <1>3, <3>1, <3>2, <3>3 DEF FormsNumbered
  <2>6. CASE (\E f \in {"answered", "silent"} : Turned(f)) \/ Failed \/ Acknowledge \/ HangsUp \/ RestartAll
    BY <2>1, <2>6 DEF Turned, Failed, Acknowledge, HangsUp, RestartAll
  <2> QED BY <1>3, <2>2, <2>3, <2>4, <2>5, <2>6 DEF RdNext
<1> QED BY <1>1, <1>2, <1>3 DEF IngressNext, ChatStep, HttpStep, KeysStep, LimitsStep, PlatformStep, ingressVars

(***************************************************************************)
(* Theorems.                                                               *)
(***************************************************************************)

\* Theorem: readable, deny_if_revoked and the verifier together: whatever was
\* sent, revoked and restarted before, a task is shown only to who started it
\* under the same issuer, to a named operator or, if it has no owner, to its
\* own tenant or subject; nobody who was revoked is shown anything or runs
\* anything; and who is not verified leaves nothing behind.
THEOREM ReadersAreEntitled == IngressSpec => []ReadersEntitled
<1>1. IngressInit => HttpInv
  BY HttpInvHolds
<1>2. HttpInv /\ [IngressNext]_ingressVars => HttpInv'
  BY HttpInvHolds
<1>3. HttpInv => ReadersEntitled
  BY HttpInvEntitles
<1> QED BY <1>1, <1>2, <1>3, PTL DEF IngressSpec

\* Theorem: authorize and the sealed references: for any users, tenants and
\* keys, and whatever was sent, rotated and revoked before, an agent's push
\* reaches only a conversation of the caller's own tenant, and only the user it
\* names.
THEOREM PushesAreBound == IngressSpec => []PushBound
<1>1. ASSUME ChatInv PROVE PushBound
  <2> SUFFICES ASSUME Up, channel \notin {"telegram", "discord", "signal", "bridge"},
                      NEW q \in SoundPushes, {"push", "template"} \cap PushOutcome(q).did # {}
               PROVE  IF Sealed THEN /\ q.token = ref.token /\ Home[ref.owner] = q.tenant
                                     /\ q.to = ref.owner
                      ELSE q.home = q.tenant \/ (cfg.identity = "upstream" /\ q.tenant # "")
    BY DEF PushBound
  <2>1. PushOutcome(q).did # {}
    OBVIOUS
  <2>2. CASE Sealed
    <3>1. q.to \in Users /\ q.token \in {ref.token, card.token}
      BY DEF SoundPushes, Pushes
    <3>2. q.token.tool = "ref" /\ q.token.args.tenant = q.tenant /\ q.to \in {"", q.token.args.user}
      BY <2>1, <2>2, SealedPush DEF Sealed
    <3>3. q.token = ref.token /\ ref.token # NoToken
      <4>1. card.token.tool # "ref" /\ NoToken.tool = "none"
        BY <1>1 DEF ChatInv, NoToken
      <4> QED BY <3>1, <3>2, <4>1
    <3>4. ref.token.args.tenant = Home[ref.owner] /\ ref.token.args.user = ref.owner
      BY <1>1, <3>3 DEF ChatInv
    <3> QED BY <2>2, <3>1, <3>2, <3>3, <3>4, ChatConstants
  <2>3. CASE channel = "whatsapp"
    <3>1. PICK y \in PushOutcome(q).did : TRUE
      BY <2>1
    <3>2. q.tenant # "" /\ (cfg.identity = "table" => q.home = q.tenant)
      BY <2>3, WhatsAppPushed
    <3> QED BY <1>1, <2>3, <3>2 DEF ChatInv, Sealed
  <2>4. CASE ~Sealed /\ channel # "whatsapp"
    BY <2>1, <2>4, PhonePush DEF Sealed
  <2> QED BY <2>2, <2>3, <2>4 DEF Sealed
<1> QED BY <1>1, ChatInvHolds, PTL DEF IngressSpec

\* Theorem: is_within_window: free text is pushed to a WhatsApp user only
\* within the service window of a message that user really sent, whatever
\* messages with a bad signature, body or sender came in between.
THEOREM FreeTextInWindow == IngressSpec => []FreeFormInWindow
<1>1. ASSUME ChatInv PROVE FreeFormInWindow
  <2> SUFFICES ASSUME channel = "whatsapp", NEW q \in SoundPushes, "push" \in PushOutcome(q).did
               PROVE  wrote[q.to] # Never /\ clock < wrote[q.to] + ServiceWindow
    BY DEF FreeFormInWindow
  <2>1. q.to \in Users
    BY DEF SoundPushes, Pushes
  <2>2. window[q.to] # 0 /\ clock - window[q.to] < ServiceWindow
    BY WhatsAppPushed DEF WindowOpen, Never
  <2>3. /\ clock \in Nat /\ window[q.to] \in Nat /\ wrote[q.to] \in Nat /\ ServiceWindow \in Nat
        /\ window[q.to] <= wrote[q.to]
    BY <1>1, <2>1, ChatConstants DEF ChatInv
  <2> QED BY <2>2, <2>3 DEF Never
<1> QED BY <1>1, ChatInvHolds, PTL DEF IngressSpec

\* Theorem: resolve and confirm_pick: while the catalogue shrinks and cards
\* and bindings grow old, a routed turn goes to an agent that is in the
\* catalogue when the message or the click comes in, for every set of agents.
THEOREM PicksAreEntitled == IngressSpec => []PickEntitled
<1>1. ASSUME ChatInv PROVE PickEntitled
  <2> SUFFICES ASSUME Up, NEW d \in Clicks \cup Messages, cfg.router,
                      "turn" \in Outcome(d, Full).did, d.kind = "message" \/ d.token.tool = "use"
               PROVE  Routed(d, Env(d.by, Full)).agent \in {a.id : a \in agents}
    BY DEF PickEntitled
  <2> DEFINE e == Env(d.by, Full)
             InCatalogue(r) == r.agent \in {a.id : a \in agents}
  <2>1. IsFiniteSet(agents) /\ channel \in {"msteams", "google_chat"}
    BY <1>1, ChatConstants, FS_Subset DEF ChatInv, Fitting
  <2>2. d.kind \in Kinds /\ (d.kind \in ClickKinds \cup {"image"} \/ d.token.tool = "none")
    BY Arrivals DEF NoToken
  <2>3. d.kind \in {"message", "submit", "execute", "fetch", "click", "image"}
    BY <2>1, <2>2 DEF ClickKinds, Kinds, TeamsKinds, GoogleKinds
  <2>4. channel = "msteams" => d.kind # "click"
    BY <2>2 DEF Kinds, TeamsKinds
  <2>5. channel = "google_chat" => d.kind \notin {"submit", "execute", "fetch"}
    BY <2>2 DEF Kinds, GoogleKinds
  <2>6. e.agents = agents
    BY DEF Env
  <2> HIDE DEF e
  <2>7. CASE d.kind = "message"
    <3> DEFINE r == Resolve(d.text, e.binding, e.default, agents)
    <3>1. Routed(d, e) = r
      BY <2>6, <2>7 DEF Routed, ClickKinds
    <3>2. r.to \in {"agent", "chooser", "info"} /\ (r.to = "agent" => InCatalogue(r))
      BY <2>1, RoutesIntoCatalogue
    <3>3. TeamsRoute(d, e) = r /\ GoogleRoute(d, e) = r
      BY <2>6, <2>7 DEF TeamsRoute, GoogleRoute
    <3> HIDE DEF r
    <3>4. r.to \notin {"chooser", "info"}
      BY <2>1, <2>7, <3>3, TeamsUnrouted, GoogleUnrouted DEF e
    <3> QED BY <3>1, <3>2, <3>4 DEF e
  <2>8. CASE d.kind # "message"
    <3> DEFINE r == ConfirmPick(d.token.args, "text", agents)
    <3>1. d.token.tool = "use"
      BY <2>8
    <3>2. r.to \in {"agent", "chooser"}
      BY DEF ConfirmPick, Chooser, Selection
    <3>3. r.to = "agent" => InCatalogue(r)
      BY <2>1, RoutesIntoCatalogue
    <3>4. CASE channel = "msteams"
      <4>1. d.kind \in {"submit", "execute", "fetch"}
        BY <2>3, <2>4, <2>8, <3>4, ImagesRunNothing
      <4>2. r.to = "agent" /\ d.kind \in ClickKinds
        BY <3>1, <3>4, <4>1, TeamsUnpicked DEF ClickKinds
      <4>3. Routed(d, e) = r
        BY <2>6, <3>1, <4>2 DEF Routed
      <4> QED BY <3>3, <4>2, <4>3 DEF e
    <3>5. CASE channel = "google_chat"
      <4>1. d.kind \in {"click", "image"}
        BY <2>3, <2>5, <2>8, <3>5
      <4>2. d.kind = "click"
        BY <3>5, <4>1, ImagesRunNothing
      <4>3. GoogleRoute(d, e) = r /\ Routed(d, e) = r
        BY <2>6, <3>1, <4>2 DEF GoogleRoute, Routed, ClickKinds
      <4> HIDE DEF r
      <4>4. r.to # "chooser"
        BY <3>1, <3>5, <4>2, <4>3, GoogleUnrouted DEF e
      <4> QED BY <3>2, <3>3, <4>3, <4>4 DEF e
    <3> QED BY <2>1, <3>4, <3>5
  <2> QED BY <2>7, <2>8 DEF e
<1> QED BY <1>1, ChatInvHolds, PTL DEF IngressSpec

\* Theorem: telegram_status_for and the handlers' other ends: a message whose own
\* turn is answered with 500 or more, or with the status of a failed turn, has
\* been answered with nothing, whatever the upstream and the platform's own
\* posting do, in every state of every channel.
THEOREM RetriesAreUnanswered == IngressSpec => []RetriedUnanswered
<1>1. RetriedUnanswered
  <2> SUFFICES ASSUME NEW d \in Clicks \cup Messages, "turn" \in Outcome(d, Full).did,
                      NEW answer \in Answers, NEW p \in PostResults,
                      Status(Outcome(d, Full), answer) >= 500
                      \/ Status(Outcome(d, Full), answer) # Outcome(d, Full).status
               PROVE  ReplyLine(Outcome(d, Full), answer, p) # "posted"
    BY DEF RetriedUnanswered, Own
  <2> DEFINE o == Outcome(d, Full)
             N == {x \in {o.status} : x >= 500}
  <2>1. d.kind \in Kinds /\ d.flaws = {}
    BY Arrivals
  <2>2. d.kind # "image"
    <3>1. d.kind = "image" => channel \in {"msteams", "google_chat"}
      BY <2>1 DEF Kinds, TeamsKinds, GoogleKinds, TelegramKinds, DiscordKinds, PhoneKinds
    <3> QED BY <3>1, ImagesRunNothing
  <2>3. Benign(d, N) /\ 401 \notin N
    <3>1. N \cap {200, 400, 404, 429} = {} /\ 401 \notin N
      OBVIOUS
    <3> QED BY <2>1, <3>1 DEF Benign
  <2>4. ~(o.status >= 500)
    <3>1. o.status \notin N
      BY <2>2, <2>3, RequestSettles DEF Outcome
    <3> QED BY <3>1
  <2> HIDE DEF o
  <2>5. CASE channel = "google_chat"
    <3>1. answer = "provider"
      BY <2>4, <2>5 DEF o, Status, GoogleStatus
    <3> QED BY <2>5, <3>1 DEF ReplyLine, GoogleReplyLine
  <2>6. CASE channel = "telegram"
    <3>1. answer \in {"open", "timeout", "provider", "limited"}
      BY <2>4, <2>6 DEF o, Status, TelegramStatus
    <3> QED BY <2>6, <3>1 DEF ReplyLine, TelegramReplyLine
  <2>7. CASE channel \notin {"google_chat", "telegram"}
    <3>1. Status(o, answer) = o.status
      BY <2>7 DEF Status
    <3> QED BY <2>4, <3>1 DEF o
  <2> QED BY <2>5, <2>6, <2>7
<1> QED BY <1>1, PTL

\* Lemma: what the platforms hold until it is acknowledged: for any number of
\* messages and of refusals, failures, hang-ups and restarts, WhatsApp and
\* Telegram let go only of what was dealt with to the end, and the poller's
\* offset never passes an update it had not come to.
LEMMA NothingIsLost == IngressSpec => []NoneLost
<1>1. RdInv => NoneLost
  BY DEF RdInv, RdSettled, NoneLost, Settled
<1> QED BY <1>1, RdInvHolds, PTL DEF IngressSpec

\* Lemma: handle_webhook, long_poll_loop and telegram_status_for: a message is
\* answered at most once more than its answers were wasted on a delivery
\* that was not acknowledged, so a turn is never answered twice for any other reason.
LEMMA AnswersArePaid == IngressSpec => []AnswersPaid
<1>1. RdInv => AnswersPaid
  <2> SUFFICES ASSUME RdInv, NEW m \in All PROVE answers[m] <= wasted[m] + 1
    BY DEF AnswersPaid
  <2>1. answers[m] \in Nat /\ wasted[m] \in Nat
    BY DEF RdInv, RdTypes
  <2>2. answers[m] <= wasted[m] + (IF m \in replied \/ m \notin held THEN 1 ELSE 0)
    BY DEF RdInv, RdPaid
  <2> QED BY <2>1, <2>2
<1> QED BY <1>1, RdInvHolds, PTL DEF IngressSpec

\* Lemma: advance and handle_form_outcome: however often the last answer of a form
\* is refused, cut off and delivered again, and whatever forms follow, the tool of
\* one form is called at most once.
LEMMA FormsAreSubmittedOnce == IngressSpec => []SubmittedOnce
<1>1. FormsNumbered => SubmittedOnce
  <2> SUFFICES ASSUME FormsNumbered PROVE SubmittedOnce
    OBVIOUS
  <2>1. DOMAIN submitted = 1..Len(submitted)
    BY DEF FormsNumbered
  <2> QED BY <2>1 DEF FormsNumbered, SubmittedOnce
<1> QED BY <1>1, FormsNumberedHolds, PTL DEF IngressSpec

\* Theorem: for any number of messages, refusals, failures, hang-ups and restarts,
\* WhatsApp and Telegram's webhook let go only of what was dealt with, the long poll
\* only of what it has come to; an answer is repeated only after a delivery that had
\* given it and was not acknowledged; and the tool of one form is called once at most.
THEOREM RedeliveriesAreSound == IngressSpec => []RedeliverySound
<1>1. NoneLost /\ AnswersPaid /\ SubmittedOnce => RedeliverySound
  BY DEF RedeliverySound
<1> QED BY <1>1, NothingIsLost, AnswersArePaid, FormsAreSubmittedOnce, PTL

\* Theorem: decode_bound_any and the handlers of clicks: for any users, tenants and
\* keys, however the keys are rotated and the clock moves, a click does something
\* only with the card that was shown to that user on that platform, signed with a
\* key of the ring and within its life; and until its life or its key is over the
\* card is not refused to its user.
THEOREM CardsAreBound == IngressSpec => []CardBound
<1>1. ASSUME CardInv, Up, NEW d \in Clicks \cup Flawed, d.kind \in ClickKinds,
             Outcome(d, Full).did \cap Acts # {}
      PROVE  /\ d.token = card.token /\ card.owner = d.by /\ InRing(card.token)
             /\ clock <= card.born + (IF channel = "telegram" THEN CallbackTTL ELSE CardTTL + Hour)
             /\ (channel = "discord" /\ d.kind = "component") => clock <= card.born + CallbackTTL
  <2> DEFINE e == Env(d.by, Full)
  <2>1. /\ d.kind \in Kinds /\ d.token \in {card.token, ref.token, ImageToken}
        /\ d.date = card.born \/ (channel = "telegram" /\ d.date = clock + CallbackSkew + 1)
    BY ClickShape
  <2>2. /\ channel \in CardChannels /\ ClickVerdict(d) = "ok"
        /\ channel = "telegram" => ~TelegramStale(d, e) /\ ~(d.date > e.now + CallbackSkew)
        /\ (channel = "discord" /\ d.kind = "component") => ~DiscordStale(d, e)
    BY <1>1, <2>1, ActsInTime
  <2>3. e.now = clock
    BY DEF Env
  <2> HIDE DEF e
  <2>4. /\ d.token = card.token /\ CardShape /\ card.owner = d.by /\ InRing(card.token)
        /\ channel # "telegram" => clock <= card.born + (CardTTL + Hour)
    BY <1>1, <2>1, <2>2, OpenedIsCard
  <2>5. clock \in Nat /\ card.born \in Nat /\ 1 <= card.born
    BY <1>1, <2>4 DEF CardInv, CardShape
  <2>6. CallbackTTL \in Nat /\ CallbackSkew \in Nat
    BY TokenConstants
  <2>7. channel = "telegram" => clock <= card.born + CallbackTTL
    <3> SUFFICES ASSUME channel = "telegram" PROVE clock <= card.born + CallbackTTL
      OBVIOUS
    <3>1. ~(d.date > clock + CallbackSkew)
      BY <2>2, <2>3
    <3>2. d.date = card.born
      BY <2>1, <2>5, <2>6, <3>1
    <3>3. ~(card.born < (IF clock > CallbackTTL THEN clock - CallbackTTL ELSE 0))
      BY <2>2, <2>3, <3>2 DEF TelegramStale
    <3> QED BY <2>5, <2>6, <3>3
  <2>8. (channel = "discord" /\ d.kind = "component") => clock <= card.born + CallbackTTL
    <3> SUFFICES ASSUME channel = "discord", d.kind = "component" PROVE clock <= card.born + CallbackTTL
      OBVIOUS
    <3>1. ~(card.born > 0 /\ clock > card.born + CallbackTTL)
      BY <2>1, <2>2, <2>3 DEF DiscordStale
    <3> QED BY <2>5, <2>6, <3>1
  <2> QED BY <2>4, <2>7, <2>8
<1>2. ASSUME CardInv, Up, card.token # NoToken, InRing(card.token), NEW d \in Clicks,
             d.token = card.token, d.by = card.owner, d.date = card.born, d.kind \in ClickKinds,
             clock <= card.born + CallbackTTL, clock <= card.born + CardTTL
      PROVE  Outcome(d, Full).status # 401
  <2> DEFINE e == Env(d.by, Full)
  <2>1. d.kind \in Kinds /\ d.tenant = Home[d.by] /\ d.flaws = {}
    BY ClickShape
  <2>2. CardShape /\ ClickVerdict(d) = "ok"
    BY <1>2, <2>1, CardOpens
  <2>3. clock \in Nat /\ card.born \in Nat /\ 1 <= card.born /\ card.born <= clock
    BY <1>2, <2>2 DEF CardInv, CardShape
  <2>4. CallbackTTL \in Nat /\ CallbackSkew \in Nat
    BY TokenConstants
  <2>5. e.now = clock
    BY DEF Env
  <2> HIDE DEF e
  <2>6. ~TelegramStale(d, e) /\ ~(d.date > e.now + CallbackSkew)
    BY <1>2, <2>3, <2>4, <2>5 DEF TelegramStale
  <2>7. ~DiscordStale(d, e) /\ ~DiscordEarly(d, e)
    BY <1>2, <2>3, <2>4, <2>5 DEF DiscordStale, DiscordEarly
  <2> QED BY <1>2, <2>1, <2>2, <2>6, <2>7, OpensIsAuthorized DEF e
<1>3. CardInv => CardBound
  BY <1>1, <1>2 DEF CardBound
<1> QED BY <1>3, CardInvHolds, PTL DEF IngressSpec
=============================================================================
