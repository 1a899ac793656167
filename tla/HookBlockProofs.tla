-------------------------- MODULE HookBlockProofs --------------------------
(***************************************************************************)
(* Proofs that `install` and `uninstall` keep the user's lines, for any    *)
(* text and any number of commands, edits and deaths.                      *)
(*                                                                         *)
(* What Keep and Depth compute for a text is proved by induction over its  *)
(* length.  Induction is stated with a set in place of a predicate: a set  *)
(* that has 0 and is closed under successor has every number, since        *)
(* otherwise a least one would be missing.                                 *)
(***************************************************************************)
EXTENDS HookBlock, WellFoundedInduction, TLAPS

LEMMA NatMin ==
  ASSUME NEW T, T \subseteq Nat, T # {}
  PROVE  \E n \in T : \A m \in T : n <= m
<1>1. PICK n \in T : \A m \in T : ~(<<m, n>> \in OpToRel(<, Nat))
  BY NatLessThanWellFounded, WFMin
<1>2. \A m \in T : ~(m < n)
  BY <1>1 DEF OpToRel
<1> QED
  BY <1>2

LEMMA SetInduction ==
  ASSUME NEW S, 0 \in S, \A n \in Nat : n \in S => n + 1 \in S
  PROVE  Nat \subseteq S
<1> DEFINE T == Nat \ S
<1> SUFFICES ASSUME T # {} PROVE FALSE
  OBVIOUS
<1>1. PICK n \in T : \A m \in T : n <= m
  BY NatMin
<1>2. n - 1 \in Nat /\ n - 1 \notin T
  BY <1>1
<1>3. (n - 1) + 1 \in S
  BY <1>2
<1> QED
  BY <1>3

(* The same for sequences, from the empty one by appending. *)
LEMMA SeqInduction ==
  ASSUME NEW X, NEW T, <<>> \in T,
         \A s \in Seq(X), x \in X : s \in T => Append(s, x) \in T
  PROVE  Seq(X) \subseteq T
<1> DEFINE S == {n \in Nat : \A s \in Seq(X) : Len(s) = n => s \in T}
<1>1. 0 \in S
  <2>1. \A s \in Seq(X) : Len(s) = 0 => s = <<>>
    OBVIOUS
  <2> QED
    BY <2>1
<1>2. ASSUME NEW n \in Nat, n \in S PROVE n + 1 \in S
  <2> SUFFICES ASSUME NEW s \in Seq(X), Len(s) = n + 1 PROVE s \in T
    OBVIOUS
  <2> DEFINE r == SubSeq(s, 1, n)
             x == s[n + 1]
  <2>1. r \in Seq(X) /\ Len(r) = n /\ x \in X
    OBVIOUS
  <2>2. s = Append(r, x)
    OBVIOUS
  <2>3. r \in T
    BY <1>2, <2>1
  <2> QED
    BY <2>1, <2>2, <2>3
<1> HIDE DEF S
<1>3. Nat \subseteq S
  BY <1>1, <1>2, SetInduction
<1> QED
  BY <1>3 DEF S

(* A recursion over a range defines a function. *)
Recurs(f, v, step, n) ==
  \A i \in 0 .. n : f[i] = IF i = 0 THEN v ELSE step[i][f[i - 1]]

LEMMA RangeRecursion ==
  ASSUME NEW V, NEW v \in V, NEW step \in [Nat -> [V -> V]], NEW n \in Nat
  PROVE  \E f \in [0 .. n -> V] : Recurs(f, v, step, n)
<1> DEFINE Solves(f, m) == Recurs(f, v, step, m)
           S == {m \in Nat : \E f \in [0 .. m -> V] : Solves(f, m)}
<1>1. 0 \in S
  <2> DEFINE f == [i \in 0 .. 0 |-> v]
  <2>1. f \in [0 .. 0 -> V] /\ Solves(f, 0)
    BY DEF Recurs
  <2> QED
    BY <2>1
<1>2. ASSUME NEW m \in Nat, m \in S PROVE m + 1 \in S
  <2>1. PICK f \in [0 .. m -> V] : Solves(f, m)
    BY <1>2
  <2> DEFINE w == step[m + 1][f[m]]
             g == [i \in 0 .. m + 1 |-> IF i <= m THEN f[i] ELSE w]
  <2>2. w \in V
    BY <2>1
  <2> HIDE DEF w
  <2>3. g \in [0 .. m + 1 -> V]
    BY <2>1, <2>2
  <2>4. \A i \in 0 .. m : f[i] = IF i = 0 THEN v ELSE step[i][f[i - 1]]
    BY <2>1 DEF Recurs
  <2>5. \A i \in 0 .. m + 1 : g[i] = IF i = 0 THEN v ELSE step[i][g[i - 1]]
    <3> SUFFICES ASSUME NEW i \in 0 .. m + 1
                 PROVE  g[i] = IF i = 0 THEN v ELSE step[i][g[i - 1]]
      OBVIOUS
    <3>1. CASE i = m + 1
      <4>1. g[i] = w /\ g[i - 1] = f[m]
        BY <3>1
      <4> QED
        BY <3>1, <4>1 DEF w
    <3>2. CASE i \in 0 .. m
      <4>1. g[i] = f[i] /\ (i # 0 => g[i - 1] = f[i - 1])
        BY <3>2
      <4> QED
        BY <3>2, <4>1, <2>4
    <3> QED
      BY <3>1, <3>2
  <2>6. Solves(g, m + 1)
    BY <2>5 DEF Recurs
  <2> HIDE DEF g, Solves
  <2> QED
    BY <2>3, <2>6
<1> HIDE DEF S
<1>3. Nat \subseteq S
  BY <1>1, <1>2, SetInduction
<1> QED
  BY <1>3 DEF S

-----------------------------------------------------------------------------
(* Keep and Only.  A conclusion that a later proof needs for one text or   *)
(* one place only is an operator of its own (Keeps, Recurs, Associates,    *)
(* Distributes), expanded where it is wanted.                              *)

Keeps(k, s, P) ==
  /\ k[0] = <<>>
  /\ \A i \in 1 .. Len(s) : k[i] = IF i \in P THEN Append(k[i - 1], s[i]) ELSE k[i - 1]
  /\ Keep(s, P) = k[Len(s)]

LEMMA KeepRecursion ==
  ASSUME NEW X, NEW s \in Seq(X), NEW P
  PROVE  \E k \in [0 .. Len(s) -> Seq(X)] : Keeps(k, s, P)
<1> DEFINE n == Len(s)
           Solves(k) == k = [i \in 0 .. n |-> IF i = 0 THEN <<>>
                                              ELSE IF i \in P THEN Append(k[i - 1], s[i])
                                              ELSE k[i - 1]]
           step == [i \in Nat |-> [k \in Seq(X) |->
                      IF i \in P \cap (1 .. n) THEN Append(k, s[i]) ELSE k]]
           kept == CHOOSE k : Solves(k)
           S == {i \in Nat : i <= n => kept[i] \in Seq(X)}
<1>1. n \in Nat /\ <<>> \in Seq(X) /\ \A i \in 1 .. n : s[i] \in X
  OBVIOUS
<1> HIDE DEF n
<1>2. step \in [Nat -> [Seq(X) -> Seq(X)]]
  BY <1>1
<1>3. \E f : Solves(f)
  <2> HIDE DEF step
  <2>1. PICK f \in [0 .. n -> Seq(X)] :
          Recurs(f, <<>>, step, n)
    BY <1>1, <1>2, RangeRecursion
  <2>2. ASSUME NEW i \in 0 .. n
        PROVE  f[i] = IF i = 0 THEN <<>> ELSE IF i \in P THEN Append(f[i - 1], s[i])
                      ELSE f[i - 1]
    <3>1. i # 0 => f[i - 1] \in Seq(X) /\ i \in Nat /\ i \in 1 .. n
      BY <1>1, <2>1
    <3>2. f[i] = IF i = 0 THEN <<>> ELSE step[i][f[i - 1]]
      BY <2>1 DEF Recurs
    <3>3. i # 0 => step[i][f[i - 1]] = IF i \in P THEN Append(f[i - 1], s[i]) ELSE f[i - 1]
      BY <3>1 DEF step
    <3> QED
      BY <3>2, <3>3
  <2>3. DOMAIN f = 0 .. n
    BY <2>1
  <2>4. Solves(f)
    BY <2>2, <2>3
  <2> QED
    BY <2>4
<1>4. Solves(kept)
  <2> HIDE DEF Solves
  <2> QED
    BY <1>3
<1>5. Keep(s, P) = kept[n]
  BY DEF Keep, n
<1> HIDE DEF kept
<1>6. \A i \in 0 .. n : kept[i] = IF i = 0 THEN <<>>
                                ELSE IF i \in P THEN Append(kept[i - 1], s[i])
                                ELSE kept[i - 1]
  BY <1>4
<1>7. /\ kept[0] = <<>>
      /\ \A i \in 1 .. n : kept[i] = IF i \in P THEN Append(kept[i - 1], s[i])
                                       ELSE kept[i - 1]
  BY <1>1, <1>6
<1>8. Nat \subseteq S
  <2>1. 0 \in S
    BY <1>1, <1>7
  <2>2. ASSUME NEW i \in Nat, i \in S PROVE i + 1 \in S
    <3> SUFFICES ASSUME i + 1 <= n PROVE kept[i + 1] \in Seq(X)
      OBVIOUS
    <3>1. kept[i] \in Seq(X) /\ s[i + 1] \in X
      BY <1>1, <2>2
    <3>2. kept[i + 1] = IF i + 1 \in P THEN Append(kept[i], s[i + 1]) ELSE kept[i]
      BY <1>1, <1>7
    <3> QED
      BY <3>1, <3>2
  <2> HIDE DEF S
  <2> QED
    BY <2>1, <2>2, SetInduction
<1>9. kept \in [0 .. n -> Seq(X)]
  BY <1>1, <1>4, <1>8
<1>10. Keeps(kept, s, P)
  BY <1>5, <1>7 DEF Keeps, n
<1> QED
  BY <1>9, <1>10 DEF n

LEMMA KeepType ==
  ASSUME NEW X, NEW s \in Seq(X), NEW P
  PROVE  Keep(s, P) \in Seq(X)
<1>1. PICK k \in [0 .. Len(s) -> Seq(X)] : Keeps(k, s, P)
  BY KeepRecursion
<1> QED
  BY <1>1 DEF Keeps

LEMMA KeepEmpty ==
  ASSUME NEW P
  PROVE  Keep(<<>>, P) = <<>>
<1>1. <<>> \in Seq({}) /\ Len(<<>>) = 0
  OBVIOUS
<1>2. PICK k \in [0 .. Len(<<>>) -> Seq({})] : Keeps(k, <<>>, P)
  BY <1>1, KeepRecursion
<1> QED
  BY <1>1, <1>2 DEF Keeps

(* One more line: only its own place decides, and earlier ones as before.  *)
LEMMA KeepAppend ==
  ASSUME NEW X, NEW s \in Seq(X), NEW x \in X, NEW P, NEW Q,
         \A i \in 1 .. Len(s) : i \in Q <=> i \in P
  PROVE  Keep(Append(s, x), Q) =
           IF Len(s) + 1 \in Q THEN Append(Keep(s, P), x) ELSE Keep(s, P)
<1> DEFINE n == Len(s)
           t == Append(s, x)
<1>1. t \in Seq(X) /\ n \in Nat /\ Len(t) = n + 1 /\ t[n + 1] = x
      /\ \A i \in 1 .. n : t[i] = s[i]
  OBVIOUS
<1> HIDE DEF t, n
<1>2. PICK k \in [0 .. Len(s) -> Seq(X)] : Keeps(k, s, P)
  BY KeepRecursion
<1>3. PICK l \in [0 .. Len(t) -> Seq(X)] : Keeps(l, t, Q)
  BY <1>1, KeepRecursion
<1> USE DEF Keeps
<1> DEFINE S == {i \in Nat : i <= n => l[i] = k[i]}
<1>4. Nat \subseteq S
  <2>1. 0 \in S
    BY <1>2, <1>3
  <2>2. ASSUME NEW i \in Nat, i \in S PROVE i + 1 \in S
    <3> SUFFICES ASSUME i + 1 <= n PROVE l[i + 1] = k[i + 1]
      OBVIOUS
    <3>0. i + 1 \in 1 .. Len(s)
      BY <1>1 DEF n
    <3>1. /\ l[i] = k[i] /\ t[i + 1] = s[i + 1] /\ (i + 1) - 1 = i
          /\ i + 1 \in 1 .. n /\ i + 1 \in 1 .. Len(t)
      BY <1>1, <2>2
    <3>2. i + 1 \in Q <=> i + 1 \in P
      BY <3>1 DEF n
    <3>3. l[i + 1] = IF i + 1 \in Q THEN Append(l[i], t[i + 1]) ELSE l[i]
      BY <1>3, <3>1
    <3>4. k[i + 1] = IF i + 1 \in P THEN Append(k[i], s[i + 1]) ELSE k[i]
      BY <1>2, <3>0, <3>1
    <3> QED
      BY <3>1, <3>2, <3>3, <3>4
  <2> HIDE DEF S
  <2> QED
    BY <2>1, <2>2, SetInduction
<1>5. l[n] = Keep(s, P)
  BY <1>1, <1>2, <1>4 DEF n
<1>6. Keep(t, Q) = IF n + 1 \in Q THEN Append(l[n], x) ELSE l[n]
  <2>1. n + 1 \in 1 .. Len(t) /\ (n + 1) - 1 = n
    BY <1>1
  <2> QED
    BY <1>1, <1>3, <2>1
<1> QED
  BY <1>5, <1>6 DEF t, n

LEMMA OnlyEmpty ==
  ASSUME NEW L
  PROVE  Only(<<>>, L) = <<>>
BY KeepEmpty DEF Only

LEMMA OnlyAppend ==
  ASSUME NEW X, NEW s \in Seq(X), NEW x \in X, NEW L
  PROVE  Only(Append(s, x), L) = IF x \in L THEN Append(Only(s, L), x) ELSE Only(s, L)
<1> DEFINE t == Append(s, x)
           P == {i \in DOMAIN s : s[i] \in L}
           Q == {i \in DOMAIN t : t[i] \in L}
<1>1. /\ Len(s) \in Nat /\ DOMAIN s = 1 .. Len(s)
      /\ DOMAIN t = 1 .. Len(s) + 1 /\ t[Len(s) + 1] = x
      /\ \A i \in 1 .. Len(s) : t[i] = s[i]
  OBVIOUS
<1> HIDE DEF t
<1>2. \A i \in 1 .. Len(s) : i \in Q <=> i \in P
  BY <1>1
<1>3. Len(s) + 1 \in Q <=> x \in L
  BY <1>1
<1> HIDE DEF P, Q
<1>4. Keep(t, Q) = IF Len(s) + 1 \in Q THEN Append(Keep(s, P), x) ELSE Keep(s, P)
  BY <1>2, KeepAppend DEF t
<1> QED
  BY <1>3, <1>4 DEF Only, P, Q, t

LEMMA OnlyType ==
  ASSUME NEW X, NEW s \in Seq(X), NEW L
  PROVE  Only(s, L) \in Seq(X \cap L)
<1> DEFINE Y == X \cap L
           T == {t \in Seq(X) : Only(t, L) \in Seq(Y)}
<1> HIDE DEF Y
<1>1. <<>> \in T
  <2>1. <<>> \in Seq(X) /\ <<>> \in Seq(Y)
    OBVIOUS
  <2> QED
    BY <2>1, OnlyEmpty
<1>2. ASSUME NEW t \in Seq(X), NEW x \in X, t \in T PROVE Append(t, x) \in T
  <2>1. Append(t, x) \in Seq(X) /\ Only(t, L) \in Seq(Y)
    BY <1>2
  <2>2. x \in L => Append(Only(t, L), x) \in Seq(Y)
    BY <2>1 DEF Y
  <2>3. Only(Append(t, x), L) = IF x \in L THEN Append(Only(t, L), x) ELSE Only(t, L)
    BY OnlyAppend
  <2> QED
    BY <2>1, <2>2, <2>3
<1> HIDE DEF T
<1>3. Seq(X) \subseteq T
  BY <1>1, <1>2, SeqInduction
<1> QED
  BY <1>3 DEF T, Y

LEMMA OnlyAll ==
  ASSUME NEW X, NEW s \in Seq(X), NEW L, X \subseteq L
  PROVE  Only(s, L) = s
<1> DEFINE T == {t \in Seq(X) : Only(t, L) = t}
<1>1. <<>> \in T
  BY OnlyEmpty
<1>2. ASSUME NEW t \in Seq(X), NEW x \in X, t \in T PROVE Append(t, x) \in T
  <2>1. Append(t, x) \in Seq(X)
    OBVIOUS
  <2> QED
    BY <1>2, <2>1, OnlyAppend
<1> HIDE DEF T
<1>3. Seq(X) \subseteq T
  BY <1>1, <1>2, SeqInduction
<1> QED
  BY <1>3 DEF T

LEMMA OnlyNone ==
  ASSUME NEW X, NEW s \in Seq(X), NEW L, X \cap L = {}
  PROVE  Only(s, L) = <<>>
<1>1. Only(s, L) \in Seq({})
  BY OnlyType
<1> QED
  BY <1>1

(* What is kept of a text begins with its first line that is kept.         *)
BeginsAt(s, L, i) == Only(s, L) # <<>> /\ Only(s, L)[1] = s[i]
FirstIn(s, L, i) == s[i] \in L /\ \A j \in 1 .. i - 1 : s[j] \notin L

LEMMA OnlyNowhere ==
  ASSUME NEW X, NEW s \in Seq(X), NEW L, \A i \in DOMAIN s : s[i] \notin L
  PROVE  Only(s, L) = <<>>
<1>1. s \in Seq(X \ L) /\ (X \ L) \cap L = {}
  OBVIOUS
<1> QED
  BY <1>1, OnlyNone

LEMMA OnlyFirst ==
  ASSUME NEW X, NEW s \in Seq(X), NEW L, NEW i \in DOMAIN s, FirstIn(s, L, i)
  PROVE  BeginsAt(s, L, i)
<1> DEFINE T == {t \in Seq(X) : \A k \in DOMAIN t : FirstIn(t, L, k) => BeginsAt(t, L, k)}
<1>1. <<>> \in T
  OBVIOUS
<1>2. ASSUME NEW t \in Seq(X), NEW x \in X, t \in T PROVE Append(t, x) \in T
  <2> DEFINE u == Append(t, x)
  <2>1. /\ u \in Seq(X) /\ Len(t) \in Nat /\ DOMAIN t = 1 .. Len(t)
        /\ DOMAIN u = 1 .. Len(t) + 1 /\ u[Len(t) + 1] = x
        /\ \A k \in 1 .. Len(t) : u[k] = t[k]
    OBVIOUS
  <2>2. Only(u, L) = IF x \in L THEN Append(Only(t, L), x) ELSE Only(t, L)
    BY OnlyAppend
  <2>3. Only(t, L) \in Seq(X)
    BY KeepType DEF Only
  <2> HIDE DEF u
  <2> SUFFICES ASSUME NEW k \in DOMAIN u, FirstIn(u, L, k) PROVE BeginsAt(u, L, k)
    BY <2>1 DEF u
  <2>4. CASE k <= Len(t)
    <3>1. k \in DOMAIN t /\ FirstIn(t, L, k) /\ u[k] = t[k]
      BY <2>1, <2>4 DEF FirstIn
    <3>2. Only(t, L) # <<>> /\ Only(t, L)[1] = t[k]
      BY <1>2, <3>1 DEF BeginsAt
    <3>3. Only(u, L) # <<>> /\ Only(u, L)[1] = Only(t, L)[1]
      BY <2>2, <2>3, <3>2
    <3> QED
      BY <3>1, <3>2, <3>3 DEF BeginsAt
  <2>5. CASE k = Len(t) + 1
    <3>1. x \in L /\ u[k] = x /\ \A j \in DOMAIN t : t[j] \notin L
      BY <2>1, <2>5 DEF FirstIn
    <3>2. Only(t, L) = <<>>
      BY <3>1, OnlyNowhere
    <3>3. Only(u, L) = <<x>>
      BY <2>2, <3>1, <3>2
    <3> QED
      BY <3>1, <3>3 DEF BeginsAt
  <2> QED
    BY <2>1, <2>4, <2>5
<1> HIDE DEF T
<1>3. Seq(X) \subseteq T
  BY <1>1, <1>2, SeqInduction
<1> QED
  BY <1>3 DEF T

(* Sieving twice is sieving once. *)
LEMMA OnlyOnly ==
  ASSUME NEW X, NEW s \in Seq(X), NEW L, NEW M, M \cap X \subseteq L
  PROVE  Only(Only(s, L), M) = Only(s, M)
<1> DEFINE T == {t \in Seq(X) : Only(Only(t, L), M) = Only(t, M)}
<1>1. <<>> \in T
  BY OnlyEmpty
<1>2. ASSUME NEW t \in Seq(X), NEW x \in X, t \in T PROVE Append(t, x) \in T
  <2>1. Append(t, x) \in Seq(X) /\ Only(t, L) \in Seq(X \cap L)
    BY OnlyType
  <2>2. Only(Append(t, x), M) = IF x \in M THEN Append(Only(t, M), x) ELSE Only(t, M)
    BY OnlyAppend
  <2>3. CASE x \in L
    <3>1. Only(Append(t, x), L) = Append(Only(t, L), x)
      BY <2>3, OnlyAppend
    <3> DEFINE Y == X \cap L
               u == Only(t, L)
    <3>2. x \in Y /\ u \in Seq(Y)
      BY <2>1, <2>3
    <3> HIDE DEF Y, u
    <3>3. Only(Append(u, x), M) = IF x \in M THEN Append(Only(u, M), x) ELSE Only(u, M)
      BY <3>2, OnlyAppend
    <3> QED
      BY <1>2, <2>1, <2>2, <3>1, <3>3 DEF u
  <2>4. CASE x \notin L
    <3>1. Only(Append(t, x), L) = Only(t, L)
      BY <2>4, OnlyAppend
    <3>2. x \notin M
      BY <2>4
    <3> QED
      BY <1>2, <2>1, <2>2, <3>1, <3>2
  <2> QED
    BY <2>3, <2>4
<1> HIDE DEF T
<1>3. Seq(X) \subseteq T
  BY <1>1, <1>2, SeqInduction
<1> QED
  BY <1>3 DEF T

Associates(r, s, x) == Append(r \o s, x) = r \o Append(s, x)

LEMMA AppendConcat ==
  ASSUME NEW X, NEW r \in Seq(X), NEW s \in Seq(X), NEW x \in X
  PROVE  Associates(r, s, x)
BY DEF Associates

Distributes(r, s, L) == Only(r \o s, L) = Only(r, L) \o Only(s, L)

LEMMA OnlyConcat ==
  ASSUME NEW X, NEW r \in Seq(X), NEW s \in Seq(X), NEW L
  PROVE  Distributes(r, s, L)
<1> DEFINE T == {t \in Seq(X) : Only(r \o t, L) = Only(r, L) \o Only(t, L)}
<1>0. Only(r, L) \in Seq(X)
  BY KeepType DEF Only
<1>1. <<>> \in T
  <2>1. <<>> \in Seq(X) /\ r \o <<>> = r /\ Only(r, L) \o <<>> = Only(r, L)
    BY <1>0
  <2>2. Only(r \o <<>>, L) = Only(r, L) \o Only(<<>>, L)
    BY <2>1, OnlyEmpty
  <2> QED
    BY <2>1, <2>2
<1>2. ASSUME NEW t \in Seq(X), NEW x \in X, t \in T PROVE Append(t, x) \in T
  <2>1. /\ Append(t, x) \in Seq(X) /\ r \o t \in Seq(X)
        /\ r \o Append(t, x) = Append(r \o t, x)
    OBVIOUS
  <2>2. Only(t, L) \in Seq(X)
    BY KeepType DEF Only
  <2>3. Only(Append(t, x), L) = IF x \in L THEN Append(Only(t, L), x) ELSE Only(t, L)
    BY OnlyAppend
  <2>4. Only(Append(r \o t, x), L) = IF x \in L THEN Append(Only(r \o t, L), x)
                                     ELSE Only(r \o t, L)
    BY <2>1, OnlyAppend
  <2>5. Only(r \o t, L) = Only(r, L) \o Only(t, L)
    BY <1>2
  <2>6. Append(Only(r, L) \o Only(t, L), x) = Only(r, L) \o Append(Only(t, L), x)
    <3>1. Associates(Only(r, L), Only(t, L), x)
      BY <1>0, <2>2, AppendConcat
    <3> QED
      BY <3>1 DEF Associates
  <2>7. Only(Append(r \o t, x), L) = Only(r, L) \o Only(Append(t, x), L)
    BY <2>3, <2>4, <2>5, <2>6
  <2> QED
    BY <2>1, <2>7
<1> HIDE DEF T
<1>3. Seq(X) \subseteq T
  BY <1>1, <1>2, SeqInduction
<1> QED
  BY <1>3 DEF T, Distributes

-----------------------------------------------------------------------------
(* Depth and RemoveBlock. *)

Deepens(d, s) ==
  /\ d[0] = 0
  /\ \A i \in 1 .. Len(s) :
       d[i] = IF s[i] = "begin" THEN d[i - 1] + 1
              ELSE IF s[i] = "end" /\ d[i - 1] > 0 THEN d[i - 1] - 1
              ELSE d[i - 1]

LEMMA DepthRecursion ==
  ASSUME NEW X, NEW s \in Seq(X)
  PROVE  Depth(s) \in [0 .. Len(s) -> Nat] /\ Deepens(Depth(s), s)
<1> DEFINE n == Len(s)
           Solves(d) == d = [i \in 0 .. n |-> IF i = 0 THEN 0
                                              ELSE IF s[i] = "begin" THEN d[i - 1] + 1
                                              ELSE IF s[i] = "end" /\ d[i - 1] > 0
                                                   THEN d[i - 1] - 1
                                              ELSE d[i - 1]]
           step == [i \in Nat |-> [k \in Nat |->
                      IF s[i] = "begin" THEN k + 1
                      ELSE IF s[i] = "end" /\ k > 0 THEN k - 1 ELSE k]]
           depth == CHOOSE d : Solves(d)
           S == {i \in Nat : i <= n => depth[i] \in Nat}
<1>1. n \in Nat
  OBVIOUS
<1> HIDE DEF n
<1>2. step \in [Nat -> [Nat -> Nat]]
  OBVIOUS
<1>3. \E f : Solves(f)
  <2> HIDE DEF step
  <2>1. PICK f \in [0 .. n -> Nat] : Recurs(f, 0, step, n)
    BY <1>1, <1>2, RangeRecursion
  <2>2. ASSUME NEW i \in 0 .. n
        PROVE  f[i] = IF i = 0 THEN 0
                      ELSE IF s[i] = "begin" THEN f[i - 1] + 1
                      ELSE IF s[i] = "end" /\ f[i - 1] > 0 THEN f[i - 1] - 1
                      ELSE f[i - 1]
    <3>1. i # 0 => f[i - 1] \in Nat /\ i \in Nat
      BY <1>1, <2>1
    <3>2. f[i] = IF i = 0 THEN 0 ELSE step[i][f[i - 1]]
      BY <2>1 DEF Recurs
    <3>3. i # 0 => step[i][f[i - 1]] = IF s[i] = "begin" THEN f[i - 1] + 1
                                       ELSE IF s[i] = "end" /\ f[i - 1] > 0 THEN f[i - 1] - 1
                                       ELSE f[i - 1]
      BY <3>1 DEF step
    <3> QED
      BY <3>2, <3>3
  <2>3. DOMAIN f = 0 .. n
    BY <2>1
  <2>4. Solves(f)
    BY <2>2, <2>3
  <2> QED
    BY <2>4
<1>4. Solves(depth)
  <2> HIDE DEF Solves
  <2> QED
    BY <1>3
<1>5. Depth(s) = depth
  BY DEF Depth, n
<1> HIDE DEF depth
<1>6. \A i \in 0 .. n : depth[i] = IF i = 0 THEN 0
                                 ELSE IF s[i] = "begin" THEN depth[i - 1] + 1
                                 ELSE IF s[i] = "end" /\ depth[i - 1] > 0 THEN depth[i - 1] - 1
                                 ELSE depth[i - 1]
  BY <1>4
<1>7. Deepens(depth, s)
  BY <1>1, <1>6 DEF Deepens, n
<1>8. Nat \subseteq S
  <2>1. 0 \in S
    BY <1>7 DEF Deepens
  <2>2. ASSUME NEW i \in Nat, i \in S PROVE i + 1 \in S
    <3> SUFFICES ASSUME i + 1 <= n PROVE depth[i + 1] \in Nat
      OBVIOUS
    <3>1. depth[i] \in Nat /\ i + 1 \in 0 .. n /\ (i + 1) - 1 = i /\ i + 1 # 0
      BY <1>1, <2>2
    <3>2. depth[i + 1] = IF s[i + 1] = "begin" THEN depth[i] + 1
                         ELSE IF s[i + 1] = "end" /\ depth[i] > 0 THEN depth[i] - 1
                         ELSE depth[i]
      BY <1>6, <3>1
    <3> QED
      BY <3>1, <3>2
  <2> HIDE DEF S
  <2> QED
    BY <2>1, <2>2, SetInduction
<1>9. depth \in [0 .. n -> Nat]
  BY <1>1, <1>4, <1>8
<1> QED
  BY <1>5, <1>7, <1>9 DEF n

(* The depth after the last line, and the lines that stay.                 *)
EndDepth(s) == Depth(s)[Len(s)]
Outside(s) == {i \in DOMAIN s : s[i] # "begin" /\ Depth(s)[i - 1] = 0}
Rest(s) == Keep(s, Outside(s))

LEMMA RestType ==
  ASSUME NEW X, NEW s \in Seq(X)
  PROVE  Rest(s) \in Seq(X) /\ EndDepth(s) \in Nat
<1>1. Depth(s)[Len(s)] \in Nat
  BY DepthRecursion
<1> QED
  BY <1>1, KeepType DEF Rest, EndDepth

LEMMA RestEmpty == EndDepth(<<>>) = 0 /\ Rest(<<>>) = <<>>
<1>1. <<>> \in Seq({}) /\ Len(<<>>) = 0
  OBVIOUS
<1>2. Depth(<<>>)[0] = 0
  BY <1>1, DepthRecursion DEF Deepens
<1> QED
  BY <1>1, <1>2, KeepEmpty DEF Rest, EndDepth

LEMMA RestAppend ==
  ASSUME NEW X, NEW s \in Seq(X), NEW x \in X
  PROVE  /\ EndDepth(Append(s, x)) = IF x = "begin" THEN EndDepth(s) + 1
                                 ELSE IF x = "end" /\ EndDepth(s) > 0 THEN EndDepth(s) - 1
                                 ELSE EndDepth(s)
         /\ Rest(Append(s, x)) = IF x # "begin" /\ EndDepth(s) = 0 THEN Append(Rest(s), x)
                                 ELSE Rest(s)
<1> DEFINE n == Len(s)
           t == Append(s, x)
           d == Depth(s)
           e == Depth(t)
<1>1. t \in Seq(X) /\ n \in Nat /\ Len(t) = n + 1 /\ t[n + 1] = x
      /\ \A i \in 1 .. n : t[i] = s[i]
  OBVIOUS
<1>2. d \in [0 .. Len(s) -> Nat] /\ Deepens(d, s)
  BY DepthRecursion
<1> HIDE DEF t
<1>3. e \in [0 .. Len(t) -> Nat] /\ Deepens(e, t)
  BY <1>1, DepthRecursion
<1> HIDE DEF n, d, e
<1> DEFINE S == {i \in Nat : i <= n => e[i] = d[i]}
<1>4. Nat \subseteq S
  <2>1. 0 \in S
    BY <1>2, <1>3 DEF Deepens
  <2>2. ASSUME NEW i \in Nat, i \in S PROVE i + 1 \in S
    <3> SUFFICES ASSUME i + 1 <= n PROVE e[i + 1] = d[i + 1]
      OBVIOUS
    <3>1. i + 1 \in 1 .. Len(s)
      BY <1>1 DEF n
    <3>2. e[i] = d[i] /\ t[i + 1] = s[i + 1] /\ (i + 1) - 1 = i /\ i + 1 \in 1 .. Len(t)
      BY <1>1, <2>2
    <3>3. d[i + 1] = IF s[i + 1] = "begin" THEN d[i] + 1
                     ELSE IF s[i + 1] = "end" /\ d[i] > 0 THEN d[i] - 1 ELSE d[i]
      BY <1>2, <3>1, <3>2 DEF Deepens
    <3>4. e[i + 1] = IF t[i + 1] = "begin" THEN e[i] + 1
                     ELSE IF t[i + 1] = "end" /\ e[i] > 0 THEN e[i] - 1 ELSE e[i]
      BY <1>3, <3>2 DEF Deepens
    <3> QED
      BY <3>2, <3>3, <3>4
  <2> HIDE DEF S
  <2> QED
    BY <2>1, <2>2, SetInduction
<1>5. EndDepth(s) = d[n] /\ EndDepth(t) = e[n + 1] /\ e[n] = d[n]
  BY <1>1, <1>4 DEF EndDepth, d, e, n
<1>6. e[n + 1] = IF x = "begin" THEN e[n] + 1
                 ELSE IF x = "end" /\ e[n] > 0 THEN e[n] - 1 ELSE e[n]
  <2>1. n + 1 \in 1 .. Len(t) /\ (n + 1) - 1 = n
    BY <1>1
  <2> QED
    BY <1>1, <1>3, <2>1 DEF Deepens
<1> DEFINE P == Outside(s)
           Q == Outside(t)
<1>7. DOMAIN s = 1 .. n /\ DOMAIN t = 1 .. n + 1
  BY <1>1 DEF n
<1>8. ASSUME NEW i \in 1 .. Len(s) PROVE i \in Q <=> i \in P
  <2>1. i - 1 \in Nat /\ i - 1 <= n /\ i \in 1 .. n
    BY <1>1 DEF n
  <2>2. e[i - 1] = d[i - 1] /\ t[i] = s[i]
    BY <1>1, <1>4, <2>1
  <2>3. i \in P <=> s[i] # "begin" /\ d[i - 1] = 0
    BY <1>7, <2>1 DEF Outside, d
  <2>4. i \in Q <=> t[i] # "begin" /\ e[i - 1] = 0
    <3>1. i \in 1 .. n + 1
      BY <1>1, <2>1
    <3> QED
      BY <1>7, <3>1 DEF Outside, e
  <2> QED
    BY <2>2, <2>3, <2>4
<1>9. Len(s) + 1 \in Q <=> x # "begin" /\ e[n] = 0
  <2>1. n + 1 \in 1 .. n + 1 /\ (n + 1) - 1 = n
    BY <1>1
  <2> QED
    BY <1>1, <1>7, <2>1 DEF Outside, e, n
<1> HIDE DEF P, Q
<1>10. Keep(t, Q) = IF Len(s) + 1 \in Q THEN Append(Keep(s, P), x) ELSE Keep(s, P)
  BY <1>8, KeepAppend DEF t
<1>11. Rest(t) = IF x # "begin" /\ EndDepth(s) = 0 THEN Append(Rest(s), x) ELSE Rest(s)
  BY <1>5, <1>9, <1>10 DEF Rest, P, Q
<1>12. EndDepth(t) = IF x = "begin" THEN EndDepth(s) + 1
                 ELSE IF x = "end" /\ EndDepth(s) > 0 THEN EndDepth(s) - 1 ELSE EndDepth(s)
  BY <1>5, <1>6
<1> QED
  BY <1>11, <1>12 DEF t

-----------------------------------------------------------------------------
(* A block and lines of the user. *)

AnyLine == UserLines \cup {"begin", "hooks", "end"}

(* What follows outside of a block stays. *)
LEMMA RestConcat ==
  ASSUME NEW s \in Seq(AnyLine), EndDepth(s) = 0, NEW r \in Seq(UserLines)
  PROVE  EndDepth(s \o r) = 0 /\ Rest(s \o r) = Rest(s) \o r
<1> DEFINE T == {t \in Seq(UserLines) : EndDepth(s \o t) = 0 /\ Rest(s \o t) = Rest(s) \o t}
<1>0. Rest(s) \in Seq(AnyLine)
  BY RestType
<1>1. <<>> \in T
  <2>1. s \o <<>> = s /\ Rest(s) \o <<>> = Rest(s) /\ <<>> \in Seq(UserLines)
    BY <1>0
  <2> QED
    BY <2>1
<1>2. ASSUME NEW t \in Seq(UserLines), NEW x \in UserLines, t \in T PROVE Append(t, x) \in T
  <2>0. t \in Seq(AnyLine) /\ x \in AnyLine
    BY DEF AnyLine
  <2>1. Append(t, x) \in Seq(UserLines) /\ s \o t \in Seq(AnyLine)
    BY <2>0
  <2>2. Associates(s, t, x) /\ Associates(Rest(s), t, x)
    BY <1>0, <2>0, AppendConcat
  <2>3. x # "begin" /\ x # "end"
    BY BlockConstants
  <2>4. EndDepth(s \o t) = 0 /\ Rest(s \o t) = Rest(s) \o t
    BY <1>2
  <2>5. EndDepth(Append(s \o t, x)) = 0 /\ Rest(Append(s \o t, x)) = Append(Rest(s \o t), x)
    BY <2>0, <2>1, <2>3, <2>4, RestAppend
  <2>6. EndDepth(s \o Append(t, x)) = 0 /\ Rest(s \o Append(t, x)) = Rest(s) \o Append(t, x)
    BY <2>2, <2>4, <2>5 DEF Associates
  <2> QED
    BY <2>1, <2>6
<1> HIDE DEF T
<1>3. Seq(UserLines) \subseteq T
  BY <1>1, <1>2, SeqInduction
<1> QED
  BY <1>3 DEF T

LEMMA BlockAppended ==
  ASSUME NEW X, NEW s \in Seq(X)
  PROVE  s \o Block = Append(Append(Append(s, "begin"), "hooks"), "end")
BY DEF Block

LEMMA RestBlock ==
  ASSUME NEW s \in Seq(AnyLine), EndDepth(s) = 0
  PROVE  EndDepth(s \o Block) = 0 /\ Rest(s \o Block) = Rest(s)
<1> DEFINE t == Append(s, "begin")
           u == Append(t, "hooks")
<1>1. /\ "begin" \in AnyLine /\ "hooks" \in AnyLine /\ "end" \in AnyLine
      /\ "begin" # "hooks" /\ "begin" # "end" /\ "hooks" # "end"
  BY DEF AnyLine
<1>2. t \in Seq(AnyLine) /\ u \in Seq(AnyLine)
  BY <1>1
<1>3. EndDepth(t) = 1 /\ Rest(t) = Rest(s)
  BY <1>1, RestAppend
<1> HIDE DEF t
<1>4. EndDepth(u) = 1 /\ Rest(u) = Rest(s)
  BY <1>1, <1>2, <1>3, RestAppend
<1> HIDE DEF u
<1>5. EndDepth(Append(u, "end")) = 0 /\ Rest(Append(u, "end")) = Rest(s)
  BY <1>1, <1>2, <1>4, RestAppend
<1> QED
  BY <1>5, BlockAppended DEF t, u

(* The user's lines around a block.                                        *)
WithBlock(a, b) == (a \o Block) \o b

LEMMA BlockIsText ==
  ASSUME NEW a \in Seq(UserLines), NEW b \in Seq(UserLines)
  PROVE  /\ a \in Seq(AnyLine) /\ b \in Seq(AnyLine) /\ Block \in Seq(AnyLine)
         /\ a \o Block \in Seq(AnyLine) /\ WithBlock(a, b) \in Seq(AnyLine)
<1>1. a \in Seq(AnyLine) /\ b \in Seq(AnyLine)
  BY DEF AnyLine
<1>2. Block \in Seq(AnyLine)
  BY DEF Block, AnyLine
<1>3. a \o Block \in Seq(AnyLine)
  BY <1>1, <1>2
<1>4. (a \o Block) \o b \in Seq(AnyLine)
  BY <1>1, <1>3
<1> QED
  BY <1>1, <1>2, <1>3, <1>4 DEF WithBlock

LEMMA OnlyUser ==
  ASSUME NEW a \in Seq(UserLines), NEW b \in Seq(UserLines)
  PROVE  Only(a, UserLines) = a /\ Only(WithBlock(a, b), UserLines) = a \o b
<1>1. Only(a, UserLines) = a /\ Only(b, UserLines) = b
  BY OnlyAll
<1>2. Block \in Seq({"begin", "hooks", "end"})
  BY DEF Block
<1>3. Only(Block, UserLines) = <<>>
  BY <1>2, OnlyNone, BlockConstants
<1>4. Only(a \o Block, UserLines) = a \o <<>>
  <2>1. Distributes(a, Block, UserLines)
    BY BlockIsText, OnlyConcat
  <2> QED
    BY <1>1, <1>3, <2>1 DEF Distributes
<1>5. a \o <<>> = a
  OBVIOUS
<1>6. Only((a \o Block) \o b, UserLines) = Only(a \o Block, UserLines) \o b
  <2>1. Distributes(a \o Block, b, UserLines)
    BY BlockIsText, OnlyConcat
  <2> QED
    BY <1>1, <2>1 DEF Distributes
<1> QED
  BY <1>1, <1>4, <1>5, <1>6 DEF WithBlock

LEMMA RestUser ==
  ASSUME NEW a \in Seq(UserLines), NEW b \in Seq(UserLines)
  PROVE  Rest(a) = a /\ Rest(WithBlock(a, b)) = a \o b
<1>1. <<>> \in Seq(AnyLine) /\ <<>> \o a = a
  OBVIOUS
<1>2. EndDepth(<<>> \o a) = 0 /\ Rest(<<>> \o a) = Rest(<<>>) \o a
  BY <1>1, RestEmpty, RestConcat
<1>3. EndDepth(a) = 0 /\ Rest(a) = a
  BY <1>1, <1>2, RestEmpty
<1>4. EndDepth(a \o Block) = 0 /\ Rest(a \o Block) = a
  BY <1>3, BlockIsText, RestBlock
<1>5. Rest((a \o Block) \o b) = Rest(a \o Block) \o b
  BY <1>4, BlockIsText, RestConcat
<1> QED
  BY <1>3, <1>4, <1>5 DEF WithBlock

LEMMA TidyIs ==
  ASSUME NEW s \in Seq(AnyLine), Tidy(s)
  PROVE  \/ s \in Seq(UserLines)
         \/ \E a, b \in Seq(UserLines) : s = WithBlock(a, b)
<1>1. PICK own \in Seq(UserLines) : own = Only(s, UserLines)
  <2>1. AnyLine \cap UserLines = UserLines
    BY DEF AnyLine
  <2> QED
    BY <2>1, OnlyType
<1>2. CASE s = own
  BY <1>2
<1>3. ASSUME NEW i \in 0 .. Len(own),
             s = WithBlock(SubSeq(own, 1, i), SubSeq(own, i + 1, Len(own)))
      PROVE  \E a, b \in Seq(UserLines) : s = WithBlock(a, b)
  <2>1. SubSeq(own, 1, i) \in Seq(UserLines) /\ SubSeq(own, i + 1, Len(own)) \in Seq(UserLines)
    OBVIOUS
  <2> QED
    BY <1>3, <2>1
<1> QED
  BY <1>1, <1>2, <1>3 DEF Tidy, WithBlock

LEMMA TidyUser ==
  ASSUME NEW a \in Seq(UserLines)
  PROVE  Tidy(a)
BY OnlyUser DEF Tidy

LEMMA SubSeqOfParts ==
  ASSUME NEW X, NEW a \in Seq(X), NEW b \in Seq(X)
  PROVE  /\ Len(a) \in 0 .. Len(a \o b)
         /\ SubSeq(a \o b, 1, Len(a)) = a
         /\ SubSeq(a \o b, Len(a) + 1, Len(a \o b)) = b
OBVIOUS

LEMMA TidyWithBlock ==
  ASSUME NEW a \in Seq(UserLines), NEW b \in Seq(UserLines)
  PROVE  Tidy(WithBlock(a, b))
<1> DEFINE s == WithBlock(a, b)
           own == Only(s, UserLines)
<1>1. own = a \o b
  BY OnlyUser
<1>2. /\ Len(a) \in 0 .. Len(own)
      /\ SubSeq(own, 1, Len(a)) = a
      /\ SubSeq(own, Len(a) + 1, Len(own)) = b
  BY <1>1, SubSeqOfParts
<1> HIDE DEF own
<1>3. s = (SubSeq(own, 1, Len(a)) \o Block) \o SubSeq(own, Len(a) + 1, Len(own))
  BY <1>2 DEF WithBlock
<1> HIDE DEF s
<1> QED
  BY <1>2, <1>3 DEF Tidy, own, s

(* What Installed, AddBlock and RemoveBlock make of a tidy file.           *)
LEMMA NoBlock ==
  ASSUME NEW a \in Seq(UserLines)
  PROVE  ~ \E i \in DOMAIN a : a[i] = "begin"
BY BlockConstants

LEMMA HasBlock ==
  ASSUME NEW a \in Seq(UserLines), NEW b \in Seq(UserLines)
  PROVE  \E i \in DOMAIN WithBlock(a, b) : WithBlock(a, b)[i] = "begin"
<1> DEFINE s == a \o Block
           i == Len(a) + 1
<1>1. s \in Seq(AnyLine) /\ b \in Seq(AnyLine)
  BY BlockIsText
<1>2. Len(s) = Len(a) + 3 /\ s[i] = "begin" /\ Len(a) \in Nat
  BY DEF Block
<1> HIDE DEF s
<1>3. i \in DOMAIN (s \o b) /\ (s \o b)[i] = s[i]
  BY <1>1, <1>2
<1> QED
  BY <1>2, <1>3 DEF WithBlock, s

LEMMA LinesType ==
  ASSUME NEW c \in Contents \cup {NoFile}
  PROVE  Lines(c) \in Seq(AnyLine)
BY DEF Contents, Lines, AnyLine

LEMMA Uninstalled ==
  ASSUME NEW c \in Contents \cup {NoFile}, Tidy(Lines(c)), ~Installed(c)
  PROVE  Lines(c) \in Seq(UserLines) /\ Own(c) = Lines(c)
<1>1. Lines(c) \in Seq(UserLines)
  BY LinesType, TidyIs, HasBlock DEF Installed
<1> QED
  BY <1>1, OnlyUser DEF Own

LEMMA AddBlockTidy ==
  ASSUME NEW c \in Contents \cup {NoFile}, Tidy(Lines(c)), ~Installed(c)
  PROVE  /\ AddBlock(c) \in Contents /\ Tidy(Lines(AddBlock(c)))
         /\ Own(AddBlock(c)) = Own(c)
<1> DEFINE a == Lines(c)
<1>1. a \in Seq(UserLines) /\ Own(c) = a
  BY Uninstalled
<1>2. <<>> \in Seq(UserLines)
  OBVIOUS
<1> HIDE DEF a
<1>3. a \o Block \in Seq(AnyLine) /\ a \o <<>> = a
  BY <1>1, BlockIsText
<1>4. WithBlock(a, <<>>) = a \o Block
  BY <1>3 DEF WithBlock
<1>5. AddBlock(c) \in Contents /\ Lines(AddBlock(c)) = a \o Block
  <2> DEFINE t == a \o Block
  <2>1. AddBlock(c) = [lines |-> t, nl |-> TRUE] /\ t \in Seq(AnyLine)
    BY <1>3 DEF AddBlock, a
  <2> HIDE DEF t
  <2>2. AddBlock(c) \in Contents /\ AddBlock(c).lines = t
    BY <2>1 DEF Contents, AnyLine
  <2>3. AddBlock(c) # NoFile
    BY <2>2, BlockConstants
  <2> QED
    BY <2>2, <2>3 DEF Lines, t
<1>6. Tidy(a \o Block) /\ Only(a \o Block, UserLines) = a
  BY <1>1, <1>2, <1>3, <1>4, TidyWithBlock, OnlyUser
<1> QED
  BY <1>1, <1>5, <1>6 DEF Own

LEMMA AddBlockType ==
  ASSUME NEW c \in Contents \cup {NoFile}
  PROVE  AddBlock(c) \in Contents
<1>1. Lines(c) \in Seq(AnyLine) /\ Block \in Seq(AnyLine)
  BY LinesType DEF Block, AnyLine
<1>2. Lines(c) \o Block \in Seq(AnyLine)
  BY <1>1
<1> QED
  BY <1>2 DEF AddBlock, Contents, AnyLine

LEMMA RemoveBlockType ==
  ASSUME NEW c \in Contents
  PROVE  RemoveBlock(c) \in Contents /\ Lines(RemoveBlock(c)) = Rest(c.lines)
<1>1. c.lines \in Seq(AnyLine) /\ c.nl \in BOOLEAN
  BY DEF Contents, AnyLine
<1>2. Rest(c.lines) \in Seq(AnyLine)
  BY <1>1, RestType
<1>3. PICK nl \in BOOLEAN : RemoveBlock(c) = [lines |-> Rest(c.lines), nl |-> nl]
  BY <1>1 DEF RemoveBlock, Rest, Outside
<1>4. RemoveBlock(c) \in Contents
  BY <1>2, <1>3 DEF Contents, AnyLine
<1> QED
  BY <1>3, <1>4, BlockConstants DEF Lines

LEMMA RemoveBlockTidy ==
  ASSUME NEW c \in Contents, Tidy(Lines(c)), Installed(c)
  PROVE  Lines(RemoveBlock(c)) = Own(c) /\ Own(c) \in Seq(UserLines)
<1>1. Lines(c) = c.lines
  BY BlockConstants DEF Lines
<1>2. PICK a, b \in Seq(UserLines) : Lines(c) = WithBlock(a, b)
  BY LinesType, TidyIs, NoBlock DEF Installed
<1>3. Rest(Lines(c)) = a \o b /\ Own(c) = a \o b
  BY <1>2, RestUser, OnlyUser DEF Own
<1> QED
  BY <1>1, <1>3, RemoveBlockType

(* A line of the user before or after a tidy file leaves it tidy.          *)
LEMMA EditTidy ==
  ASSUME NEW s \in Seq(AnyLine), Tidy(s), NEW x \in UserLines
  PROVE  Tidy(<<x>> \o s) /\ Tidy(Append(s, x))
<1>1. CASE s \in Seq(UserLines)
  <2>1. <<x>> \o s \in Seq(UserLines) /\ Append(s, x) \in Seq(UserLines)
    BY <1>1
  <2> QED
    BY <2>1, TidyUser
<1>2. ASSUME NEW a \in Seq(UserLines), NEW b \in Seq(UserLines), s = WithBlock(a, b)
      PROVE  Tidy(<<x>> \o s) /\ Tidy(Append(s, x))
  <2>1. <<x>> \in Seq(UserLines) /\ <<x>> \o a \in Seq(UserLines) /\ Append(b, x) \in Seq(UserLines)
    OBVIOUS
  <2>2. <<x>> \o ((a \o Block) \o b) = ((<<x>> \o a) \o Block) \o b
    BY DEF Block
  <2>3. Append((a \o Block) \o b, x) = (a \o Block) \o Append(b, x)
    <3>1. b \in Seq(AnyLine) /\ a \o Block \in Seq(AnyLine) /\ x \in AnyLine
      BY BlockIsText DEF AnyLine
    <3>2. Associates(a \o Block, b, x)
      BY <3>1, AppendConcat
    <3> QED
      BY <3>2 DEF Associates
  <2>4. Tidy(WithBlock(<<x>> \o a, b)) /\ Tidy(WithBlock(a, Append(b, x)))
    BY <2>1, TidyWithBlock
  <2> QED
    BY <1>2, <2>2, <2>3, <2>4 DEF WithBlock
<1> QED
  BY <1>1, <1>2, TidyIs

(* What is written of a text and of a line before or after it.             *)
LEMMA WrittenOwn ==
  ASSUME NEW s \in Seq(AnyLine)
  PROVE  Written(Only(s, UserLines)) = Written(s)
<1>1. (UserLines \ BlankLines) \cap AnyLine \subseteq UserLines
  OBVIOUS
<1> QED
  BY <1>1, OnlyOnly DEF Written

LEMMA WrittenEdit ==
  ASSUME NEW s \in Seq(AnyLine), NEW t \in Seq(AnyLine), Written(s) = Written(t),
         NEW x \in UserLines
  PROVE  /\ Written(<<x>> \o s) = Written(<<x>> \o t)
         /\ Written(Append(s, x)) = Written(Append(t, x))
<1> DEFINE L == UserLines \ BlankLines
<1>1. x \in AnyLine /\ <<x>> \in Seq(AnyLine)
  BY DEF AnyLine
<1> HIDE DEF L
<1>2. Distributes(<<x>>, s, L) /\ Distributes(<<x>>, t, L)
  BY <1>1, OnlyConcat
<1>3. /\ Only(Append(s, x), L) = IF x \in L THEN Append(Only(s, L), x) ELSE Only(s, L)
      /\ Only(Append(t, x), L) = IF x \in L THEN Append(Only(t, L), x) ELSE Only(t, L)
  BY <1>1, OnlyAppend
<1>4. Only(s, L) = Only(t, L)
  BY DEF Written, L
<1>5. Only(<<x>> \o s, L) = Only(<<x>> \o t, L)
  BY <1>2, <1>4 DEF Distributes
<1>6. Only(Append(s, x), L) = Only(Append(t, x), L)
  <2>1. CASE x \in L
    BY <1>3, <1>4, <2>1
  <2>2. CASE x \notin L
    BY <1>3, <1>4, <2>2
  <2> QED
    BY <2>1, <2>2
<1> QED
  BY <1>5, <1>6 DEF Written, L

LEMMA BlankIsUnwritten ==
  ASSUME NEW c \in Contents \cup {NoFile}, IsBlank(c), c # NoFile
  PROVE  Written(Lines(c)) = <<>>
<1>1. c.lines \in Seq(BlankLines)
  BY DEF IsBlank, Contents
<1>2. BlankLines \cap (UserLines \ BlankLines) = {}
  OBVIOUS
<1> QED
  BY <1>1, <1>2, OnlyNone DEF Written, Lines

-----------------------------------------------------------------------------
(* The steps of `install`, `uninstall` and the editor. *)

BInv == BlockTypeOK /\ BlockInv

LEMMA OwnType ==
  ASSUME NEW c \in Contents \cup {NoFile}
  PROVE  /\ Own(c) \in Seq(UserLines)
         /\ Written(Own(c)) = Written(Lines(c))
<1>1. AnyLine \cap UserLines = UserLines
  BY DEF AnyLine
<1> QED
  BY <1>1, LinesType, OnlyType, WrittenOwn DEF Own

LEMMA EmptyFile ==
  /\ Empty \in Contents /\ Lines(Empty) = <<>> /\ Lines(NoFile) = <<>>
  /\ Own(Empty) = <<>> /\ Own(NoFile) = <<>> /\ Written(<<>>) = <<>>
  /\ Tidy(<<>>) /\ ~Installed(Empty) /\ ~Installed(NoFile)
<1>1. <<>> \in Seq(UserLines) /\ <<>> \in Seq(AnyLine)
  OBVIOUS
<1>2. Empty \in Contents
  BY <1>1 DEF Empty, Contents, AnyLine
<1>3. Lines(Empty) = <<>> /\ Lines(NoFile) = <<>>
  BY <1>2, BlockConstants DEF Lines, Empty
<1>4. Tidy(<<>>)
  BY <1>1, TidyUser
<1>5. ~Installed(Empty) /\ ~Installed(NoFile)
  BY <1>3 DEF Installed
<1> QED
  BY <1>2, <1>3, <1>4, <1>5, OnlyEmpty DEF Own, Written

LEMMA BlockInitInv == BlockInit => BInv
<1> SUFFICES ASSUME BlockInit PROVE BInv
  OBVIOUS
<1>1. config \in Contents \cup {NoFile} /\ Lines(config) \in Seq(UserLines)
  <2>1. CASE config = NoFile
    BY <2>1 DEF Lines
  <2>2. CASE config \in [lines : Seq(UserLines), nl : BOOLEAN]
    <3>1. config.lines \in Seq(AnyLine)
      BY <2>2 DEF AnyLine
    <3>2. config \in Contents
      BY <2>2, <3>1 DEF Contents, AnyLine
    <3> QED
      BY <2>2, <3>2, BlockConstants DEF Lines
  <2> QED
    BY <2>1, <2>2, BlockConstants DEF BlockInit
<1>2. Tidy(Lines(config)) /\ text = Own(config) /\ text \in Seq(UserLines)
  BY <1>1, TidyUser, OwnType DEF BlockInit
<1>3. ~Installed(config)
  BY <1>1, NoBlock DEF Installed
<1>4. Good(config)
  <2>1. Own(config) = Lines(config)
    BY <1>1, OnlyUser DEF Own
  <2> QED
    BY <1>2, <2>1 DEF Good
<1>5. BlockTypeOK
  BY <1>1, <1>2 DEF BlockInit, BlockTypeOK, CliIdle
<1>6. BlockInv
  BY <1>2, <1>3, <1>4 DEF BlockInit, BlockInv, WorkKept, BackupKnown, CliIdle
<1> QED
  BY <1>5, <1>6 DEF BInv

(* A command's step, with what it says of the parts of the invariant. *)
LEMMA CommandRuns ==
  ASSUME BInv, Unedited,
         BlockTypeOK',
         WorkKept => WorkKept',
         WorkKept /\ BackupKnown => BackupKnown',
         backup # NoFile /\ cli.pc # "copy" => backup' = backup /\ cli'.pc # "copy"
  PROVE  BInv'
<1>1. Good(backup) => (backup' = backup => Good(backup)')
  BY DEF Good, Unedited
<1> QED
  BY <1>1 DEF BInv, BlockInv, Unedited

(* What a command has read and goes on with. *)
LEMMA ReadType ==
  ASSUME BInv
  PROVE  /\ config \in Contents \cup {NoFile} /\ backup \in Contents \cup {NoFile}
         /\ cli \in [pc: {"idle", "backup", "copy", "open", "write", "remove", "rewrite"},
                     read: Contents \cup {NoFile}]
         /\ cli.pc \in {"remove", "rewrite"} => cli.read \in Contents
BY DEF BInv, BlockTypeOK

LEMMA InstallReads ==
  ASSUME BInv, InstallRead \/ UninstallRead
  PROVE  BInv'
<1> USE DEF InstallRead, UninstallRead, Unedited, Good
<1>1. BlockTypeOK'
  BY ReadType, EmptyFile DEF BInv, BlockTypeOK
<1>2. WorkKept => WorkKept'
  BY DEF WorkKept
<1>3. WorkKept /\ BackupKnown => BackupKnown'
  BY DEF BackupKnown
<1>4. backup' = backup /\ cli'.pc # "copy"
  OBVIOUS
<1> QED
  BY <1>1, <1>2, <1>3, <1>4, CommandRuns

LEMMA BackupOpens ==
  ASSUME BInv, BackupOpen
  PROVE  BInv'
<1> USE DEF BackupOpen, NeedsBackup, CliGoto, Unedited, Good
<1>0. cli' = [cli EXCEPT !.pc = "copy"] /\ cli'.pc = "copy" /\ cli'.read = cli.read
  BY ReadType
<1>1. BlockTypeOK'
  BY <1>0, ReadType, EmptyFile DEF BInv, BlockTypeOK
<1>2. WorkKept => WorkKept'
  BY <1>0 DEF WorkKept
<1>3. WorkKept /\ BackupKnown => BackupKnown'
  BY <1>0 DEF BackupKnown
<1> QED
  BY <1>1, <1>2, <1>3, CommandRuns

LEMMA BackupWrites ==
  ASSUME BInv, BackupWrite
  PROVE  BInv'
<1> USE DEF BackupWrite, CliGoto, Unedited, Good
<1>0. cli' = [cli EXCEPT !.pc = "open"] /\ cli'.pc = "open" /\ cli'.read = cli.read
  BY ReadType
<1>1. BlockTypeOK'
  BY <1>0, ReadType DEF BInv, BlockTypeOK
<1>2. WorkKept => WorkKept'
  BY <1>0 DEF WorkKept
<1>3. WorkKept /\ BackupKnown => BackupKnown'
  BY <1>0 DEF BackupKnown, WorkKept
<1> QED
  BY <1>1, <1>2, <1>3, CommandRuns

LEMMA BackupIsKept ==
  ASSUME BInv, BackupKept
  PROVE  BInv'
<1> USE DEF BackupKept, NeedsBackup, CliGoto, Unedited, Good
<1>0. cli' = [cli EXCEPT !.pc = "open"] /\ cli'.pc = "open" /\ cli'.read = cli.read
  BY ReadType
<1>1. BlockTypeOK'
  BY <1>0, ReadType DEF BInv, BlockTypeOK
<1>2. WorkKept => WorkKept'
  BY <1>0 DEF WorkKept
<1>3. WorkKept /\ BackupKnown => BackupKnown'
  BY <1>0 DEF BackupKnown, WorkKept
<1> QED
  BY <1>0, <1>1, <1>2, <1>3, CommandRuns

LEMMA CommandOpens ==
  ASSUME BInv, InstallOpen \/ UninstallOpen
  PROVE  BInv'
<1> USE DEF InstallOpen, UninstallOpen, CliGoto, Unedited, Good
<1>0. /\ cli'.pc \in {"write", "rewrite"} /\ cli'.read = cli.read
      /\ (cli'.pc = "rewrite" <=> cli.pc = "remove")
      /\ cli.pc \in {"open", "remove"}
      /\ cli' \in [pc: {"write", "rewrite"}, read: Contents \cup {NoFile}]
  BY ReadType
<1>1. BlockTypeOK'
  BY <1>0, ReadType, EmptyFile DEF BInv, BlockTypeOK
<1>2. WorkKept => WorkKept'
  BY <1>0 DEF WorkKept
<1>3. WorkKept /\ BackupKnown => BackupKnown'
  BY <1>0, EmptyFile DEF BackupKnown
<1> QED
  BY <1>0, <1>1, <1>2, <1>3, CommandRuns

LEMMA InstallWrites ==
  ASSUME BInv, InstallWrite
  PROVE  BInv'
<1> USE DEF InstallWrite, CliEnds, CliIdle, Unedited
<1>0. cli.read \in Contents \cup {NoFile} /\ AddBlock(cli.read) \in Contents
  BY ReadType, AddBlockType
<1>1. BlockTypeOK'
  BY <1>0, ReadType DEF BInv, BlockTypeOK
<1>2. WorkKept => WorkKept'
  <2> SUFFICES ASSUME WorkKept PROVE WorkKept'
    OBVIOUS
  <2>1. Tidy(Lines(cli.read)) /\ Good(cli.read) /\ ~Installed(cli.read)
    BY DEF WorkKept
  <2>2. Tidy(Lines(AddBlock(cli.read))) /\ Own(AddBlock(cli.read)) = Own(cli.read)
    BY <1>0, <2>1, AddBlockTidy
  <2> QED
    BY <2>1, <2>2 DEF WorkKept, Good
<1>3. WorkKept /\ BackupKnown => BackupKnown'
  BY DEF BackupKnown, Good
<1> QED
  BY <1>1, <1>2, <1>3, CommandRuns

LEMMA UninstallWrites ==
  ASSUME BInv, UninstallWrite
  PROVE  BInv'
<1> USE DEF UninstallWrite, CliEnds, CliIdle, Unedited
<1>0. cli.read \in Contents /\ RemoveBlock(cli.read) \in Contents
  BY ReadType, RemoveBlockType
<1>1. BlockTypeOK'
  BY <1>0, ReadType, EmptyFile DEF BInv, BlockTypeOK
<1>2. WorkKept => WorkKept'
  <2> SUFFICES ASSUME WorkKept PROVE WorkKept'
    OBVIOUS
  <2>1. Tidy(Lines(cli.read)) /\ Good(cli.read) /\ Installed(cli.read)
    BY DEF WorkKept
  <2>2. Lines(config') = Own(cli.read) /\ Own(cli.read) \in Seq(UserLines)
    BY <1>0, <2>1, RemoveBlockTidy
  <2>3. Tidy(Lines(config')) /\ Own(config') = Own(cli.read)
    BY <2>2, TidyUser, OnlyUser DEF Own
  <2> QED
    BY <2>1, <2>3 DEF WorkKept, Good
<1>3. WorkKept /\ BackupKnown => BackupKnown'
  BY DEF BackupKnown, Good
<1> QED
  BY <1>1, <1>2, <1>3, CommandRuns

LEMMA UninstallUnlinks ==
  ASSUME BInv, UninstallUnlink
  PROVE  BInv'
<1> USE DEF UninstallUnlink, CliEnds, CliIdle, Unedited
<1>0. cli.read \in Contents /\ RemoveBlock(cli.read) \in Contents
  BY ReadType, RemoveBlockType
<1>1. BlockTypeOK'
  BY <1>0, ReadType, EmptyFile DEF BInv, BlockTypeOK
<1>2. WorkKept => WorkKept'
  <2> SUFFICES ASSUME WorkKept PROVE WorkKept'
    OBVIOUS
  <2>1. Tidy(Lines(cli.read)) /\ Good(cli.read) /\ Installed(cli.read)
    BY DEF WorkKept
  <2>2. Lines(RemoveBlock(cli.read)) = Own(cli.read)
    BY <1>0, <2>1, RemoveBlockTidy
  <2>3. Written(Own(cli.read)) = <<>>
    BY <1>0, <2>2, BlankIsUnwritten, BlockConstants
  <2> QED
    BY <2>1, <2>3, EmptyFile DEF WorkKept, Good
<1>3. WorkKept /\ BackupKnown => BackupKnown'
  BY DEF BackupKnown, Good
<1> QED
  BY <1>1, <1>2, <1>3, CommandRuns

(* A command killed after it has truncated config.toml leaves the text in  *)
(* the backup, or there was nothing in it.                                 *)
LEMMA CliDeath ==
  ASSUME BInv, CliDies
  PROVE  BInv'
<1> USE DEF CliDies, CliEnds, CliIdle, Good
<1>1. BlockTypeOK'
  BY ReadType, EmptyFile DEF BInv, BlockTypeOK
<1>2. ASSUME died = 0, edited = "no"
      PROVE  WorkKept' \/ (backup # NoFile /\ Good(backup) /\ cli.pc # "copy")'
  <2>1. WorkKept /\ BackupKnown
    BY <1>2 DEF BInv, BlockInv
  <2>2. cli'.pc = "idle" /\ UNCHANGED <<config, backup, text>>
    OBVIOUS
  <2>3. Tidy(Lines(config)) /\ Good(config) => WorkKept'
    BY <2>2 DEF WorkKept
  <2>4. CASE cli.pc \notin {"write", "rewrite"}
    <3>1. Tidy(Lines(config)) /\ Good(config)
      BY <2>1, <2>4 DEF WorkKept
    <3> QED
      BY <2>3, <3>1
  <2>5. CASE cli.pc \in {"write", "rewrite"} /\ backup # NoFile
    BY <2>1, <2>2, <2>5 DEF BackupKnown
  <2>6. CASE cli.pc \in {"write", "rewrite"} /\ backup = NoFile
    <3>1. Good(NoFile) /\ config = Empty
      BY <2>1, <2>6 DEF BackupKnown, WorkKept
    <3>2. Tidy(Lines(Empty)) /\ Good(Empty)
      BY <3>1, EmptyFile
    <3>3. Tidy(Lines(config)) /\ Good(config)
      BY <3>1, <3>2
    <3> QED
      BY <2>3, <3>3
  <2> QED
    BY <2>4, <2>5, <2>6
<1>3. died \in Nat /\ died' = died + 1 /\ edited' = edited
  BY DEF BInv, BlockTypeOK
<1>4. BlockInv'
  BY <1>2, <1>3 DEF BlockInv
<1> QED
  BY <1>1, <1>4 DEF BInv

(* An edit between commands leaves a tidy file tidy, and is in the text.   *)
LEMMA EditType ==
  ASSUME BInv, NEW l \in UserLines, NEW before \in BOOLEAN, Edit(l, before)
  PROVE  /\ config' \in Contents /\ text' \in Seq(UserLines)
         /\ Lines(config') = IF before THEN <<l>> \o Lines(config) ELSE Append(Lines(config), l)
<1> DEFINE s == Lines(config)
<1>1. s \in Seq(AnyLine) /\ l \in AnyLine /\ text \in Seq(UserLines)
  BY ReadType, LinesType DEF AnyLine, BInv, BlockTypeOK
<1>2. <<l>> \o s \in Seq(AnyLine) /\ Append(s, l) \in Seq(AnyLine)
  BY <1>1
<1>3. <<l>> \o text \in Seq(UserLines) /\ Append(text, l) \in Seq(UserLines)
  BY <1>1
<1>4. config = NoFile \/ config.nl \in BOOLEAN
  BY ReadType DEF Contents
<1> HIDE DEF s
<1>5. /\ config' = [lines |-> IF before THEN <<l>> \o s ELSE Append(s, l),
                    nl |-> ~before \/ config = NoFile \/ config.nl]
      /\ text' = IF before THEN <<l>> \o text ELSE Append(text, l)
  BY <1>4 DEF Edit, s
<1>6. config' \in Contents /\ config'.lines = IF before THEN <<l>> \o s ELSE Append(s, l)
  BY <1>2, <1>4, <1>5 DEF Contents, AnyLine
<1>7. config' # NoFile
  BY <1>6, BlockConstants
<1> QED
  BY <1>3, <1>5, <1>6, <1>7 DEF Lines, s

LEMMA EditStep ==
  ASSUME BInv, NEW l \in UserLines, NEW before \in BOOLEAN, Edit(l, before)
  PROVE  BInv'
<1>1. config' \in Contents /\ text' \in Seq(UserLines)
  BY EditType
<1>2. BlockTypeOK'
  BY <1>1 DEF BInv, BlockTypeOK, Edit
<1>3. edited' # "no" /\ died' = died
  BY DEF Edit
<1>4. ASSUME died = 0, edited' # "during" PROVE WorkKept'
  <2>1. WorkKept /\ cli.pc = "idle" /\ cli' = cli
    BY <1>4 DEF BInv, BlockInv, Edit
  <2>2. Tidy(Lines(config)) /\ Good(config)
    BY <2>1 DEF WorkKept
  <2>3. /\ Lines(config) \in Seq(AnyLine) /\ text \in Seq(AnyLine)
        /\ config \in Contents \cup {NoFile}
    BY ReadType, LinesType DEF BInv, BlockTypeOK, AnyLine
  <2>4. Written(Lines(config)) = Written(text)
    BY <2>2, <2>3, OwnType DEF Good
  <2>5. Tidy(Lines(config'))
    BY <2>2, <2>3, EditType, EditTidy
  <2>6. Written(Lines(config')) = Written(text')
    <3>1. text' = IF before THEN <<l>> \o text ELSE Append(text, l)
      BY DEF Edit
    <3>2. /\ Written(<<l>> \o Lines(config)) = Written(<<l>> \o text)
          /\ Written(Append(Lines(config), l)) = Written(Append(text, l))
      BY <2>3, <2>4, WrittenEdit
    <3>3. CASE before
      BY <3>1, <3>2, <3>3, EditType
    <3>4. CASE ~before
      BY <3>1, <3>2, <3>4, EditType
    <3> QED
      BY <3>3, <3>4
  <2>7. Written(Own(config')) = Written(text')
    BY <1>1, <2>6, OwnType
  <2> QED
    BY <2>1, <2>5, <2>7 DEF WorkKept, Good
<1>5. BlockInv'
  BY <1>3, <1>4 DEF BlockInv
<1> QED
  BY <1>2, <1>5 DEF BInv

LEMMA BlockInvStep == BInv /\ [BlockNext]_bvars => BInv'
<1> SUFFICES ASSUME BInv, [BlockNext]_bvars PROVE BInv'
  OBVIOUS
<1>1. CASE CliStarts
  BY <1>1, InstallReads DEF CliStarts
<1>2. CASE CliGoesOn
  BY <1>2, BackupOpens, BackupWrites, BackupIsKept, CommandOpens, InstallWrites,
     UninstallWrites, UninstallUnlinks, CliDeath DEF CliGoesOn
<1>3. CASE Edits
  BY <1>3, EditStep DEF Edits
<1>4. CASE UNCHANGED bvars
  <2>1. UNCHANGED <<BlockTypeOK, BlockInv>>
    BY <1>4 DEF bvars, BlockTypeOK, BlockInv, WorkKept, BackupKnown, Good
  <2> QED
    BY <2>1 DEF BInv
<1> QED
  BY <1>1, <1>2, <1>3, <1>4 DEF BlockNext

-----------------------------------------------------------------------------
(* What the invariant says of the properties. *)

LEMMA BInvKeepsUserLines == BInv => UserLinesKept
<1> SUFFICES ASSUME BInv, cli.pc = "idle", died = 0, edited # "during"
             PROVE  /\ Written(Own(config)) = Written(text)
                    /\ ~Installed(config) => Lines(config) = Own(config)
  BY DEF UserLinesKept
<1>1. Tidy(Lines(config)) /\ Good(config)
  BY DEF BInv, BlockInv, WorkKept
<1> QED
  BY <1>1, ReadType, Uninstalled DEF Good

LEMMA BInvRecovers == BInv => Recoverable
<1> SUFFICES ASSUME BInv, died <= 1, edited = "no"
             PROVE  Written(text) \in {Written(Own(c)) : c \in {config, backup, cli.read}}
  BY DEF Recoverable
<1>1. died \in Nat
  BY DEF BInv, BlockTypeOK
<1>2. WorkKept \/ Good(backup)
  BY <1>1 DEF BInv, BlockInv
<1>3. WorkKept => Good(config) \/ Good(cli.read)
  BY DEF WorkKept
<1> QED
  BY <1>2, <1>3 DEF Good

LEMMA BInvBacksUp ==
  BInv /\ InstallOpen /\ edited = "no" /\ died = 0 => Written(Own(backup)) = Written(text)
BY DEF BInv, BlockInv, BackupKnown, Good, InstallOpen
=============================================================================
