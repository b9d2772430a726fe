--------------------------- MODULE AgentLoopProofs ---------------------------
(***************************************************************************)
(* The agent's loop, for every window, every set of ids and every number   *)
(* of calls, deltas, rounds and turns; and NormalizeMessages on every      *)
(* sequence of messages, not only the ones the loop makes.                 *)
(*                                                                         *)
(* What the recursive parts compute (FlattenSeq in SlowPath, the arguments *)
(* set one call after the other in Finish) is shown by the least           *)
(* counterexample: < is well founded on Nat.                               *)
(***************************************************************************)
EXTENDS AgentLoop, WellFoundedInduction, SequenceTheorems, TLAPS

-----------------------------------------------------------------------------
(* Induction and recursion over an interval *)

(* A set of numbers that is not empty has a least one.                     *)
LEMMA Least ==
    ASSUME NEW T \in SUBSET Nat, T # {}
    PROVE  \E n \in T : \A m \in T : n <= m
<1> DEFINE R == OpToRel(<, Nat)
<1>1. IsWellFoundedOn(R, Nat)
  BY NatLessThanWellFounded, Zenon
<1>2. \A x, y \in Nat : x < y => <<x, y>> \in R
  BY DEF OpToRel
<1>3. \A x, y \in Nat : ~(x < y) => y <= x
  OBVIOUS
<1> HIDE DEF R
<1>4. \E x \in T : \A y \in T : ~ (<<y, x>> \in R)
  BY <1>1, WFMin, Zenon
<1> QED
  BY <1>2, <1>3, <1>4, Zenon

(* A set of positions that is not empty has a greatest one.                *)
LEMMA Greatest ==
    ASSUME NEW n \in Nat, NEW T \in SUBSET (1..n), T # {}
    PROVE  \E k \in T : \A m \in T : k >= m
<1> DEFINE B == {n - k : k \in T}
<1>1. B \in SUBSET Nat /\ B # {}
  OBVIOUS
<1>2. PICK b \in B : \A c \in B : b <= c
  <2> HIDE DEF B
  <2> QED
    BY <1>1, Least
<1>3. PICK k \in T : b = n - k
  BY <1>2
<1>4. ASSUME NEW m \in T PROVE k >= m
  <2>1. n - m \in B
    OBVIOUS
  <2>2. b <= n - m
    BY <1>2, <2>1
  <2> QED
    BY <1>3, <2>2
<1> QED
  BY <1>4

(* A property T of the first number that passes from each to the next.     *)
LEMMA Induction ==
    ASSUME NEW lo \in Nat, NEW hi \in Nat, NEW T, lo \in T,
           \A n \in lo..hi : n \in T /\ n < hi => n + 1 \in T
    PROVE  \A n \in lo..hi : n \in T
<1> DEFINE B == {n \in lo..hi : n \notin T}
<1> SUFFICES ASSUME B # {} PROVE FALSE
  OBVIOUS
<1>1. B \in SUBSET Nat
  OBVIOUS
<1>2. PICK n \in B : \A m \in B : n <= m
  <2> HIDE DEF B
  <2> QED
    BY <1>1, Least
<1>3. n \in lo..hi /\ n \notin T /\ n # lo /\ n - 1 \in lo..hi /\ n - 1 < hi /\ n = (n - 1) + 1
  BY <1>2
<1>4. n - 1 \in B
  BY <1>3
<1> QED
  BY <1>2, <1>3, <1>4

\* f starts with a and goes on with G.
Chain(f, S, a, n, G) ==
    /\ f \in [0..n -> S]
    /\ f[0] = a
    /\ \A i \in 1..n : f[i] = G[i][f[i - 1]]

(* The recursive function that starts with a and goes on with G exists.    *)
LEMMA Recursion ==
    ASSUME NEW S, NEW a \in S, NEW n \in Nat, NEW G \in [1..n -> [S -> S]]
    PROVE  \E f : Chain(f, S, a, n, G)
<1> DEFINE E(f, m) == /\ f \in [0..m -> S]
                      /\ f[0] = a
                      /\ \A i \in 1..m : f[i] = G[i][f[i - 1]]
           T == {m \in 0..n : \E f : E(f, m)}
<1>1. 0 \in T
  <2>1. E([i \in 0..0 |-> a], 0)
    OBVIOUS
  <2>2. 0 \in 0..n
    OBVIOUS
  <2> HIDE DEF E
  <2> QED
    BY <2>1, <2>2, Zenon
<1>2. ASSUME NEW m \in 0..n, m \in T, m < n PROVE m + 1 \in T
  <2>1. PICK f : E(f, m)
    BY <1>2
  <2> DEFINE h == [i \in 0..(m + 1) |-> IF i = m + 1 THEN G[m + 1][f[m]] ELSE f[i]]
  <2>2. m + 1 \in 0..n /\ m + 1 \in 1..n /\ m \in 0..m /\ 0 \in 0..(m + 1) /\ 0 # m + 1
    BY <1>2
  <2>3. f[m] \in S
    BY <2>1, <2>2
  <2>4. G[m + 1][f[m]] \in S
    BY <2>2, <2>3
  <2>5. \A i \in 0..(m + 1) : i # m + 1 => i \in 0..m
    BY <1>2
  <2>6. h \in [0..(m + 1) -> S]
    BY <2>1, <2>4, <2>5
  <2>7. h[0] = a
    BY <2>1, <2>2
  <2>8. ASSUME NEW i \in 1..(m + 1) PROVE h[i] = G[i][h[i - 1]]
    <3>0. i \in 0..(m + 1) /\ i - 1 \in 0..(m + 1) /\ i - 1 # m + 1
      BY <1>2
    <3>1. h[i - 1] = f[i - 1]
      BY <3>0
    <3>2. CASE i = m + 1
      <4>1. h[i] = G[m + 1][f[m]]
        BY <3>0, <3>2
      <4>2. i - 1 = m
        BY <1>2, <3>2
      <4> QED
        BY <3>1, <3>2, <4>1, <4>2
    <3>3. CASE i # m + 1
      <4>1. i \in 1..m
        BY <1>2, <3>3
      <4>2. h[i] = f[i]
        BY <3>0, <3>3
      <4>3. f[i] = G[i][f[i - 1]]
        BY <2>1, <4>1
      <4> QED
        BY <3>1, <4>2, <4>3
    <3> QED
      BY <3>2, <3>3
  <2>9. E(h, m + 1)
    BY <2>6, <2>7, <2>8
  <2> HIDE DEF E, h
  <2> QED
    BY <2>2, <2>9, Zenon
<1>3. \A m \in 0..n : m \in T
  <2> HIDE DEF T
  <2> QED
    BY <1>1, <1>2, Induction
<1>4. n \in T
  <2> HIDE DEF T
  <2> QED
    BY <1>3
<1>5. \E f : E(f, n)
  <2> HIDE DEF E
  <2> QED
    BY <1>4
<1> QED
  BY <1>5 DEF Chain

(* FlattenSeq is the last of the concatenations of the first pieces.       *)
LEMMA Flatten ==
    ASSUME NEW S, NEW pp \in Seq(Seq(S))
    PROVE  \E f : /\ f \in [0..Len(pp) -> Seq(S)]
                  /\ f[0] = <<>>
                  /\ \A i \in 1..Len(pp) : f[i] = f[i - 1] \o pp[i]
                  /\ FlattenSeq(pp) = f[Len(pp)]
<1> DEFINE N == Len(pp)
           D(g) == g = [i \in 1..N |-> IF i = 1 THEN pp[i] ELSE g[i - 1] \o pp[i]]
           G == [i \in 1..N |-> [x \in Seq(S) |-> x \o pp[i]]]
<1>1. N \in Nat /\ (\A i \in 1..N : pp[i] \in Seq(S)) /\ <<>> \in Seq(S)
  OBVIOUS
<1>2. N # 0 => FlattenSeq(pp) = (CHOOSE g : D(g))[N]
  BY <1>1 DEF FlattenSeq
<1>3. N = 0 => FlattenSeq(pp) = <<>>
  BY <1>1 DEF FlattenSeq
<1> HIDE DEF N
<1>4. G \in [1..N -> [Seq(S) -> Seq(S)]]
  <2>1. \A x \in Seq(S), i \in 1..N : x \o pp[i] \in Seq(S)
    BY <1>1
  <2> QED
    BY <2>1
<1>5. PICK f : /\ f \in [0..N -> Seq(S)]
               /\ f[0] = <<>>
               /\ \A i \in 1..N : f[i] = G[i][f[i - 1]]
  <2> DEFINE Q == Seq(S)
             a == <<>>
  <2>1. a \in Q /\ N \in Nat /\ G \in [1..N -> [Q -> Q]]
    BY <1>1, <1>4
  <2> HIDE DEF G, Q, a
  <2>2. \E f : Chain(f, Q, a, N, G)
    BY <2>1, Recursion
  <2> QED
    BY <2>2 DEF Q, a, Chain
<1>6. ASSUME NEW i \in 1..N PROVE f[i] = f[i - 1] \o pp[i]
  <2>1. i - 1 \in 0..N
    BY <1>1
  <2>2. f[i - 1] \in Seq(S)
    BY <1>5, <2>1
  <2> QED
    BY <1>5, <2>2
<1> DEFINE h == [i \in 1..N |-> f[i]]
<1>7. D(h)
  <2>1. ASSUME NEW i \in 1..N PROVE h[i] = IF i = 1 THEN pp[i] ELSE h[i - 1] \o pp[i]
    <3>1. CASE i = 1
      <4>1. i - 1 = 0 /\ pp[i] \in Seq(S)
        BY <1>1, <3>1
      <4>2. <<>> \o pp[i] = pp[i]
        BY <4>1
      <4>3. f[i - 1] = <<>>
        BY <1>5, <4>1
      <4>4. f[i] = pp[i]
        BY <1>6, <4>2, <4>3
      <4> QED
        BY <3>1, <4>4
    <3>2. CASE i # 1
      <4>1. i - 1 \in 1..N
        BY <1>1, <3>2
      <4> QED
        BY <1>6, <3>2, <4>1
    <3> QED
      BY <3>1, <3>2
  <2> QED
    BY <2>1
<1> DEFINE g == CHOOSE x : D(x)
<1>8. D(g)
  BY <1>7, Zenon
<1>9. N # 0 => FlattenSeq(pp) = g[N]
  BY <1>2
<1> HIDE DEF g
<1>10. \A n \in 0..N : n = 0 \/ g[n] = f[n]
  <2> DEFINE T == {n \in 0..N : n = 0 \/ g[n] = f[n]}
  <2>1. 0 \in T
    BY <1>1
  <2>2. ASSUME NEW n \in 0..N, n \in T, n < N PROVE n + 1 \in T
    <3>1. n + 1 \in 1..N /\ (n + 1) - 1 = n /\ n + 1 \in 0..N /\ (n + 1 = 1 <=> n = 0)
      BY <1>1, <2>2
    <3>2. g[n + 1] = IF n + 1 = 1 THEN pp[n + 1] ELSE g[(n + 1) - 1] \o pp[n + 1]
      BY <3>1, <1>8
    <3>3. f[n + 1] = f[n] \o pp[n + 1]
      BY <3>1, <1>6
    <3>4. CASE n = 0
      <4>1. <<>> \o pp[n + 1] = pp[n + 1]
        BY <1>1, <3>1
      <4> QED
        BY <1>5, <3>1, <3>2, <3>3, <3>4, <4>1
    <3>5. CASE n # 0
      BY <2>2, <3>1, <3>2, <3>3, <3>5
    <3> QED
      BY <3>4, <3>5
  <2> HIDE DEF T
  <2>3. \A n \in 0..N : n \in T
    BY <1>1, <2>1, <2>2, Induction
  <2> QED
    BY <2>3 DEF T
<1>11. N \in 0..N
  BY <1>1
<1>12. FlattenSeq(pp) = f[N]
  BY <1>3, <1>5, <1>9, <1>10, <1>11
<1> QED
  BY <1>5, <1>6, <1>12 DEF N

-----------------------------------------------------------------------------
(* The tool messages after a message *)

\* Message i is followed by n tool messages and no more.
Tools(ms, i, n) ==
    /\ n \in 0..(Len(ms) - i)
    /\ \A k \in 1..n : ms[i + k].role = "tool"
    /\ i + n < Len(ms) => ms[i + n + 1].role # "tool"

(* The loop over the tool messages stops at one place.                     *)
LEMMA ToolsUnique ==
    ASSUME NEW ms \in Seq(Msg), NEW i \in 0..Len(ms), NEW n, NEW m,
           Tools(ms, i, n), Tools(ms, i, m)
    PROVE  n = m
<1>1. ASSUME NEW a, NEW b, Tools(ms, i, a), Tools(ms, i, b), a < b PROVE FALSE
  <2>1. a \in 0..(Len(ms) - i) /\ b \in 0..(Len(ms) - i) /\ Len(ms) \in Nat
    BY <1>1 DEF Tools
  <2>2. a + 1 \in 1..b /\ i + a < Len(ms) /\ i + (a + 1) = i + a + 1
    BY <1>1, <2>1
  <2> QED
    BY <1>1, <2>2 DEF Tools
<1>2. n \in Nat /\ m \in Nat
  BY DEF Tools
<1>3. n < m \/ m < n \/ n = m
  BY <1>2
<1> QED
  BY <1>1, <1>3, Zenon

(* And it stops.                                                           *)
LEMMA ToolsExist ==
    ASSUME NEW ms \in Seq(Msg), NEW i \in 0..Len(ms)
    PROVE  \E n \in 0..(Len(ms) - i) : Tools(ms, i, n)
<1> DEFINE L == Len(ms)
           B == {n \in 0..(L - i) : i + n < L => ms[i + n + 1].role # "tool"}
<1>1. L \in Nat /\ i \in Nat /\ i <= L
  OBVIOUS
<1> HIDE DEF L
<1>2. B \in SUBSET Nat /\ L - i \in B
  BY <1>1
<1>3. PICK n \in B : \A m \in B : n <= m
  <2> HIDE DEF B
  <2> QED
    BY <1>2, Least
<1>4. ASSUME NEW k \in 1..n PROVE ms[i + k].role = "tool"
  <2>1. k - 1 \in 0..(L - i) /\ k - 1 < n /\ i + (k - 1) + 1 = i + k
    BY <1>1, <1>3
  <2>2. k - 1 \notin B
    BY <1>3, <2>1
  <2> QED
    BY <2>1, <2>2
<1> QED
  BY <1>3, <1>4 DEF Tools, L

(* Results(ms, i) are those messages.                                      *)
LEMMA ResultsRun ==
    ASSUME NEW ms \in Seq(Msg), NEW i \in 0..Len(ms)
    PROVE  /\ Results(ms, i) \in Seq(Msg)
           /\ Len(Results(ms, i)) \in 0..(Len(ms) - i)
           /\ Tools(ms, i, Len(Results(ms, i)))
           /\ \A k \in 1..Len(Results(ms, i)) :
                Results(ms, i)[k] = ms[i + k] /\ ms[i + k].role = "tool"
<1> DEFINE Q(n) == /\ \A k \in 1..n : ms[i + k].role = "tool"
                   /\ i + n < Len(ms) => ms[i + n + 1].role # "tool"
           n == CHOOSE n \in 0..(Len(ms) - i) : Q(n)
           r == SubSeq(ms, i + 1, i + n)
<1>1. Results(ms, i) = r
  BY DEF Results
<1>2. \E m \in 0..(Len(ms) - i) : Q(m)
  BY ToolsExist DEF Tools
<1>3. n \in 0..(Len(ms) - i) /\ Q(n)
  <2> HIDE DEF Q
  <2> QED
    BY <1>2, Zenon
<1>4. Tools(ms, i, n)
  BY <1>3 DEF Tools
<1> HIDE DEF n
<1>5. Len(ms) \in Nat /\ i + 1 \in 1..(Len(ms) + 1) /\ i + n \in i..Len(ms)
  BY <1>3
<1>6. r \in Seq(Msg) /\ Len(r) = n /\ \A k \in 1..n : r[k] = ms[i + k]
  BY <1>3, <1>5
<1> HIDE DEF r
<1> QED
  BY <1>1, <1>3, <1>4, <1>6

(* They are tool messages.                                                 *)
LEMMA ToolRole ==
    ASSUME NEW ms \in Seq(Msg), NEW i \in 0..Len(ms)
    PROVE  /\ Results(ms, i) \in Seq(Msg)
           /\ \A k \in DOMAIN Results(ms, i) : Results(ms, i)[k].role = "tool"
<1> DEFINE r == Results(ms, i)
<1>1. r \in Seq(Msg) /\ \A k \in 1..Len(r) : r[k] = ms[i + k] /\ ms[i + k].role = "tool"
  BY ResultsRun
<1> HIDE DEF r
<1>2. r \in Seq(Msg) /\ \A k \in DOMAIN r : r[k].role = "tool"
  BY <1>1
<1> QED
  BY <1>2 DEF r

(* So what the messages after i are tells what Results(ms, i) is.          *)
LEMMA ResultsAre ==
    ASSUME NEW ms \in Seq(Msg), NEW i \in 0..Len(ms), NEW n, Tools(ms, i, n)
    PROVE  Len(Results(ms, i)) = n
BY ResultsRun, ToolsUnique

-----------------------------------------------------------------------------
(* Sequences of messages put together *)

(* The messages of a concatenation.                                        *)
LEMMA ConcatFacts ==
    ASSUME NEW a \in Seq(Msg), NEW b \in Seq(Msg)
    PROVE  /\ a \o b \in Seq(Msg)
           /\ Len(a) \in Nat /\ Len(b) \in Nat /\ Len(a \o b) = Len(a) + Len(b)
           /\ \A i \in 1..Len(a) : (a \o b)[i] = a[i]
           /\ \A j \in 1..Len(b) : (a \o b)[Len(a) + j] = b[j]
<1> QED
  BY ConcatProperties

(* The same tool messages follow i in ms and j in ns.                      *)
LEMMA SameResults ==
    ASSUME NEW ms \in Seq(Msg), NEW i \in 0..Len(ms),
           NEW ns \in Seq(Msg), NEW j \in 0..Len(ns),
           Tools(ns, j, Len(Results(ms, i))),
           \A k \in 1..Len(Results(ms, i)) : ms[i + k] = ns[j + k]
    PROVE  Results(ns, j) = Results(ms, i)
<1> DEFINE r == Results(ms, i)
           s == Results(ns, j)
<1>1. /\ r \in Seq(Msg) /\ s \in Seq(Msg)
      /\ Len(r) \in Nat
      /\ \A k \in 1..Len(r) : r[k] = ms[i + k]
      /\ \A k \in 1..Len(s) : s[k] = ns[j + k]
  BY ResultsRun
<1>2. Len(s) = Len(r)
  BY <1>1, ResultsAre
<1>3. \A k \in 1..Len(r) : s[k] = r[k]
  BY <1>1, <1>2
<1> HIDE DEF r, s
<1>4. s = r
  BY <1>1, <1>2, <1>3, SeqEqual
<1> QED
  BY <1>4 DEF r, s

(* What is put before a message does not change what follows it.           *)
LEMMA ResultsRight ==
    ASSUME NEW a \in Seq(Msg), NEW b \in Seq(Msg), NEW j \in 1..Len(b)
    PROVE  Results(a \o b, Len(a) + j) = Results(b, j)
<1> DEFINE c == a \o b
           n == Len(Results(b, j))
           A == Len(a)
           B == Len(b)
<1>1. /\ c \in Seq(Msg) /\ A \in Nat /\ B \in Nat /\ Len(c) = A + B
      /\ \A i \in 1..B : c[A + i] = b[i]
  BY ConcatFacts
<1>2. n \in 0..(B - j) /\ Tools(b, j, n) /\ j \in 0..B
  BY ResultsRun
<1> HIDE DEF c, n, A, B
<1>3. \A k \in 1..n : j + k \in 1..B /\ A + (j + k) = (A + j) + k
  BY <1>1, <1>2 DEF B
<1>4. \A k \in 1..n : b[j + k] = c[(A + j) + k]
  BY <1>1, <1>3
<1>5. (A + j) + n < Len(c) => j + n + 1 \in 1..B /\ A + (j + n + 1) = (A + j) + n + 1 /\ j + n < B
  BY <1>1, <1>2 DEF B
<1>6. Tools(c, A + j, n)
  <2>1. n \in 0..(Len(c) - (A + j))
    BY <1>1, <1>2
  <2>2. \A k \in 1..n : c[(A + j) + k].role = "tool"
    BY <1>2, <1>4 DEF Tools
  <2>3. (A + j) + n < Len(c) => c[(A + j) + n + 1].role # "tool"
    BY <1>1, <1>2, <1>5 DEF Tools, B
  <2> QED
    BY <2>1, <2>2, <2>3 DEF Tools
<1>7. A + j \in 0..Len(c)
  BY <1>1, <1>2
<1>8. Results(c, A + j) = Results(b, j)
  BY <1>1, <1>2, <1>4, <1>6, <1>7, SameResults DEF n, B
<1> QED
  BY <1>8 DEF A, c

\* No tool message comes first.
Starts(ms) == ms # <<>> => ms[1].role # "tool"

(* Neither does what is put after, unless a tool message comes first.      *)
LEMMA ResultsLeft ==
    ASSUME NEW a \in Seq(Msg), NEW b \in Seq(Msg), Starts(b), NEW i \in 1..Len(a)
    PROVE  Results(a \o b, i) = Results(a, i)
<1> DEFINE c == a \o b
           n == Len(Results(a, i))
           A == Len(a)
           B == Len(b)
<1>1. /\ c \in Seq(Msg) /\ A \in Nat /\ B \in Nat /\ Len(c) = A + B
      /\ (\A k \in 1..A : c[k] = a[k]) /\ (\A k \in 1..B : c[A + k] = b[k])
  BY ConcatFacts
<1>2. n \in 0..(A - i) /\ Tools(a, i, n) /\ i \in 0..A
  BY ResultsRun
<1>3. B # 0 => b[1].role # "tool"
  BY DEF Starts
<1> HIDE DEF c, n, A, B
<1>4. \A k \in 1..n : i + k \in 1..A
  BY <1>1, <1>2
<1>5. \A k \in 1..n : a[i + k] = c[i + k]
  BY <1>1, <1>4
<1>6. Tools(c, i, n)
  <2>1. n \in 0..(Len(c) - i)
    BY <1>1, <1>2
  <2>2. \A k \in 1..n : c[i + k].role = "tool"
    BY <1>2, <1>5 DEF Tools
  <2>3. ASSUME i + n < Len(c) PROVE c[i + n + 1].role # "tool"
    <3>1. CASE i + n < A
      <4>1. i + n + 1 \in 1..A
        BY <1>1, <1>2, <3>1
      <4> QED
        BY <1>1, <1>2, <3>1, <4>1 DEF Tools, A
    <3>2. CASE ~(i + n < A)
      <4>1. i + n = A /\ 1 \in 1..B /\ i + n + 1 = A + 1 /\ B # 0
        BY <1>1, <1>2, <2>3, <3>2
      <4> QED
        BY <1>1, <1>3, <4>1
    <3> QED
      BY <3>1, <3>2
  <2> QED
    BY <2>1, <2>2, <2>3 DEF Tools
<1>7. i \in 0..Len(c)
  BY <1>1, <1>2
<1>8. Results(c, i) = Results(a, i)
  BY <1>1, <1>2, <1>5, <1>6, <1>7, SameResults DEF n, A
<1> QED
  BY <1>8 DEF c

-----------------------------------------------------------------------------
(* What a normalised request looks like *)

\* The calls are answered in order, and their arguments parse.
PairedWith(calls, results) ==
    /\ Len(results) = Len(calls)
    /\ \A k \in DOMAIN calls :
        /\ results[k].id = calls[k].id /\ results[k].name = calls[k].name
        /\ calls[k].args # CutShort

Paired(ms) ==
    \A i \in DOMAIN ms :
        ~IsOrphan(ms, i) /\ (IsHead(ms, i) => PairedWith(ms[i].calls, Results(ms, i)))

TruthfulWith(calls, results) ==
    \A k \in DOMAIN calls \cap DOMAIN results : results[k].of \in {calls[k].of, Interrupted}

Truthful(ms) ==
    \A i \in DOMAIN ms : IsHead(ms, i) => TruthfulWith(ms[i].calls, Results(ms, i))

(* A message is at a place of a or at a place of b.                        *)
LEMMA ConcatPlace ==
    ASSUME NEW a \in Seq(Msg), NEW b \in Seq(Msg), NEW i \in DOMAIN (a \o b)
    PROVE  i \in 1..Len(a) \/ \E j \in 1..Len(b) : i = Len(a) + j
<1>1. Len(a) \in Nat /\ Len(b) \in Nat /\ i \in 1..(Len(a) + Len(b))
  BY ConcatFacts
<1>2. CASE i > Len(a)
  <2>1. i - Len(a) \in 1..Len(b) /\ i = Len(a) + (i - Len(a))
    BY <1>1, <1>2
  <2> QED
    BY <2>1
<1> QED
  BY <1>1, <1>2

(* A head in a or in b is a head of both, with the same results.           *)
LEMMA ConcatHeads ==
    ASSUME NEW a \in Seq(Msg), NEW b \in Seq(Msg), Starts(b)
    PROVE  /\ \A i \in 1..Len(a) :
                /\ (a \o b)[i] = a[i] /\ Results(a \o b, i) = Results(a, i)
                /\ IsHead(a \o b, i) <=> IsHead(a, i)
           /\ \A j \in 1..Len(b) :
                /\ (a \o b)[Len(a) + j] = b[j] /\ Results(a \o b, Len(a) + j) = Results(b, j)
                /\ IsHead(a \o b, Len(a) + j) <=> IsHead(b, j)
<1>1. \A i \in 1..Len(a) : (a \o b)[i] = a[i] /\ Results(a \o b, i) = Results(a, i)
  BY ConcatFacts, ResultsLeft
<1>2. \A j \in 1..Len(b) :
        (a \o b)[Len(a) + j] = b[j] /\ Results(a \o b, Len(a) + j) = Results(b, j)
  BY ConcatFacts, ResultsRight
<1> QED
  BY <1>1, <1>2 DEF IsHead

(* A tool message is no orphan when it is among the results of a head.     *)
LEMMA NoOrphan ==
    ASSUME NEW ms \in Seq(Msg), NEW j \in 1..Len(ms), ms[j].role = "tool"
    PROVE  ~IsOrphan(ms, j) <=>
                \E i \in 1..(j - 1) : IsHead(ms, i) /\ j <= i + Len(Results(ms, i))
<1>1. \A i \in 1..(j - 1) : i \in 0..Len(ms) /\ i \in Nat
  OBVIOUS
<1>2. \A i \in 1..(j - 1) : Len(Results(ms, i)) \in Nat
  BY <1>1, ResultsRun
<1>3. \A i \in 1..(j - 1) : j > i + Len(Results(ms, i)) <=> ~(j <= i + Len(Results(ms, i)))
  BY <1>1, <1>2
<1> QED
  BY <1>3 DEF IsOrphan

(* Paired sequences put together are paired.                               *)
LEMMA ConcatPaired ==
    ASSUME NEW a \in Seq(Msg), NEW b \in Seq(Msg), Starts(b), Paired(a), Paired(b)
    PROVE  Paired(a \o b)
<1> DEFINE c == a \o b
           A == Len(a)
<1>1. c \in Seq(Msg) /\ A \in Nat /\ Len(b) \in Nat /\ Len(c) = A + Len(b)
  BY ConcatFacts
<1>2. ASSUME NEW i \in 1..A
      PROVE  ~IsOrphan(c, i) /\ (IsHead(c, i) => PairedWith(c[i].calls, Results(c, i)))
  <2>1. c[i] = a[i] /\ Results(c, i) = Results(a, i) /\ (IsHead(c, i) <=> IsHead(a, i))
    BY ConcatHeads
  <2>2. ~IsOrphan(a, i) /\ (IsHead(a, i) => PairedWith(a[i].calls, Results(a, i)))
    BY DEF Paired
  <2>3. ASSUME c[i].role = "tool" PROVE ~IsOrphan(c, i)
    <3>1. PICK h \in 1..(i - 1) : IsHead(a, h) /\ i <= h + Len(Results(a, h))
      BY <2>1, <2>2, <2>3, NoOrphan
    <3>2. h \in 1..A /\ i \in 1..Len(c)
      BY <1>1
    <3>3. IsHead(c, h) /\ Results(c, h) = Results(a, h)
      BY <3>1, <3>2, ConcatHeads
    <3> HIDE DEF c, A
    <3> QED
      BY <1>1, <2>3, <3>1, <3>2, <3>3, NoOrphan
  <2>4. c[i].role # "tool" => ~IsOrphan(c, i)
    BY DEF IsOrphan
  <2> HIDE DEF c, A
  <2> QED
    BY <2>1, <2>2, <2>3, <2>4
<1>3. ASSUME NEW j \in 1..Len(b)
      PROVE  /\ ~IsOrphan(c, A + j)
             /\ IsHead(c, A + j) => PairedWith(c[A + j].calls, Results(c, A + j))
  <2>1. /\ c[A + j] = b[j] /\ Results(c, A + j) = Results(b, j)
        /\ IsHead(c, A + j) <=> IsHead(b, j)
    BY ConcatHeads
  <2>2. ~IsOrphan(b, j) /\ (IsHead(b, j) => PairedWith(b[j].calls, Results(b, j)))
    BY DEF Paired
  <2>3. ASSUME c[A + j].role = "tool" PROVE ~IsOrphan(c, A + j)
    <3>1. PICK h \in 1..(j - 1) : IsHead(b, h) /\ j <= h + Len(Results(b, h))
      BY <2>1, <2>2, <2>3, NoOrphan
    <3>2. h \in 1..Len(b) /\ A + j \in 1..Len(c) /\ A + h \in 1..((A + j) - 1) /\ h \in 0..Len(b)
      BY <1>1
    <3>3. IsHead(c, A + h) /\ Results(c, A + h) = Results(b, h)
      BY <3>1, <3>2, ConcatHeads
    <3>4. Len(Results(b, h)) \in Nat
      BY <3>2, ResultsRun
    <3> HIDE DEF c, A
    <3>5. A + j <= (A + h) + Len(Results(c, A + h))
      BY <1>1, <3>1, <3>2, <3>3, <3>4
    <3> QED
      BY <1>1, <2>3, <3>2, <3>3, <3>5, NoOrphan
  <2>4. c[A + j].role # "tool" => ~IsOrphan(c, A + j)
    BY DEF IsOrphan
  <2> HIDE DEF c, A
  <2> QED
    BY <2>1, <2>2, <2>3, <2>4
<1>4. ASSUME NEW i \in DOMAIN c PROVE i \in 1..A \/ \E j \in 1..Len(b) : i = A + j
  BY ConcatPlace
<1> HIDE DEF c, A
<1>5. Paired(c)
  BY <1>2, <1>3, <1>4 DEF Paired
<1> QED
  BY <1>5 DEF c

(* And truthful ones are truthful.                                         *)
LEMMA ConcatTruthful ==
    ASSUME NEW a \in Seq(Msg), NEW b \in Seq(Msg), Starts(b), Truthful(a), Truthful(b)
    PROVE  Truthful(a \o b)
<1> DEFINE c == a \o b
           A == Len(a)
           OK(i) == IsHead(c, i) => TruthfulWith(c[i].calls, Results(c, i))
<1>1. ASSUME NEW i \in 1..A PROVE OK(i)
  <2>1. c[i] = a[i] /\ Results(c, i) = Results(a, i) /\ (IsHead(c, i) <=> IsHead(a, i))
    BY ConcatHeads
  <2>2. IsHead(a, i) => TruthfulWith(a[i].calls, Results(a, i))
    BY DEF Truthful
  <2> HIDE DEF c
  <2> QED
    BY <2>1, <2>2
<1>2. ASSUME NEW j \in 1..Len(b) PROVE OK(A + j)
  <2>1. /\ c[A + j] = b[j] /\ Results(c, A + j) = Results(b, j)
        /\ IsHead(c, A + j) <=> IsHead(b, j)
    BY ConcatHeads
  <2>2. IsHead(b, j) => TruthfulWith(b[j].calls, Results(b, j))
    BY DEF Truthful
  <2> HIDE DEF c, A
  <2> QED
    BY <2>1, <2>2
<1>3. ASSUME NEW i \in DOMAIN c PROVE i \in 1..A \/ \E j \in 1..Len(b) : i = A + j
  BY ConcatPlace
<1> HIDE DEF c, A
<1>4. Truthful(c)
  BY <1>1, <1>2, <1>3 DEF Truthful
<1> QED
  BY <1>4 DEF c

-----------------------------------------------------------------------------
(* Calls and their results *)

(* byID finds the last result with the id of the call, if there is one.    *)
LEMMA ResultAtFacts ==
    ASSUME NEW calls \in Seq(Call), NEW results \in Seq(Msg), NEW k \in DOMAIN calls,
           NEW K \in SUBSET DOMAIN results
    PROVE  LET l == ResultAt(calls, results, k, K)
           IN  /\ l = 0 \/ l \in DOMAIN results
               /\ idDistinct(calls) /\ l # 0 => l \in K /\ results[l].id = calls[k].id
               /\ idDistinct(calls) /\ l = 0 => \A m \in K : results[m].id # calls[k].id
               /\ ~idDistinct(calls) => l = IF k \in DOMAIN results THEN k ELSE 0
<1> DEFINE L == {l \in K : results[l].id = calls[k].id}
           l == ResultAt(calls, results, k, K)
<1>1. DOMAIN results = 1..Len(results) /\ Len(results) \in Nat
  OBVIOUS
<1>2. CASE idDistinct(calls)
  <2>1. l = IF L = {} THEN 0 ELSE CHOOSE x \in L : \A y \in L : x >= y
    BY <1>2 DEF ResultAt, Max
  <2>2. L \in SUBSET (1..Len(results))
    BY <1>1
  <2> HIDE DEF l
  <2>3. L = {} => l = 0
    BY <2>1
  <2>4. L # {} => l \in L
    <3> HIDE DEF L
    <3>1. L # {} => \E x \in L : \A y \in L : x >= y
      BY <1>1, <2>2, Greatest
    <3> QED
      BY <2>1, <3>1
  <2>5. l \in L => l # 0
    BY <1>1, <2>2
  <2>6. /\ l = 0 \/ l \in DOMAIN results
        /\ l # 0 => l \in K /\ results[l].id = calls[k].id
        /\ l = 0 => \A m \in K : results[m].id # calls[k].id
    BY <1>1, <2>2, <2>3, <2>4, <2>5
  <2> QED
    BY <1>2, <2>6 DEF l
<1>3. CASE ~idDistinct(calls)
  BY <1>1, <1>3 DEF ResultAt
<1> QED
  BY <1>2, <1>3

(* A named call: nothing but its name changes.                             *)
LEMMA BackfillFacts ==
    ASSUME NEW calls \in Seq(Call), NEW results \in Seq(Msg)
    PROVE  LET b == backfillToolCallNames(calls, results)
           IN  /\ b \in Seq(Call) /\ Len(b) = Len(calls)
               /\ \A k \in DOMAIN calls : b[k].id = calls[k].id /\ b[k].of = calls[k].of
<1> DEFINE b == backfillToolCallNames(calls, results)
           K == {l \in DOMAIN results : results[l].name # ""}
           l(k) == ResultAt(calls, results, k, K)
           B(k) == IF calls[k].name = "" /\ l(k) # 0
                   THEN [calls[k] EXCEPT !.name = results[l(k)].name] ELSE calls[k]
<1>1. b = [k \in DOMAIN calls |-> B(k)]
  BY DEF backfillToolCallNames
<1>2. DOMAIN calls = 1..Len(calls) /\ Len(calls) \in Nat
  OBVIOUS
<1>3. ASSUME NEW k \in DOMAIN calls
      PROVE  B(k) \in Call /\ B(k).id = calls[k].id /\ B(k).of = calls[k].of
  <2>1. calls[k] \in Call
    OBVIOUS
  <2>2. l(k) = 0 \/ l(k) \in DOMAIN results
    <3>1. K \in SUBSET DOMAIN results
      OBVIOUS
    <3> HIDE DEF K
    <3> QED
      BY <3>1, ResultAtFacts
  <2> HIDE DEF l
  <2>3. l(k) # 0 => results[l(k)] \in Msg
    BY <2>2
  <2>4. l(k) # 0 => results[l(k)].name \in {"", "tool"}
    BY <2>3 DEF Msg
  <2> QED
    BY <2>1, <2>4 DEF Call
<1> HIDE DEF b, B
<1>4. b \in Seq(Call) /\ Len(b) = Len(calls)
  BY <1>1, <1>2, <1>3
<1>5. \A k \in DOMAIN calls : b[k].id = calls[k].id /\ b[k].of = calls[k].of
  BY <1>1, <1>3
<1> QED
  BY <1>4, <1>5 DEF b

(* Repaired calls parse, and are otherwise what they were.                 *)
LEMMA RepairFacts ==
    ASSUME NEW calls \in Seq(Call)
    PROVE  LET r == repairToolCallArgs(calls)
           IN  /\ r \in Seq(Call) /\ Len(r) = Len(calls)
               /\ \A k \in DOMAIN calls :
                    /\ r[k].id = calls[k].id /\ r[k].name = calls[k].name
                    /\ r[k].of = calls[k].of /\ r[k].args # CutShort
<1> DEFINE r == repairToolCallArgs(calls)
           R(k) == IF calls[k].args = CutShort THEN [calls[k] EXCEPT !.args = Closed] ELSE calls[k]
<1>1. r = [k \in DOMAIN calls |-> R(k)]
  BY DEF repairToolCallArgs
<1>2. DOMAIN calls = 1..Len(calls) /\ Len(calls) \in Nat
  OBVIOUS
<1>3. ASSUME NEW k \in DOMAIN calls
      PROVE  /\ R(k) \in Call /\ R(k).id = calls[k].id /\ R(k).name = calls[k].name
             /\ R(k).of = calls[k].of /\ R(k).args # CutShort
  <2>1. calls[k] \in Call
    OBVIOUS
  <2>2. Closed \in None..Closed /\ Closed # CutShort
    BY DEF CutShort, Closed, None
  <2>3. CASE calls[k].args = CutShort
    <3>1. R(k) = [calls[k] EXCEPT !.args = Closed]
      BY <2>3
    <3> HIDE DEF R
    <3> QED
      BY <2>1, <2>2, <3>1 DEF Call
  <2>4. CASE calls[k].args # CutShort
    BY <2>1, <2>4
  <2> QED
    BY <2>3, <2>4
<1> HIDE DEF r, R
<1>4. r \in Seq(Call) /\ Len(r) = Len(calls)
  BY <1>1, <1>2, <1>3
<1>5. \A k \in DOMAIN calls :
        /\ r[k].id = calls[k].id /\ r[k].name = calls[k].name
        /\ r[k].of = calls[k].of /\ r[k].args # CutShort
  BY <1>1, <1>3
<1> QED
  BY <1>4, <1>5 DEF r

(* Messages with the same fields are the same.                             *)
LEMMA MsgEqual ==
    ASSUME NEW a \in Msg, NEW b \in Msg, a.role = b.role, a.calls = b.calls, a.id = b.id,
           a.name = b.name, a.of = b.of
    PROVE  a = b
<1> DEFINE R == {"system", "user", "assistant", "tool"}
           C == Seq(Call)
           I == Ids \cup {""}
           N == {"", "tool"}
           O == Of \cup {Interrupted}
<1>1. Msg = [role : R, calls : C, id : I, name : N, of : O]
  BY DEF Msg
<1> HIDE DEF R, C, I, N, O
<1> QED
  BY <1>1, SMT

(* A message made from calls is a message.                                 *)
LEMMA MessageTypes ==
    ASSUME NEW role \in {"system", "user", "assistant", "tool"}, NEW calls \in Seq(Call)
    PROVE  /\ Message(role, calls) \in Msg
           /\ Message(role, calls).role = role /\ Message(role, calls).calls = calls
           /\ Message(role, calls).of = Interrupted
<1>1. "" \in Ids \cup {""} /\ "" \in {"", "tool"} /\ Interrupted \in Of \cup {Interrupted}
  OBVIOUS
<1> QED
  BY <1>1 DEF Message, Msg

\* The message of call k in pairToolResults.
Answer(calls, avail, k) ==
    LET l == ResultAt(calls, avail, k, DOMAIN avail)
    IN  IF l = 0 THEN Message("tool", <<>>) ELSE avail[l]

(* One result for each call, under its id and its name.                    *)
LEMMA PairFacts ==
    ASSUME NEW calls \in Seq(Call), NEW avail \in Seq(Msg),
           \A l \in DOMAIN avail : avail[l].role = "tool"
    PROVE  LET p == pairToolResults(calls, avail)
           IN  /\ p \in Seq(Msg) /\ Len(p) = Len(calls)
               /\ \A k \in DOMAIN calls :
                    /\ p[k].id = calls[k].id /\ p[k].name = calls[k].name
                    /\ p[k].role = "tool" /\ p[k].of = Answer(calls, avail, k).of
                    /\ p[k].calls = Answer(calls, avail, k).calls
<1> DEFINE p == pairToolResults(calls, avail)
           P(k) == [Answer(calls, avail, k) EXCEPT !.id = calls[k].id, !.name = calls[k].name]
<1>1. p = [k \in DOMAIN calls |-> P(k)]
  BY DEF pairToolResults, Answer
<1>2. DOMAIN calls = 1..Len(calls) /\ Len(calls) \in Nat
  OBVIOUS
<1>3. ASSUME NEW k \in DOMAIN calls
      PROVE  /\ P(k) \in Msg /\ P(k).id = calls[k].id /\ P(k).name = calls[k].name
             /\ P(k).role = "tool" /\ P(k).of = Answer(calls, avail, k).of
             /\ P(k).calls = Answer(calls, avail, k).calls
  <2>1. calls[k] \in Call
    OBVIOUS
  <2> DEFINE l == ResultAt(calls, avail, k, DOMAIN avail)
             m == Answer(calls, avail, k)
  <2>2. l = 0 \/ l \in DOMAIN avail
    BY ResultAtFacts
  <2>3. m = IF l = 0 THEN Message("tool", <<>>) ELSE avail[l]
    BY DEF Answer
  <2> HIDE DEF l, m
  <2>4. Message("tool", <<>>) \in Msg /\ Message("tool", <<>>).role = "tool"
    <3>1. <<>> \in Seq(Call) /\ "tool" \in {"system", "user", "assistant", "tool"}
      OBVIOUS
    <3> QED
      BY <3>1, MessageTypes, Zenon
  <2>5. m \in Msg /\ m.role = "tool"
    BY <2>2, <2>3, <2>4
  <2> QED
    BY <2>1, <2>5 DEF m, Msg, Call
<1> HIDE DEF p, P
<1>4. p \in Seq(Msg) /\ Len(p) = Len(calls)
  BY <1>1, <1>2, <1>3
<1>5. \A k \in DOMAIN calls :
        /\ p[k].id = calls[k].id /\ p[k].name = calls[k].name
        /\ p[k].role = "tool" /\ p[k].of = Answer(calls, avail, k).of
        /\ p[k].calls = Answer(calls, avail, k).calls
  BY <1>1, <1>3
<1> QED
  BY <1>4, <1>5 DEF p

(* Paired calls stay as they are: names, arguments and results.            *)
LEMMA PairedStays ==
    ASSUME NEW calls \in Seq(Call), NEW results \in Seq(Msg), PairedWith(calls, results),
           \A l \in DOMAIN results : results[l].role = "tool"
    PROVE  /\ backfillToolCallNames(calls, results) = calls
           /\ repairToolCallArgs(calls) = calls
           /\ pairToolResults(calls, results) = results
<1>1. /\ DOMAIN calls = 1..Len(calls) /\ DOMAIN results = 1..Len(calls) /\ Len(calls) \in Nat
      /\ Len(results) = Len(calls)
  BY DEF PairedWith
<1>2. \A k \in DOMAIN calls :
        /\ results[k].id = calls[k].id /\ results[k].name = calls[k].name
        /\ calls[k].args # CutShort
  BY DEF PairedWith
<1>3. \A k \in DOMAIN calls : calls[k] \in Call /\ results[k] \in Msg
  BY <1>1
<1>4. ASSUME NEW k \in DOMAIN calls, NEW l \in DOMAIN results, idDistinct(calls),
             results[l].id = calls[k].id
      PROVE  l = k
  <2>1. l \in DOMAIN calls /\ calls[l].id = calls[k].id
    BY <1>1, <1>2, <1>4
  <2> QED
    BY <1>4, <2>1 DEF idDistinct
<1>5. backfillToolCallNames(calls, results) = calls
  <2> DEFINE K == {l \in DOMAIN results : results[l].name # ""}
             l(k) == ResultAt(calls, results, k, K)
             B(k) == IF calls[k].name = "" /\ l(k) # 0
                     THEN [calls[k] EXCEPT !.name = results[l(k)].name] ELSE calls[k]
  <2>1. backfillToolCallNames(calls, results) = [k \in DOMAIN calls |-> B(k)]
    BY DEF backfillToolCallNames
  <2>2. ASSUME NEW k \in DOMAIN calls, calls[k].name = "", l(k) # 0
        PROVE  [calls[k] EXCEPT !.name = results[l(k)].name] = calls[k]
    <3>1. K \in SUBSET DOMAIN results /\ k \in DOMAIN results
      BY <1>1
    <3>2. /\ idDistinct(calls) /\ l(k) # 0 => l(k) \in K /\ results[l(k)].id = calls[k].id
          /\ ~idDistinct(calls) => l(k) = k
      <4> HIDE DEF K
      <4> QED
        BY <3>1, ResultAtFacts
    <3>3. K \subseteq DOMAIN results
      OBVIOUS
    <3> HIDE DEF l
    <3>4. l(k) = k
      BY <1>4, <2>2, <3>2, <3>3
    <3>5. results[l(k)].name = calls[k].name
      BY <1>2, <3>4
    <3> QED
      BY <1>3, <3>5 DEF Call
  <2>3. \A k \in DOMAIN calls : B(k) = calls[k]
    <3> HIDE DEF l
    <3> QED
      BY <2>2
  <2> HIDE DEF B
  <2> QED
    BY <2>1, <2>3
<1>6. repairToolCallArgs(calls) = calls
  BY <1>2 DEF repairToolCallArgs
<1>7. pairToolResults(calls, results) = results
  <2> DEFINE p == pairToolResults(calls, results)
  <2>1. /\ p \in Seq(Msg) /\ Len(p) = Len(calls)
        /\ \A k \in DOMAIN calls :
            /\ p[k].id = calls[k].id /\ p[k].name = calls[k].name /\ p[k].role = "tool"
            /\ p[k].of = Answer(calls, results, k).of
            /\ p[k].calls = Answer(calls, results, k).calls
    BY PairFacts
  <2> HIDE DEF p
  <2>2. ASSUME NEW k \in DOMAIN calls PROVE p[k] = results[k]
    <3> DEFINE l == ResultAt(calls, results, k, DOMAIN results)
    <3>1. k \in DOMAIN results
      BY <1>1
    <3>2. /\ idDistinct(calls) /\ l # 0 => l \in DOMAIN results /\ results[l].id = calls[k].id
          /\ idDistinct(calls) /\ l = 0 => \A m \in DOMAIN results : results[m].id # calls[k].id
          /\ ~idDistinct(calls) => l = k
      BY <3>1, ResultAtFacts
    <3>3. Answer(calls, results, k) = IF l = 0 THEN Message("tool", <<>>) ELSE results[l]
      BY DEF Answer
    <3> HIDE DEF l
    <3>4. l = k
      BY <1>2, <1>4, <3>1, <3>2
    <3>5. Answer(calls, results, k) = results[k]
      BY <1>1, <3>3, <3>4
    <3>6. p[k] \in Msg /\ results[k] \in Msg /\ results[k].role = "tool"
      BY <1>1, <1>3, <2>1
    <3>7. /\ p[k].id = results[k].id /\ p[k].name = results[k].name /\ p[k].role = "tool"
          /\ p[k].of = results[k].of /\ p[k].calls = results[k].calls
      BY <1>2, <2>1, <3>5
    <3> QED
      BY <3>6, <3>7, MsgEqual
  <2>3. p = results
    BY <1>1, <2>1, <2>2, SeqEqual
  <2> QED
    BY <2>3 DEF p
<1> QED
  BY <1>5, <1>6, <1>7

\* The results are those of the calls, in order.
Answered(calls, results) ==
    /\ Len(results) = Len(calls)
    /\ \A k \in DOMAIN calls : results[k].id = calls[k].id /\ results[k].of = calls[k].of

(* By id or by position, a call gets the result of its own run.            *)
LEMMA AnswerOwn ==
    ASSUME NEW calls \in Seq(Call), NEW results \in Seq(Msg), Answered(calls, results),
           NEW k \in DOMAIN calls
    PROVE  Answer(calls, results, k).of = calls[k].of
<1> DEFINE l == ResultAt(calls, results, k, DOMAIN results)
<1>1. DOMAIN calls = 1..Len(calls) /\ DOMAIN results = DOMAIN calls /\ k # 0
  BY DEF Answered
<1>2. /\ idDistinct(calls) /\ l # 0 => l \in DOMAIN results /\ results[l].id = calls[k].id
      /\ idDistinct(calls) /\ l = 0 => \A m \in DOMAIN results : results[m].id # calls[k].id
      /\ ~idDistinct(calls) => l = k
  BY <1>1, ResultAtFacts
<1>3. Answer(calls, results, k) = IF l = 0 THEN Message("tool", <<>>) ELSE results[l]
  BY DEF Answer
<1> HIDE DEF l
<1>4. \A m \in DOMAIN calls : results[m].id = calls[m].id /\ results[m].of = calls[m].of
  BY DEF Answered
<1>5. idDistinct(calls) => l = k
  <2>1. idDistinct(calls) => \A m \in DOMAIN calls : calls[m].id = calls[k].id => m = k
    BY DEF idDistinct
  <2> QED
    BY <1>1, <1>2, <1>4, <2>1
<1> QED
  BY <1>1, <1>2, <1>3, <1>4, <1>5

(* A call without a result gets the one of no call.                        *)
LEMMA AnswerNone ==
    ASSUME NEW calls \in Seq(Call), NEW k \in DOMAIN calls
    PROVE  Answer(calls, <<>>, k).of = Interrupted
<1> DEFINE r == <<>>
<1>0. r \in Seq(Msg)
  OBVIOUS
<1>1. DOMAIN r = {}
  OBVIOUS
<1> HIDE DEF r
<1>2. ResultAt(calls, r, k, DOMAIN r) = 0
  <2> DEFINE K == DOMAIN r
  <2>1. K \in SUBSET DOMAIN r
    OBVIOUS
  <2> HIDE DEF K
  <2>2. ResultAt(calls, r, k, K) = 0 \/ ResultAt(calls, r, k, K) \in DOMAIN r
    BY <1>0, <2>1, ResultAtFacts
  <2> QED
    BY <1>1, <2>2 DEF K
<1>3. Answer(calls, r, k).of = Interrupted
  BY <1>2 DEF Answer, Message
<1> QED
  BY <1>3 DEF r

-----------------------------------------------------------------------------
(* What a round of the slow path appends *)

(* A message and the tool messages after it.                               *)
LEMMA BlockFacts ==
    ASSUME NEW h \in Msg, NEW p \in Seq(Msg), \A k \in DOMAIN p : p[k].role = "tool"
    PROVE  LET c == <<h>> \o p
           IN  /\ c \in Seq(Msg) /\ Len(c) = 1 + Len(p) /\ c[1] = h
               /\ \A k \in DOMAIN p : c[1 + k] = p[k]
               /\ Results(c, 1) = p
<1> DEFINE a == <<h>>
           c == a \o p
<1>1. a \in Seq(Msg) /\ Len(a) = 1 /\ a[1] = h /\ DOMAIN p = 1..Len(p)
  OBVIOUS
<1> HIDE DEF a
<1>2. /\ c \in Seq(Msg) /\ Len(p) \in Nat /\ Len(c) = 1 + Len(p) /\ c[1] = h
      /\ \A k \in DOMAIN p : c[1 + k] = p[k]
  <2>1. 1 \in 1..Len(a)
    BY <1>1
  <2>2. /\ c \in Seq(Msg) /\ Len(p) \in Nat /\ Len(c) = Len(a) + Len(p)
        /\ \A k \in 1..Len(a) : c[k] = a[k]
        /\ \A k \in 1..Len(p) : c[Len(a) + k] = p[k]
    BY <1>1, ConcatFacts
  <2> HIDE DEF c
  <2> QED
    BY <1>1, <2>1, <2>2
<1> HIDE DEF c
<1>3. Tools(c, 1, Len(p))
  BY <1>1, <1>2 DEF Tools
<1>4. 1 \in 0..Len(c)
  BY <1>2
<1>5. Len(Results(c, 1)) = Len(p)
  BY <1>2, <1>3, <1>4, ResultsAre
<1>6. Results(c, 1) \in Seq(Msg) /\ \A k \in 1..Len(p) : Results(c, 1)[k] = c[1 + k]
  BY <1>2, <1>4, <1>5, ResultsRun
<1>7. Results(c, 1) = p
  BY <1>1, <1>2, <1>5, <1>6, SeqEqual
<1> QED
  BY <1>2, <1>7 DEF c, a

(* Such a block is paired when its calls are, and truthful when they are.  *)
LEMMA BlockPaired ==
    ASSUME NEW h \in Msg, NEW p \in Seq(Msg), \A k \in DOMAIN p : p[k].role = "tool",
           h.role # "tool", p # <<>> => h.role = "assistant" /\ h.calls # <<>>
    PROVE  LET c == <<h>> \o p
           IN  /\ Starts(c)
               /\ (h.calls # <<>> => PairedWith(h.calls, p)) => Paired(c)
               /\ TruthfulWith(h.calls, p) => Truthful(c)
<1> DEFINE c == <<h>> \o p
<1>1. /\ c \in Seq(Msg) /\ Len(c) = 1 + Len(p) /\ c[1] = h /\ Len(p) \in Nat
      /\ (\A k \in DOMAIN p : c[1 + k] = p[k]) /\ Results(c, 1) = p
  BY BlockFacts
<1> HIDE DEF c
<1>2. ASSUME NEW j \in DOMAIN c, j # 1
      PROVE  c[j].role = "tool" /\ ~IsOrphan(c, j)
  <2>1. j \in 1..Len(c) /\ j - 1 \in DOMAIN p /\ 1 + (j - 1) = j /\ 1 \in 1..(j - 1) /\ p # <<>>
    BY <1>1, <1>2
  <2>2. c[j].role = "tool"
    BY <1>1, <2>1
  <2>3. IsHead(c, 1) /\ j <= 1 + Len(Results(c, 1))
    BY <1>1, <2>1 DEF IsHead
  <2> QED
    BY <1>1, <2>1, <2>2, <2>3, NoOrphan
<1>3. ~IsOrphan(c, 1)
  BY <1>1 DEF IsOrphan
<1>4. \A j \in DOMAIN c : IsHead(c, j) => j = 1 /\ h.calls # <<>>
  BY <1>1, <1>2 DEF IsHead
<1>5. Starts(c)
  BY <1>1 DEF Starts
<1>6. (h.calls # <<>> => PairedWith(h.calls, p)) => Paired(c)
  BY <1>1, <1>2, <1>3, <1>4 DEF Paired
<1>7. TruthfulWith(h.calls, p) => Truthful(c)
  BY <1>1, <1>4 DEF Truthful
<1> QED
  BY <1>5, <1>6, <1>7 DEF c

\* What becomes of a head, and its results.
HeadCalls(ms, i) == backfillToolCallNames(ms[i].calls, Results(ms, i))
NewHead(ms, i) == [ms[i] EXCEPT !.calls = repairToolCallArgs(HeadCalls(ms, i))]
NewResults(ms, i) == pairToolResults(HeadCalls(ms, i), Results(ms, i))

(* The new head has calls that parse, as many as before, of the same runs; *)
(* its results have their ids and names.                                   *)
LEMMA HeadFacts ==
    ASSUME NEW ms \in Seq(Msg), NEW i \in DOMAIN ms, IsHead(ms, i)
    PROVE  /\ Piece(ms, i) = <<NewHead(ms, i)>> \o NewResults(ms, i)
           /\ NewHead(ms, i) \in Msg /\ NewHead(ms, i).role = "assistant"
           /\ NewHead(ms, i).calls # <<>>
           /\ Len(NewHead(ms, i).calls) = Len(ms[i].calls)
           /\ \A k \in DOMAIN ms[i].calls : NewHead(ms, i).calls[k].of = ms[i].calls[k].of
           /\ NewResults(ms, i) \in Seq(Msg)
           /\ \A k \in DOMAIN NewResults(ms, i) : NewResults(ms, i)[k].role = "tool"
           /\ PairedWith(NewHead(ms, i).calls, NewResults(ms, i))
<1> DEFINE calls == ms[i].calls
           rs == Results(ms, i)
           b == HeadCalls(ms, i)
           r == repairToolCallArgs(b)
           h == NewHead(ms, i)
           p == NewResults(ms, i)
<1>1. ms[i] \in Msg /\ ms[i].role = "assistant" /\ calls # <<>> /\ i \in 0..Len(ms)
  BY DEF IsHead
<1>2. calls \in Seq(Call)
  BY <1>1 DEF Msg
<1>3. rs \in Seq(Msg) /\ \A k \in DOMAIN rs : rs[k].role = "tool"
  BY <1>1, ToolRole
<1>4. Piece(ms, i) = <<h>> \o p
  BY DEF Piece, NewHead, NewResults, HeadCalls
<1>5. h = [ms[i] EXCEPT !.calls = r] /\ p = pairToolResults(b, rs) /\ b = backfillToolCallNames(calls, rs)
  BY DEF NewHead, NewResults, HeadCalls
<1> HIDE DEF calls, rs, b, h, p
<1>6. /\ b \in Seq(Call) /\ Len(b) = Len(calls)
      /\ \A k \in DOMAIN calls : b[k].id = calls[k].id /\ b[k].of = calls[k].of
  BY <1>2, <1>3, <1>5, BackfillFacts
<1>7. /\ r \in Seq(Call) /\ Len(r) = Len(b)
      /\ \A k \in DOMAIN b :
            /\ r[k].id = b[k].id /\ r[k].name = b[k].name
            /\ r[k].of = b[k].of /\ r[k].args # CutShort
  BY <1>6, RepairFacts
<1> HIDE DEF r
<1>8. /\ p \in Seq(Msg) /\ Len(p) = Len(b)
      /\ \A k \in DOMAIN b : /\ p[k].id = b[k].id /\ p[k].name = b[k].name
                             /\ p[k].role = "tool"
  BY <1>3, <1>5, <1>6, PairFacts
<1>9. h \in Msg /\ h.role = "assistant" /\ h.calls = r
  BY <1>1, <1>5, <1>7 DEF Msg
<1>10. /\ DOMAIN calls = 1..Len(calls) /\ DOMAIN b = 1..Len(calls) /\ DOMAIN r = 1..Len(calls)
       /\ DOMAIN p = 1..Len(calls) /\ Len(calls) # 0
  BY <1>1, <1>2, <1>6, <1>7, <1>8
<1>11. r # <<>> /\ \A k \in DOMAIN calls : r[k].of = calls[k].of
  BY <1>6, <1>7, <1>10
<1>12. PairedWith(r, p)
  BY <1>6, <1>7, <1>8, <1>10 DEF PairedWith
<1>13. \A k \in DOMAIN p : p[k].role = "tool"
  BY <1>8, <1>10
<1> QED
  BY <1>4, <1>6, <1>7, <1>8, <1>9, <1>11, <1>12, <1>13 DEF h, p, calls

(* Every round appends paired messages, none of them a tool message alone. *)
LEMMA PieceFacts ==
    ASSUME NEW ms \in Seq(Msg), NEW i \in DOMAIN ms
    PROVE  Piece(ms, i) \in Seq(Msg) /\ Starts(Piece(ms, i)) /\ Paired(Piece(ms, i))
<1>0. ms[i] \in Msg
  OBVIOUS
<1>1. CASE IsHead(ms, i)
  <2> DEFINE h == NewHead(ms, i)
             p == NewResults(ms, i)
  <2>1. /\ Piece(ms, i) = <<h>> \o p /\ h \in Msg /\ h.role = "assistant" /\ h.calls # <<>>
        /\ p \in Seq(Msg) /\ (\A k \in DOMAIN p : p[k].role = "tool") /\ PairedWith(h.calls, p)
    BY <1>1, HeadFacts
  <2> HIDE DEF h, p
  <2>2. <<h>> \o p \in Seq(Msg)
    BY <2>1, BlockFacts
  <2>3. Starts(<<h>> \o p) /\ Paired(<<h>> \o p)
    BY <2>1, BlockPaired
  <2> QED
    BY <2>1, <2>2, <2>3
<1>2. CASE ~IsHead(ms, i) /\ ms[i].role # "tool"
  <2> DEFINE c == <<ms[i]>>
  <2>1. Piece(ms, i) = c
    BY <1>2 DEF Piece
  <2>2. c \in Seq(Msg) /\ Len(c) = 1 /\ c[1] = ms[i] /\ DOMAIN c = {1}
    BY <1>0
  <2> HIDE DEF c
  <2>3. Starts(c) /\ Paired(c)
    BY <1>2, <2>2 DEF Starts, Paired, IsOrphan, IsHead
  <2> QED
    BY <2>1, <2>2, <2>3
<1>3. CASE ~IsHead(ms, i) /\ ms[i].role = "tool"
  BY <1>3 DEF Piece, Starts, Paired
<1> QED
  BY <1>1, <1>2, <1>3

-----------------------------------------------------------------------------
(* NormalizeMessages on every sequence of messages *)

\* f[i] is what the slow path has appended after message i.
Built(f, ms) ==
    /\ f \in [0..Len(ms) -> Seq(Msg)]
    /\ f[0] = <<>>
    /\ \A i \in 1..Len(ms) : f[i] = f[i - 1] \o Piece(ms, i)
    /\ SlowPath(ms) = f[Len(ms)]

(* The slow path appends piece after piece.                                *)
LEMMA SlowPathBuilt ==
    ASSUME NEW ms \in Seq(Msg)
    PROVE  \E f : Built(f, ms)
<1> DEFINE pp == [i \in DOMAIN ms |-> Piece(ms, i)]
<1>1. DOMAIN ms = 1..Len(ms) /\ Len(ms) \in Nat
  OBVIOUS
<1>2. \A i \in DOMAIN ms : Piece(ms, i) \in Seq(Msg)
  BY PieceFacts
<1>3. pp \in Seq(Seq(Msg)) /\ Len(pp) = Len(ms) /\ \A i \in 1..Len(ms) : pp[i] = Piece(ms, i)
  BY <1>1, <1>2
<1>4. SlowPath(ms) = FlattenSeq(pp)
  BY DEF SlowPath
<1> HIDE DEF pp
<1>5. PICK f : /\ f \in [0..Len(pp) -> Seq(Msg)]
               /\ f[0] = <<>>
               /\ \A i \in 1..Len(pp) : f[i] = f[i - 1] \o pp[i]
               /\ FlattenSeq(pp) = f[Len(pp)]
  BY <1>3, Flatten
<1>6. Built(f, ms)
  BY <1>3, <1>4, <1>5 DEF Built
<1> QED
  BY <1>6

(* So what it returns is paired, whatever it was given.                    *)
LEMMA SlowPathPairs ==
    ASSUME NEW ms \in Seq(Msg)
    PROVE  SlowPath(ms) \in Seq(Msg) /\ Paired(SlowPath(ms))
<1> DEFINE N == Len(ms)
<1>1. PICK f : Built(f, ms)
  BY SlowPathBuilt
<1>2. /\ N \in Nat /\ DOMAIN ms = 1..N /\ f \in [0..N -> Seq(Msg)] /\ f[0] = <<>>
      /\ (\A i \in 1..N : f[i] = f[i - 1] \o Piece(ms, i)) /\ SlowPath(ms) = f[N]
  BY <1>1 DEF Built
<1> HIDE DEF N
<1> DEFINE T == {i \in 0..N : Paired(f[i])}
<1>3. 0 \in T
  <2>1. Paired(<<>>)
    BY DEF Paired
  <2> QED
    BY <1>2, <2>1
<1>4. ASSUME NEW i \in 0..N, i \in T, i < N PROVE i + 1 \in T
  <2>1. i + 1 \in 1..N /\ i + 1 \in 0..N /\ (i + 1) - 1 = i
    BY <1>2, <1>4
  <2>2. f[i] \in Seq(Msg) /\ Paired(f[i]) /\ f[i + 1] = f[i] \o Piece(ms, i + 1)
    BY <1>2, <1>4, <2>1
  <2>3. Piece(ms, i + 1) \in Seq(Msg) /\ Starts(Piece(ms, i + 1)) /\ Paired(Piece(ms, i + 1))
    BY <1>2, <2>1, PieceFacts
  <2>4. Paired(f[i] \o Piece(ms, i + 1))
    BY <2>2, <2>3, ConcatPaired
  <2> QED
    BY <2>1, <2>2, <2>4
<1> HIDE DEF T
<1>5. \A i \in 0..N : i \in T
  BY <1>2, <1>3, <1>4, Induction
<1>6. N \in 0..N
  BY <1>2
<1> QED
  BY <1>2, <1>5, <1>6 DEF T

(* The fast path lets only paired messages through.                        *)
LEMMA FastPathPaired ==
    ASSUME NEW ms \in Seq(Msg), tryFastPath(ms)
    PROVE  Paired(ms)
<1> SUFFICES ASSUME NEW i \in DOMAIN ms
             PROVE  ~IsOrphan(ms, i) /\ (IsHead(ms, i) => PairedWith(ms[i].calls, Results(ms, i)))
  BY DEF Paired
<1>1. /\ ~IsOrphan(ms, i)
      /\ IsHead(ms, i) => /\ toolTurnWellFormed(ms[i].calls, Results(ms, i))
                          /\ ~needsArgRepair(ms[i].calls)
  BY DEF tryFastPath
<1> QED
  BY <1>1 DEF toolTurnWellFormed, needsArgRepair, PairedWith

(* NormalizeMessages returns paired messages for every input: each call    *)
(* has one result of its id and name, no tool message is left over and all *)
(* arguments parse.                                                        *)
THEOREM NormalizePairs ==
    ASSUME NEW ms \in Seq(Msg)
    PROVE  NormalizeMessages(ms) \in Seq(Msg) /\ Paired(NormalizeMessages(ms))
BY SlowPathPairs, FastPathPaired DEF NormalizeMessages

(* In paired messages the tool messages after i are the rest of its block: *)
(* none follows a message that is neither a head nor a tool message.       *)
LEMMA PairedRest ==
    ASSUME NEW ms \in Seq(Msg), Paired(ms), NEW i \in 0..Len(ms),
           i # 0 => ~IsHead(ms, i) /\ ms[i].role # "tool"
    PROVE  Len(Results(ms, i)) = 0
<1>1. /\ Len(Results(ms, i)) \in 0..(Len(ms) - i) /\ Len(ms) \in Nat
      /\ \A k \in 1..Len(Results(ms, i)) : ms[i + k].role = "tool"
  BY ResultsRun
<1>2. ASSUME Len(Results(ms, i)) # 0 PROVE FALSE
  <2>1. i + 1 \in 1..Len(ms) /\ i + 1 \in DOMAIN ms /\ 1 \in 1..Len(Results(ms, i))
    BY <1>1, <1>2
  <2>2. ms[i + 1].role = "tool" /\ ~IsOrphan(ms, i + 1)
    BY <1>1, <2>1 DEF Paired
  <2>3. PICK h \in 1..((i + 1) - 1) : IsHead(ms, h) /\ i + 1 <= h + Len(Results(ms, h))
    BY <2>1, <2>2, NoOrphan
  <2>4. h \in 0..Len(ms) /\ h \in 1..i /\ i # 0
    BY <1>1, <2>3
  <2>5. h # i
    BY <2>3, <2>4
  <2>6. /\ Len(Results(ms, h)) \in Nat
        /\ \A k \in 1..Len(Results(ms, h)) : ms[h + k].role = "tool"
    BY <2>4, ResultsRun
  <2>7. i - h \in 1..Len(Results(ms, h)) /\ h + (i - h) = i
    BY <2>3, <2>4, <2>5, <2>6
  <2> QED
    BY <2>4, <2>6, <2>7
<1> QED
  BY <1>1, <1>2

(* A tool message is followed by the rest of the tool messages.            *)
LEMMA ToolRest ==
    ASSUME NEW ms \in Seq(Msg), NEW i \in 0..Len(ms), i < Len(ms), ms[i + 1].role = "tool"
    PROVE  Len(Results(ms, i)) = 1 + Len(Results(ms, i + 1))
<1> DEFINE n == Len(Results(ms, i + 1))
<1>1. i + 1 \in 0..Len(ms) /\ Len(ms) \in Nat
  OBVIOUS
<1>2. n \in 0..(Len(ms) - (i + 1)) /\ Tools(ms, i + 1, n)
  BY <1>1, ResultsRun
<1> HIDE DEF n
<1>3. Tools(ms, i, 1 + n)
  <2>1. 1 + n \in 0..(Len(ms) - i)
    BY <1>1, <1>2
  <2>2. ASSUME NEW k \in 1..(1 + n) PROVE ms[i + k].role = "tool"
    <3>1. k # 1 => k - 1 \in 1..n /\ (i + 1) + (k - 1) = i + k
      BY <1>2
    <3> QED
      BY <1>2, <3>1 DEF Tools
  <2>3. i + (1 + n) < Len(ms) => ms[i + (1 + n) + 1].role # "tool"
    <3>1. i + (1 + n) = (i + 1) + n
      BY <1>1, <1>2
    <3> QED
      BY <1>2, <3>1 DEF Tools
  <2> QED
    BY <2>1, <2>2, <2>3 DEF Tools
<1>4. Len(Results(ms, i)) = 1 + n
  BY <1>3, ResultsAre
<1> QED
  BY <1>4 DEF n

(* Of paired messages, a round appends the message and its results.        *)
LEMMA PairedPiece ==
    ASSUME NEW ms \in Seq(Msg), Paired(ms), NEW i \in 1..Len(ms), ms[i].role # "tool"
    PROVE  Piece(ms, i) = SubSeq(ms, i, i + Len(Results(ms, i)))
<1> DEFINE r == Results(ms, i)
           n == Len(r)
           s == SubSeq(ms, i, i + n)
<1>1. /\ i \in 0..Len(ms) /\ i \in DOMAIN ms /\ Len(ms) \in Nat /\ ms[i] \in Msg
      /\ r \in Seq(Msg) /\ n \in 0..(Len(ms) - i) /\ \A k \in 1..n : r[k] = ms[i + k]
  BY ResultsRun
<1>2. /\ s \in Seq(Msg) /\ Len(s) = 1 + n
      /\ \A k \in 1..(1 + n) : s[k] = ms[i + k - 1]
  <2> HIDE DEF n
  <2>1. i \in Int /\ i + n \in Int /\ i <= i + n /\ (i + n) - i + 1 = 1 + n
    BY <1>1
  <2>2. \A j \in i..(i + n) : ms[j] \in Msg
    BY <1>1
  <2> QED
    BY <2>1, <2>2, SubSeqProperties
<1>3. CASE IsHead(ms, i)
  <2> DEFINE calls == ms[i].calls
             h == NewHead(ms, i)
             c == <<ms[i]>> \o r
  <2>1. calls \in Seq(Call) /\ PairedWith(calls, r) /\ \A l \in DOMAIN r : r[l].role = "tool"
    <3>1. calls \in Seq(Call)
      BY <1>1 DEF Msg
    <3>2. PairedWith(calls, r)
      BY <1>1, <1>3 DEF Paired
    <3> QED
      BY <1>1, <3>1, <3>2, ToolRole
  <2>2. HeadCalls(ms, i) = calls /\ repairToolCallArgs(calls) = calls /\ pairToolResults(calls, r) = r
    <3> HIDE DEF r, calls
    <3>1. /\ backfillToolCallNames(calls, r) = calls /\ repairToolCallArgs(calls) = calls
          /\ pairToolResults(calls, r) = r
      BY <1>1, <2>1, PairedStays
    <3> QED
      BY <3>1 DEF HeadCalls, r, calls
  <2>3. h = ms[i]
    <3>1. h = [ms[i] EXCEPT !.calls = ms[i].calls]
      BY <2>2 DEF NewHead
    <3>2. \A m \in Msg : [m EXCEPT !.calls = m.calls] = m
      BY ONLY DEF Msg
    <3> QED
      BY <1>1, <3>1, <3>2, Zenon
  <2>4. Piece(ms, i) = c
    BY <1>1, <1>3, <2>2, <2>3, HeadFacts DEF NewResults
  <2>5. /\ c \in Seq(Msg) /\ Len(c) = 1 + n /\ c[1] = ms[i]
        /\ \A k \in DOMAIN r : c[1 + k] = r[k]
    BY <1>1, <2>1, BlockFacts
  <2> HIDE DEF c, s, n, r
  <2>6. ASSUME NEW k \in 1..(1 + n) PROVE c[k] = s[k]
    <3>1. CASE k = 1
      <4>1. i + k - 1 = i
        BY <3>1
      <4> QED
        BY <1>2, <2>5, <3>1, <4>1
    <3>2. CASE k # 1
      <4>1. k - 1 \in 1..n /\ k - 1 \in DOMAIN r /\ 1 + (k - 1) = k /\ i + (k - 1) = i + k - 1
        BY <1>1, <3>2 DEF n
      <4> QED
        BY <1>1, <1>2, <2>5, <4>1
    <3> QED
      BY <3>1, <3>2
  <2>7. c = s
    BY <1>2, <2>5, <2>6, SeqEqual
  <2> QED
    BY <2>4, <2>7 DEF s, n, r
<1>4. CASE ~IsHead(ms, i)
  <2>1. n = 0
    BY <1>1, <1>4, PairedRest
  <2> DEFINE c == <<ms[i]>>
  <2>2. Piece(ms, i) = c
    BY <1>4 DEF Piece
  <2>3. c \in Seq(Msg) /\ Len(c) = 1 /\ c[1] = ms[i]
    BY <1>1
  <2> HIDE DEF c, s, n
  <2>4. Len(s) = 1 /\ s[1] = ms[i]
    <3>1. 1 \in 1..(1 + n) /\ i + 1 - 1 = i
      BY <2>1
    <3> QED
      BY <1>2, <2>1, <3>1
  <2>5. c = s
    BY <1>2, <2>3, <2>4, SeqEqual
  <2> QED
    BY <2>2, <2>5 DEF s, n
<1> QED
  BY <1>3, <1>4

(* Paired messages are what the slow path makes of them: it changes        *)
(* nothing that the fast path lets through, and nothing twice.             *)
THEOREM SlowPathKeepsPaired ==
    ASSUME NEW ms \in Seq(Msg), Paired(ms)
    PROVE  SlowPath(ms) = ms
<1> DEFINE N == Len(ms)
           end(i) == i + Len(Results(ms, i))
<1>1. PICK f : Built(f, ms)
  BY SlowPathBuilt
<1>2. /\ N \in Nat /\ f \in [0..N -> Seq(Msg)] /\ f[0] = <<>>
      /\ (\A i \in 1..N : f[i] = f[i - 1] \o Piece(ms, i)) /\ SlowPath(ms) = f[N]
  BY <1>1 DEF Built
<1>3. \A i \in 0..N : Len(Results(ms, i)) \in Nat /\ end(i) \in i..N
  BY <1>2, ResultsRun
<1>4. end(0) = 0
  <2>1. PICK i \in 0..Len(ms) : i = 0
    BY <1>2
  <2>2. Len(Results(ms, i)) = 0
    BY <2>1, PairedRest
  <2> QED
    BY <2>1, <2>2
<1>5. end(N) = N
  <2>1. N \in 0..N
    BY <1>2
  <2> QED
    BY <1>2, <1>3, <2>1
<1> DEFINE T == {i \in 0..N : f[i] = SubSeq(ms, 1, end(i))}
<1>6. 0 \in T
  <2>1. SubSeq(ms, 1, 0) = <<>>
    BY SubSeqEmpty
  <2> QED
    BY <1>2, <1>4, <2>1
<1>7. ASSUME NEW i \in 0..N, i \in T, i < N PROVE i + 1 \in T
  <2>1. i + 1 \in 1..N /\ i + 1 \in 0..N /\ (i + 1) - 1 = i
    BY <1>2, <1>7
  <2>2. f[i] \in Seq(Msg) /\ f[i] = SubSeq(ms, 1, end(i)) /\ f[i + 1] = f[i] \o Piece(ms, i + 1)
    BY <1>2, <1>7, <2>1
  <2>3. CASE ms[i + 1].role = "tool"
    <3>1. Piece(ms, i + 1) = <<>>
      BY <2>3 DEF Piece, IsHead
    <3>2. end(i + 1) = end(i)
      <4>1. Len(Results(ms, i)) = 1 + Len(Results(ms, i + 1))
        BY <1>7, <2>3, ToolRest
      <4> QED
        BY <1>2, <1>3, <2>1, <4>1
    <3>3. f[i] \o <<>> = f[i]
      BY <2>2
    <3> HIDE DEF end
    <3> QED
      BY <2>1, <2>2, <3>1, <3>2, <3>3
  <2>4. CASE ms[i + 1].role # "tool"
    <3>1. Len(Results(ms, i)) = 0
      <4>1. /\ Tools(ms, i, Len(Results(ms, i))) /\ Len(Results(ms, i)) \in 0..(N - i)
        BY ResultsRun
      <4>2. Len(Results(ms, i)) # 0 => 1 \in 1..Len(Results(ms, i))
        BY <1>2, <4>1
      <4> QED
        BY <2>4, <4>1, <4>2 DEF Tools
    <3>2. end(i) = i
      BY <1>2, <3>1
    <3>3. Piece(ms, i + 1) = SubSeq(ms, i + 1, end(i + 1))
      BY <2>1, <2>4, PairedPiece
    <3>4. end(i + 1) \in (i + 1)..N
      BY <1>3, <2>1
    <3> HIDE DEF end
    <3>5. SubSeq(ms, 1, i) \o SubSeq(ms, i + 1, end(i + 1)) = SubSeq(ms, 1, end(i + 1))
      <4> DEFINE e == end(i + 1)
      <4>1. e \in (i + 1)..N /\ N \in Nat
        BY <1>2, <3>4
      <4> HIDE DEF e
      <4>2. 1 \in 1..(Len(ms) + 1) /\ i \in (1 - 1)..Len(ms) /\ e \in i..Len(ms)
        BY <4>1
      <4>3. SubSeq(ms, 1, i) \o SubSeq(ms, i + 1, e) = SubSeq(ms, 1, e)
        BY <4>2, ConcatAdjacentSubSeq
      <4> QED
        BY <4>3 DEF e
    <3> QED
      BY <2>1, <2>2, <3>2, <3>3, <3>5
  <2> QED
    BY <2>3, <2>4
<1> HIDE DEF T
<1>8. \A i \in 0..N : i \in T
  BY <1>2, <1>6, <1>7, Induction
<1>9. N \in 0..N
  BY <1>2
<1>10. f[N] = SubSeq(ms, 1, N)
  BY <1>5, <1>8, <1>9 DEF T
<1>11. SubSeq(ms, 1, N) = ms
  BY SubSeqFull
<1> QED
  BY <1>2, <1>10, <1>11

(* Normalising twice is normalising once, for every sequence of messages.  *)
THEOREM NormalizeTwice ==
    ASSUME NEW ms \in Seq(Msg)
    PROVE  LET req == NormalizeMessages(ms)
           IN  NormalizeMessages(req) = req /\ SlowPath(req) = req
<1> DEFINE req == NormalizeMessages(ms)
<1>1. req \in Seq(Msg) /\ Paired(req)
  BY NormalizePairs
<1> HIDE DEF req
<1>2. SlowPath(req) = req
  BY <1>1, SlowPathKeepsPaired
<1>3. NormalizeMessages(req) = req
  BY <1>2 DEF NormalizeMessages
<1> QED
  BY <1>2, <1>3 DEF req

-----------------------------------------------------------------------------
(* Whose results a request reports *)

\* A head has no results, or those of its own calls.
Blocks(ms) ==
    \A i \in DOMAIN ms :
        IsHead(ms, i) => Results(ms, i) = <<>> \/ Answered(ms[i].calls, Results(ms, i))

(* The slow path gives a call the result of its own run, or of none.       *)
LEMMA HeadTruth ==
    ASSUME NEW ms \in Seq(Msg), NEW i \in DOMAIN ms, IsHead(ms, i),
           Results(ms, i) = <<>> \/ Answered(ms[i].calls, Results(ms, i))
    PROVE  \A k \in DOMAIN ms[i].calls :
            /\ NewResults(ms, i)[k].of \in {ms[i].calls[k].of, Interrupted}
            /\ Results(ms, i) # <<>> => NewResults(ms, i)[k].of = ms[i].calls[k].of
<1> DEFINE calls == ms[i].calls
           rs == Results(ms, i)
           b == HeadCalls(ms, i)
           p == NewResults(ms, i)
<1>1. ms[i] \in Msg /\ i \in 0..Len(ms)
  OBVIOUS
<1>2. calls \in Seq(Call)
  BY <1>1 DEF Msg
<1>3. rs \in Seq(Msg) /\ \A k \in DOMAIN rs : rs[k].role = "tool"
  BY <1>1, ToolRole
<1>4. p = pairToolResults(b, rs) /\ b = backfillToolCallNames(calls, rs)
  BY DEF NewResults, HeadCalls
<1>5. rs = <<>> \/ Answered(calls, rs)
  OBVIOUS
<1> HIDE DEF calls, rs, b, p
<1>6. /\ b \in Seq(Call) /\ Len(b) = Len(calls)
      /\ \A k \in DOMAIN calls : b[k].id = calls[k].id /\ b[k].of = calls[k].of
  BY <1>2, <1>3, <1>4, BackfillFacts
<1>7. \A k \in DOMAIN b : p[k].of = Answer(b, rs, k).of
  BY <1>3, <1>4, <1>6, PairFacts
<1>8. DOMAIN b = DOMAIN calls
  BY <1>2, <1>6
<1>9. CASE rs = <<>>
  <2>1. \A k \in DOMAIN b : Answer(b, rs, k).of = Interrupted
    BY <1>6, <1>9, AnswerNone
  <2>2. \A k \in DOMAIN calls : p[k].of = Interrupted
    BY <1>7, <1>8, <2>1
  <2> QED
    BY <1>9, <2>2 DEF p, calls, rs
<1>10. CASE Answered(calls, rs)
  <2>1. Answered(b, rs)
    BY <1>6, <1>8, <1>10 DEF Answered
  <2>2. \A k \in DOMAIN b : Answer(b, rs, k).of = b[k].of
    BY <1>3, <1>6, <2>1, AnswerOwn
  <2>3. \A k \in DOMAIN calls : p[k].of = calls[k].of
    BY <1>6, <1>7, <1>8, <2>2
  <2> QED
    BY <2>3 DEF p, calls, rs
<1> QED
  BY <1>5, <1>9, <1>10

(* So what a round appends is truthful.                                    *)
LEMMA PieceTruthful ==
    ASSUME NEW ms \in Seq(Msg), NEW i \in DOMAIN ms, Blocks(ms)
    PROVE  Truthful(Piece(ms, i))
<1>0. ms[i] \in Msg
  OBVIOUS
<1>1. CASE IsHead(ms, i)
  <2> DEFINE h == NewHead(ms, i)
             p == NewResults(ms, i)
             calls == ms[i].calls
  <2>1. /\ Piece(ms, i) = <<h>> \o p /\ h \in Msg /\ h.role = "assistant" /\ h.calls # <<>>
        /\ p \in Seq(Msg) /\ (\A k \in DOMAIN p : p[k].role = "tool")
        /\ Len(h.calls) = Len(calls) /\ \A k \in DOMAIN calls : h.calls[k].of = calls[k].of
    BY <1>1, HeadFacts
  <2>2. \A k \in DOMAIN calls : p[k].of \in {calls[k].of, Interrupted}
    BY <1>1, HeadTruth DEF Blocks
  <2>3. calls \in Seq(Call) /\ h.calls \in Seq(Call)
    BY <1>0, <2>1 DEF Msg
  <2> HIDE DEF h, p, calls
  <2>4. DOMAIN h.calls = DOMAIN calls
    BY <2>1, <2>3
  <2>5. TruthfulWith(h.calls, p)
    BY <2>1, <2>2, <2>4 DEF TruthfulWith
  <2>6. Truthful(<<h>> \o p)
    BY <2>1, <2>5, BlockPaired
  <2> QED
    BY <2>1, <2>6
<1>2. CASE ~IsHead(ms, i) /\ ms[i].role # "tool"
  <2> DEFINE c == <<ms[i]>>
  <2>1. Piece(ms, i) = c
    BY <1>2 DEF Piece
  <2>2. c[1] = ms[i] /\ DOMAIN c = {1}
    BY <1>0
  <2> HIDE DEF c
  <2> QED
    BY <1>2, <2>1, <2>2 DEF Truthful, IsHead
<1>3. CASE ~IsHead(ms, i) /\ ms[i].role = "tool"
  BY <1>3 DEF Piece, Truthful
<1> QED
  BY <1>1, <1>2, <1>3

(* No request made of such messages gives a call another one's result.     *)
LEMMA NormalizeTruthful ==
    ASSUME NEW ms \in Seq(Msg), Blocks(ms)
    PROVE  Truthful(NormalizeMessages(ms))
<1>1. CASE tryFastPath(ms)
  <2>1. ASSUME NEW i \in DOMAIN ms, IsHead(ms, i)
        PROVE  TruthfulWith(ms[i].calls, Results(ms, i))
    <3>1. Results(ms, i) = <<>> \/ Answered(ms[i].calls, Results(ms, i))
      BY <2>1 DEF Blocks
    <3> QED
      BY <3>1 DEF TruthfulWith, Answered
  <2>2. Truthful(ms)
    BY <2>1 DEF Truthful
  <2> QED
    BY <1>1, <2>2 DEF NormalizeMessages
<1>2. CASE ~tryFastPath(ms)
  <2> DEFINE N == Len(ms)
  <2>1. PICK f : Built(f, ms)
    BY SlowPathBuilt
  <2>2. /\ N \in Nat /\ DOMAIN ms = 1..N /\ f \in [0..N -> Seq(Msg)] /\ f[0] = <<>>
        /\ (\A i \in 1..N : f[i] = f[i - 1] \o Piece(ms, i)) /\ SlowPath(ms) = f[N]
    BY <2>1 DEF Built
  <2> HIDE DEF N
  <2> DEFINE T == {i \in 0..N : Truthful(f[i])}
  <2>3. 0 \in T
    <3>1. Truthful(<<>>)
      BY DEF Truthful
    <3> QED
      BY <2>2, <3>1
  <2>4. ASSUME NEW i \in 0..N, i \in T, i < N PROVE i + 1 \in T
    <3>1. i + 1 \in 1..N /\ i + 1 \in 0..N /\ (i + 1) - 1 = i
      BY <2>2, <2>4
    <3>2. f[i] \in Seq(Msg) /\ Truthful(f[i]) /\ f[i + 1] = f[i] \o Piece(ms, i + 1)
      BY <2>2, <2>4, <3>1
    <3>3. Piece(ms, i + 1) \in Seq(Msg) /\ Starts(Piece(ms, i + 1))
      BY <2>2, <3>1, PieceFacts
    <3>4. Truthful(Piece(ms, i + 1))
      BY <2>2, <3>1, PieceTruthful
    <3>5. Truthful(f[i] \o Piece(ms, i + 1))
      BY <3>2, <3>3, <3>4, ConcatTruthful
    <3> QED
      BY <3>1, <3>2, <3>5
  <2> HIDE DEF T
  <2>5. \A i \in 0..N : i \in T
    BY <2>2, <2>3, <2>4, Induction
  <2>6. N \in 0..N
    BY <2>2
  <2> QED
    BY <1>2, <2>2, <2>5, <2>6 DEF T, NormalizeMessages
<1> QED
  BY <1>1, <1>2

\* The messages end with a head and the results rr of its calls.
EndsWith(ms, rr) ==
    LET p == Len(ms) - Len(rr)
    IN  /\ p \in 1..Len(ms) /\ IsHead(ms, p) /\ Len(ms[p].calls) = Len(rr)
        /\ \A k \in DOMAIN rr :
            /\ ms[p].calls[k].of = rr[k]
            /\ ms[p + k].role = "tool" /\ ms[p + k].id = ms[p].calls[k].id
            /\ ms[p + k].of = rr[k]

(* They are the results of that head.                                      *)
LEMMA EndResults ==
    ASSUME NEW ms \in Seq(Msg), NEW rr \in Seq(Of), rr # <<>>, EndsWith(ms, rr)
    PROVE  LET p == Len(ms) - Len(rr)
           IN  Results(ms, p) # <<>> /\ Answered(ms[p].calls, Results(ms, p))
<1> DEFINE p == Len(ms) - Len(rr)
           n == Len(rr)
           calls == ms[p].calls
           r == Results(ms, p)
<1>1. /\ Len(ms) \in Nat /\ n \in Nat /\ n # 0 /\ DOMAIN rr = 1..n /\ p + n = Len(ms)
      /\ p \in 1..Len(ms) /\ p \in 0..Len(ms)
  BY DEF EndsWith
<1>2. /\ IsHead(ms, p) /\ Len(calls) = n
      /\ \A k \in DOMAIN rr :
            /\ calls[k].of = rr[k] /\ ms[p + k].role = "tool"
            /\ ms[p + k].id = calls[k].id /\ ms[p + k].of = rr[k]
  BY DEF EndsWith
<1>3. calls \in Seq(Call)
  <2>1. ms[p] \in Msg
    BY <1>1
  <2> QED
    BY <2>1 DEF Msg
<1> HIDE DEF p, n, calls
<1>4. Tools(ms, p, n)
  <2>1. n \in 0..(Len(ms) - p) /\ ~(p + n < Len(ms))
    BY <1>1
  <2>2. \A k \in 1..n : ms[p + k].role = "tool"
    BY <1>1, <1>2
  <2> QED
    BY <2>1, <2>2 DEF Tools
<1>5. r \in Seq(Msg) /\ Len(r) = n /\ \A k \in 1..n : r[k] = ms[p + k]
  BY <1>1, <1>4, ResultsAre, ResultsRun
<1> HIDE DEF r
<1>6. r # <<>> /\ Answered(calls, r)
  BY <1>1, <1>2, <1>3, <1>5 DEF Answered
<1> QED
  BY <1>6 DEF p, calls, r

(* The slow path keeps them at the end, whatever it does before.           *)
LEMMA SlowPathEnd ==
    ASSUME NEW ms \in Seq(Msg), NEW rr \in Seq(Of), rr # <<>>, EndsWith(ms, rr)
    PROVE  LET req == SlowPath(ms)
           IN  /\ Len(req) > Len(rr)
               /\ \A k \in DOMAIN rr : req[Len(req) - Len(rr) + k].of = rr[k]
<1> DEFINE N == Len(ms)
           n == Len(rr)
           p == N - n
           calls == ms[p].calls
<1>1. /\ N \in Nat /\ n \in Nat /\ DOMAIN rr = 1..n /\ p + n = N
      /\ p \in 1..N /\ p \in DOMAIN ms
  BY DEF EndsWith
<1>2. /\ IsHead(ms, p) /\ Len(calls) = n
      /\ \A k \in DOMAIN rr : calls[k].of = rr[k] /\ ms[p + k].role = "tool"
  BY DEF EndsWith
<1>3. Results(ms, p) # <<>> /\ Answered(calls, Results(ms, p))
  BY EndResults
<1>4. calls \in Seq(Call)
  <2>1. ms[p] \in Msg
    BY <1>1
  <2> QED
    BY <2>1 DEF Msg
<1>5. PICK f : Built(f, ms)
  BY SlowPathBuilt
<1>6. /\ f \in [0..N -> Seq(Msg)] /\ SlowPath(ms) = f[N]
      /\ \A i \in 1..N : f[i] = f[i - 1] \o Piece(ms, i)
  BY <1>5 DEF Built
<1> HIDE DEF N, n, p
<1>7. \A i \in p..N : f[i] = f[p]
  <2> DEFINE T == {i \in p..N : f[i] = f[p]}
  <2>1. p \in T
    BY <1>1
  <2>2. ASSUME NEW i \in p..N, i \in T, i < N PROVE i + 1 \in T
    <3>1. i + 1 \in p..N /\ i + 1 \in 1..N /\ (i + 1) - 1 = i /\ i \in 0..N
      BY <1>1, <2>2
    <3>2. (i + 1) - p \in DOMAIN rr /\ p + ((i + 1) - p) = i + 1
      BY <1>1, <2>2
    <3>3. ms[i + 1].role = "tool"
      BY <1>2, <3>2
    <3>4. Piece(ms, i + 1) = <<>>
      BY <3>3 DEF Piece, IsHead
    <3>5. f[i] \in Seq(Msg) /\ f[i + 1] = f[i] \o Piece(ms, i + 1)
      BY <1>6, <3>1
    <3>6. f[i] \o <<>> = f[i]
      BY <3>5
    <3> QED
      BY <2>2, <3>1, <3>4, <3>5, <3>6
  <2> HIDE DEF T
  <2>3. p \in Nat
    BY <1>1
  <2>4. \A i \in p..N : i \in T
    BY <1>1, <2>1, <2>2, <2>3, Induction
  <2> QED
    BY <2>4 DEF T
<1> DEFINE a == f[p - 1]
           h == NewHead(ms, p)
           q == NewResults(ms, p)
           c == <<h>> \o q
           req == SlowPath(ms)
<1>8. req = a \o Piece(ms, p) /\ a \in Seq(Msg)
  <2>1. N \in p..N /\ p \in 1..N /\ p - 1 \in 0..N
    BY <1>1
  <2> QED
    BY <1>6, <1>7, <2>1
<1>9. /\ Piece(ms, p) = c /\ h \in Msg /\ q \in Seq(Msg)
      /\ (\A k \in DOMAIN q : q[k].role = "tool") /\ PairedWith(h.calls, q)
      /\ Len(h.calls) = Len(calls)
  BY <1>1, <1>2, HeadFacts
<1>10. \A k \in DOMAIN calls : q[k].of = calls[k].of
  BY <1>1, <1>2, <1>3, HeadTruth
<1>11. Len(q) = n
  BY <1>2, <1>9 DEF PairedWith
<1> HIDE DEF h, q, a, calls
<1>12. \A k \in DOMAIN rr : k \in DOMAIN q /\ q[k].of = rr[k]
  <2>1. DOMAIN q = 1..n /\ DOMAIN calls = 1..n
    BY <1>2, <1>4, <1>9, <1>11
  <2> QED
    BY <1>1, <1>2, <1>10, <2>1
<1>13. /\ c \in Seq(Msg) /\ Len(c) = 1 + n
       /\ \A k \in DOMAIN q : c[1 + k] = q[k]
  BY <1>9, <1>11, BlockFacts
<1> HIDE DEF c, req
<1>14. /\ req = a \o c /\ Len(a) \in Nat /\ Len(req) = Len(a) + (1 + n)
       /\ \A j \in 1..Len(c) : req[Len(a) + j] = c[j]
  BY <1>8, <1>9, <1>13, ConcatFacts
<1>15. Len(req) > n
  BY <1>1, <1>14
<1>16. ASSUME NEW k \in DOMAIN rr PROVE req[Len(req) - n + k].of = rr[k]
  <2>1. 1 + k \in 1..Len(c) /\ Len(req) - n + k = Len(a) + (1 + k)
    BY <1>1, <1>13, <1>14
  <2> QED
    BY <1>12, <1>13, <1>14, <2>1
<1> QED
  BY <1>15, <1>16 DEF req, n

(* Something before that is the system prompt, which stays.                *)
LEMMA SlowPathNotEmpty ==
    ASSUME NEW ms \in Seq(Msg), ms # <<>>, ms[1].role = "system"
    PROVE  Len(SlowPath(ms)) > 0
<1> DEFINE N == Len(ms)
<1>1. PICK f : Built(f, ms)
  BY SlowPathBuilt
<1>2. /\ N \in Nat /\ N # 0 /\ DOMAIN ms = 1..N /\ f \in [0..N -> Seq(Msg)] /\ f[0] = <<>>
      /\ (\A i \in 1..N : f[i] = f[i - 1] \o Piece(ms, i)) /\ SlowPath(ms) = f[N]
  BY <1>1 DEF Built
<1> HIDE DEF N
<1> DEFINE T == {i \in 1..N : Len(f[i]) > 0}
<1>3. 1 \in T
  <2>1. 1 \in 1..N /\ 1 - 1 = 0
    BY <1>2
  <2>2. Piece(ms, 1) = <<ms[1]>>
    BY DEF Piece, IsHead
  <2>3. f[1] = <<>> \o <<ms[1]>>
    BY <1>2, <2>1, <2>2
  <2>4. ms[1] \in Msg
    BY <1>2, <2>1
  <2>5. Len(<<>> \o <<ms[1]>>) = 1
    BY <2>4
  <2>6. Len(f[1]) > 0
    BY <2>3, <2>5
  <2> QED
    BY <2>1, <2>6
<1>4. ASSUME NEW i \in 1..N, i \in T, i < N PROVE i + 1 \in T
  <2>1. i + 1 \in 1..N /\ i \in 0..N /\ (i + 1) - 1 = i
    BY <1>2, <1>4
  <2>2. f[i] \in Seq(Msg) /\ Len(f[i]) > 0 /\ f[i + 1] = f[i] \o Piece(ms, i + 1)
    BY <1>2, <1>4, <2>1
  <2>3. Piece(ms, i + 1) \in Seq(Msg)
    BY <1>2, <2>1, PieceFacts
  <2>4. /\ Len(f[i]) \in Nat /\ Len(Piece(ms, i + 1)) \in Nat
        /\ Len(f[i] \o Piece(ms, i + 1)) = Len(f[i]) + Len(Piece(ms, i + 1))
    BY <2>2, <2>3, ConcatFacts
  <2>5. Len(f[i + 1]) > 0
    <3> DEFINE x == Len(f[i])
               y == Len(Piece(ms, i + 1))
    <3>1. Len(f[i + 1]) = x + y /\ x \in Nat /\ y \in Nat /\ x > 0
      BY <2>2, <2>4
    <3> HIDE DEF x, y
    <3> QED
      BY <3>1
  <2> QED
    BY <2>1, <2>5
<1> HIDE DEF T
<1>5. \A i \in 1..N : i \in T
  BY <1>2, <1>3, <1>4, Induction
<1>6. N \in 1..N
  BY <1>2
<1> QED
  BY <1>2, <1>5, <1>6 DEF T

(* NormalizeMessages keeps the results at the end of what it is given.     *)
LEMMA NormalizeEnd ==
    ASSUME NEW ms \in Seq(Msg), NEW rr \in Seq(Of), ms # <<>>, ms[1].role = "system",
           rr # <<>> => EndsWith(ms, rr)
    PROVE  LET req == NormalizeMessages(ms)
           IN  /\ Len(req) > Len(rr)
               /\ \A k \in DOMAIN rr : req[Len(req) - Len(rr) + k].of = rr[k]
<1>1. CASE ~tryFastPath(ms)
  <2>1. NormalizeMessages(ms) = SlowPath(ms)
    BY <1>1 DEF NormalizeMessages
  <2>2. CASE rr = <<>>
    <3>1. Len(SlowPath(ms)) > 0
      BY SlowPathNotEmpty
    <3> QED
      BY <2>1, <2>2, <3>1
  <2>3. CASE rr # <<>>
    BY <2>1, <2>3, SlowPathEnd
  <2> QED
    BY <2>2, <2>3
<1>2. CASE tryFastPath(ms)
  <2>1. NormalizeMessages(ms) = ms
    BY <1>2 DEF NormalizeMessages
  <2>2. CASE rr = <<>>
    <3>1. Len(ms) > 0
      OBVIOUS
    <3> QED
      BY <2>1, <2>2, <3>1
  <2>3. CASE rr # <<>>
    <3>1. Len(ms) \in Nat /\ Len(rr) \in Nat /\ Len(ms) > Len(rr)
      BY <2>3 DEF EndsWith
    <3>2. \A k \in DOMAIN rr : ms[Len(ms) - Len(rr) + k].of = rr[k]
      BY <2>3 DEF EndsWith
    <3> QED
      BY <2>1, <3>1, <3>2
  <2> QED
    BY <2>2, <2>3
<1> QED
  BY <1>1, <1>2

-----------------------------------------------------------------------------
(* The inductive invariant *)

\* The session holds no tool messages, and room is left for this turn's two.
HistoryInv ==
    /\ \A i \in DOMAIN history : history[i].role # "tool"
    /\ Len(history) + (IF phase = "idle" THEN 0 ELSE 2) <= 2 * turns

\* eino's state is made of heads and their own results, and tools are run for
\* the last message.
BlockInv ==
    /\ Blocks(msgs)
    /\ phase = "tools" => msgs # <<>> /\ IsHead(msgs, Len(msgs))

\* While a request is out, the window ends with the last round if it can hold it.
RanInv ==
    /\ phase = "idle" => ran = <<>>
    /\ phase = "stream" /\ ran # <<>> /\ Len(ran) < window => EndsWith(msgs, ran)

\* readStreamState and the bridge: every index is in order, every started call
\* has an index of this round, and no index two of them.
StreamInv ==
    /\ phase # "stream" => acc = <<>> /\ order = <<>> /\ toolCalls = <<>>
    /\ \A n \in DOMAIN order : order[n] \in DOMAIN acc
    /\ \A i \in DOMAIN acc : \E n \in DOMAIN order : order[n] = i
    /\ \A k \in DOMAIN toolCalls : \E i \in DOMAIN acc : toolCalls[k].of = <<turns, rounds, i>>
    /\ \A k, l \in DOMAIN toolCalls : toolCalls[k].of = toolCalls[l].of => k = l

LoopInv == TypeOK /\ HistoryInv /\ BlockInv /\ RanInv /\ StreamInv

-----------------------------------------------------------------------------
(* The window and the messages of a round *)

(* Heads after the first messages keep their results without them.         *)
LEMMA SuffixBlocks ==
    ASSUME NEW a \in Seq(Msg), NEW b \in Seq(Msg), Blocks(a \o b)
    PROVE  Blocks(b)
<1> DEFINE c == a \o b
<1>1. /\ c \in Seq(Msg) /\ Len(a) \in Nat /\ Len(b) \in Nat /\ Len(c) = Len(a) + Len(b)
      /\ \A j \in 1..Len(b) : c[Len(a) + j] = b[j]
  BY ConcatFacts
<1>2. ASSUME NEW j \in DOMAIN b, IsHead(b, j)
      PROVE  Results(b, j) = <<>> \/ Answered(b[j].calls, Results(b, j))
  <2>1. j \in 1..Len(b) /\ Len(a) + j \in DOMAIN c
    BY <1>1
  <2>2. Results(c, Len(a) + j) = Results(b, j) /\ c[Len(a) + j] = b[j]
    BY <1>1, <2>1, ResultsRight
  <2> HIDE DEF c
  <2>3. IsHead(c, Len(a) + j)
    BY <1>2, <2>2 DEF IsHead
  <2>4. Blocks(c)
    BY DEF c
  <2> QED
    BY <2>1, <2>2, <2>3, <2>4 DEF Blocks
<1> QED
  BY <1>2 DEF Blocks

(* And they keep them after messages that are no heads.                    *)
LEMMA PrefixBlocks ==
    ASSUME NEW a \in Seq(Msg), NEW b \in Seq(Msg), Blocks(b), \A i \in DOMAIN a : ~IsHead(a, i)
    PROVE  Blocks(a \o b)
<1> DEFINE c == a \o b
<1>1. /\ c \in Seq(Msg) /\ \A i \in 1..Len(a) : c[i] = a[i]
      /\ \A j \in 1..Len(b) : c[Len(a) + j] = b[j]
  BY ConcatFacts
<1>2. \A i \in DOMAIN c : i \in 1..Len(a) \/ \E j \in 1..Len(b) : i = Len(a) + j
  BY ConcatPlace
<1>3. \A j \in 1..Len(b) : Results(c, Len(a) + j) = Results(b, j)
  BY ResultsRight
<1> HIDE DEF c
<1>4. ASSUME NEW i \in DOMAIN c, IsHead(c, i)
      PROVE  Results(c, i) = <<>> \/ Answered(c[i].calls, Results(c, i))
  <2>1. CASE i \in 1..Len(a)
    <3>1. ~IsHead(a, i)
      BY <2>1
    <3> QED
      BY <1>1, <1>4, <2>1, <3>1 DEF IsHead
  <2>2. ASSUME NEW j \in 1..Len(b), i = Len(a) + j
        PROVE  Results(c, i) = <<>> \/ Answered(c[i].calls, Results(c, i))
    <3>1. c[i] = b[j] /\ Results(c, i) = Results(b, j) /\ j \in DOMAIN b
      BY <1>1, <1>3, <2>2
    <3>2. IsHead(b, j)
      BY <1>4, <3>1 DEF IsHead
    <3> QED
      BY <3>1, <3>2 DEF Blocks
  <2> QED
    BY <1>2, <2>1, <2>2
<1>5. Blocks(c)
  BY <1>4 DEF Blocks
<1> QED
  BY <1>5 DEF c

(* A message that is no tool message may be appended.                      *)
LEMMA AppendBlocks ==
    ASSUME NEW a \in Seq(Msg), NEW m \in Msg, Blocks(a), m.role # "tool"
    PROVE  Append(a, m) \in Seq(Msg) /\ Blocks(Append(a, m))
<1> DEFINE b == <<m>>
           c == a \o b
<1>1. b \in Seq(Msg) /\ Len(b) = 1 /\ b[1] = m /\ Append(a, m) = c
  OBVIOUS
<1>2. Starts(b)
  BY <1>1 DEF Starts
<1> HIDE DEF b
<1>3. c \in Seq(Msg)
  BY <1>1, ConcatFacts
<1>4. Results(b, 1) = <<>>
  <2>1. 1 \in 0..Len(b)
    BY <1>1
  <2>2. Results(b, 1) \in Seq(Msg) /\ Len(Results(b, 1)) \in 0..(Len(b) - 1)
    BY <1>1, <2>1, ResultsRun
  <2>3. Len(Results(b, 1)) = 0
    BY <1>1, <2>2
  <2> QED
    BY <2>2, <2>3
<1>5. \A i \in DOMAIN c : i \in 1..Len(a) \/ \E j \in 1..Len(b) : i = Len(a) + j
  BY <1>1, ConcatPlace
<1>6. ASSUME NEW i \in DOMAIN c, IsHead(c, i)
      PROVE  Results(c, i) = <<>> \/ Answered(c[i].calls, Results(c, i))
  <2>1. CASE i \in 1..Len(a)
    <3>1. c[i] = a[i] /\ Results(c, i) = Results(a, i) /\ IsHead(a, i) /\ i \in DOMAIN a
      BY <1>1, <1>2, <1>6, <2>1, ConcatHeads
    <3> QED
      BY <3>1 DEF Blocks
  <2>2. ASSUME NEW j \in 1..Len(b), i = Len(a) + j PROVE Results(c, i) = <<>>
    <3>1. Results(c, Len(a) + j) = Results(b, j) /\ j = 1
      BY <1>1, ResultsRight
    <3> QED
      BY <1>4, <2>2, <3>1
  <2> QED
    BY <1>5, <2>1, <2>2
<1>7. Blocks(c)
  BY <1>6 DEF Blocks
<1> QED
  BY <1>1, <1>3, <1>7

(* A session without tool messages has heads without results.              *)
LEMMA NoToolBlocks ==
    ASSUME NEW ms \in Seq(Msg), \A i \in DOMAIN ms : ms[i].role # "tool"
    PROVE  Blocks(ms)
<1>1. ASSUME NEW i \in DOMAIN ms PROVE Results(ms, i) = <<>>
  <2> DEFINE r == Results(ms, i)
  <2>1. i \in 0..Len(ms) /\ Len(ms) \in Nat
    OBVIOUS
  <2>2. /\ r \in Seq(Msg) /\ Len(r) \in 0..(Len(ms) - i)
        /\ \A k \in 1..Len(r) : ms[i + k].role = "tool"
    BY <2>1, ResultsRun
  <2> HIDE DEF r
  <2>3. Len(r) # 0 => 1 \in 1..Len(r) /\ i + 1 \in DOMAIN ms
    BY <2>1, <2>2
  <2>4. Len(r) = 0
    BY <2>2, <2>3
  <2>5. r = <<>>
    BY <2>2, <2>4
  <2> QED
    BY <2>5 DEF r
<1> QED
  BY <1>1 DEF Blocks

(* What is before the last round does not matter to it.                    *)
LEMMA EndsAfter ==
    ASSUME NEW a \in Seq(Msg), NEW b \in Seq(Msg), NEW rr \in Seq(Of), Len(rr) < Len(b)
    PROVE  EndsWith(a \o b, rr) <=> EndsWith(b, rr)
<1> DEFINE c == a \o b
           A == Len(a)
           B == Len(b)
           n == Len(rr)
           p == B - n
           q == Len(c) - n
<1>1. /\ A \in Nat /\ B \in Nat /\ Len(c) = A + B
      /\ \A j \in 1..B : c[A + j] = b[j]
  BY ConcatFacts
<1>2. n \in Nat /\ DOMAIN rr = 1..n /\ n < B
  OBVIOUS
<1> HIDE DEF c, A, B, n
<1>3. q = A + p /\ p \in 1..B /\ q \in 1..Len(c)
  BY <1>1, <1>2
<1>4. \A k \in DOMAIN rr : p + k \in 1..B /\ q + k = A + (p + k)
  BY <1>1, <1>2
<1> HIDE DEF p, q
<1>5. c[q] = b[p] /\ \A k \in DOMAIN rr : c[q + k] = b[p + k]
  BY <1>1, <1>3, <1>4
<1>6. IsHead(c, q) <=> IsHead(b, p)
  BY <1>5 DEF IsHead
<1>7. EndsWith(c, rr) <=> EndsWith(b, rr)
  BY <1>3, <1>5, <1>6 DEF EndsWith, p, q, n, B
<1> QED
  BY <1>7 DEF c

(* MessageRewriter keeps the last messages, as many as the window holds.   *)
LEMMA RewriterFacts ==
    ASSUME NEW ms \in Seq(Msg), window \in Nat \ {0}
    PROVE  \E a \in Seq(Msg) : \E b \in Seq(Msg) :
            ms = a \o b /\ b = MessageRewriter(ms) /\ (b = ms \/ Len(b) = window)
<1>1. CASE Len(ms) <= window
  <2>1. <<>> \in Seq(Msg) /\ <<>> \o ms = ms /\ MessageRewriter(ms) = ms
    BY <1>1 DEF MessageRewriter
  <2> QED
    BY <2>1
<1>2. CASE ~(Len(ms) <= window)
  <2> DEFINE d == Len(ms) - window
             a == SubSeq(ms, 1, d)
             b == SubSeq(ms, d + 1, Len(ms))
  <2>1. /\ Len(ms) \in Nat /\ d \in 1..Len(ms) /\ Len(ms) - window + 1 = d + 1
        /\ Len(ms) - (d + 1) + 1 = window /\ d + 1 <= Len(ms)
    BY <1>2
  <2>2. MessageRewriter(ms) = b
    BY <1>2, <2>1 DEF MessageRewriter
  <2> HIDE DEF d
  <2>3. a \in Seq(Msg)
    <3>1. 1 \in Int /\ d \in Int /\ \A j \in 1..d : ms[j] \in Msg
      BY <2>1
    <3> QED
      BY <3>1, SubSeqProperties
  <2>4. b \in Seq(Msg) /\ Len(b) = window
    <3>1. d + 1 \in Int /\ Len(ms) \in Int /\ \A j \in (d + 1)..Len(ms) : ms[j] \in Msg
      BY <2>1
    <3>2. b \in Seq(Msg) /\ Len(b) = Len(ms) - (d + 1) + 1
      BY <2>1, <3>1, SubSeqProperties
    <3> QED
      BY <2>1, <3>2
  <2>5. a \o b = ms
    <3>1. 1 \in 1..(Len(ms) + 1) /\ d \in (1 - 1)..Len(ms) /\ Len(ms) \in d..Len(ms)
      BY <2>1
    <3>2. a \o b = SubSeq(ms, 1, Len(ms))
      BY <3>1, ConcatAdjacentSubSeq
    <3>3. SubSeq(ms, 1, Len(ms)) = ms
      BY SubSeqFull
    <3> QED
      BY <3>2, <3>3
  <2> HIDE DEF a, b
  <2> QED
    BY <2>2, <2>3, <2>4, <2>5
<1> QED
  BY <1>1, <1>2

(* A request keeps the blocks, and the last round if the window holds it.  *)
LEMMA RewriterKeeps ==
    ASSUME NEW ms \in Seq(Msg), window \in Nat \ {0}, Blocks(ms)
    PROVE  /\ MessageRewriter(ms) \in Seq(Msg) /\ Blocks(MessageRewriter(ms))
           /\ \A rr \in Seq(Of) :
                EndsWith(ms, rr) /\ Len(rr) < window => EndsWith(MessageRewriter(ms), rr)
<1>1. PICK a \in Seq(Msg) : \E b \in Seq(Msg) :
            ms = a \o b /\ b = MessageRewriter(ms) /\ (b = ms \/ Len(b) = window)
  BY RewriterFacts
<1>2. PICK b \in Seq(Msg) :
            ms = a \o b /\ b = MessageRewriter(ms) /\ (b = ms \/ Len(b) = window)
  BY <1>1
<1>3. Blocks(b)
  BY <1>2, SuffixBlocks
<1>4. ASSUME NEW rr \in Seq(Of), EndsWith(ms, rr), Len(rr) < window PROVE EndsWith(b, rr)
  <2>1. CASE b = ms
    BY <1>4, <2>1
  <2>2. CASE Len(b) = window
    <3>1. Len(rr) < Len(b) /\ EndsWith(a \o b, rr)
      BY <1>2, <1>4, <2>2
    <3> QED
      BY <3>1, EndsAfter
  <2> QED
    BY <1>2, <2>1, <2>2
<1> QED
  BY <1>2, <1>3, <1>4

(* eino's message for a result.                                            *)
LEMMA ResultFacts ==
    ASSUME NEW call \in Call
    PROVE  /\ Result(call) \in Msg /\ Result(call).role = "tool"
           /\ Result(call).id = call.id /\ Result(call).of = call.of
<1> DEFINE m == Message("tool", <<>>)
<1>1. m \in Msg /\ m.role = "tool"
  <2>1. <<>> \in Seq(Call) /\ "tool" \in {"system", "user", "assistant", "tool"}
    OBVIOUS
  <2> QED
    BY <2>1, MessageTypes, Zenon
<1>2. Result(call) = [m EXCEPT !.id = call.id, !.of = call.of]
  BY DEF Result
<1> HIDE DEF m
<1>3. call.id \in Ids \cup {""} /\ call.of \in Of \cup {Interrupted}
  BY DEF Call
<1> QED
  BY <1>1, <1>2, <1>3 DEF Msg

(* The results of a round, appended to the head they belong to.            *)
LEMMA RoundFacts ==
    ASSUME NEW ms \in Seq(Msg), Blocks(ms), ms # <<>>, IsHead(ms, Len(ms)),
           NEW R, R = [k \in DOMAIN ms[Len(ms)].calls |-> Result(ms[Len(ms)].calls[k])],
           NEW rr, rr = [k \in DOMAIN ms[Len(ms)].calls |-> ms[Len(ms)].calls[k].of]
    PROVE  /\ ms \o R \in Seq(Msg) /\ rr \in Seq(Of)
           /\ Blocks(ms \o R) /\ EndsWith(ms \o R, rr)
<1> DEFINE L == Len(ms)
           calls == ms[L].calls
           n == Len(calls)
           c == ms \o R
<1>1. L \in Nat /\ L # 0 /\ L \in DOMAIN ms /\ ms[L] \in Msg /\ DOMAIN ms = 1..L
  OBVIOUS
<1>2. calls \in Seq(Call) /\ calls # <<>>
  BY <1>1 DEF Msg, IsHead
<1>3. n \in Nat /\ Len(calls) = n /\ DOMAIN calls = 1..n /\ \A k \in 1..n : calls[k] \in Call
  BY <1>2
<1>3a. \A k \in 1..n : calls[k].of \in Of
  BY <1>3 DEF Call
<1>4. R = [k \in 1..n |-> Result(calls[k])] /\ rr = [k \in 1..n |-> calls[k].of]
  BY <1>3
<1>5. \A k \in 1..n : /\ Result(calls[k]) \in Msg /\ Result(calls[k]).role = "tool"
                      /\ Result(calls[k]).id = calls[k].id /\ Result(calls[k]).of = calls[k].of
  BY <1>3, ResultFacts
<1>6. IsHead(ms, L) /\ ms[L].role = "assistant"
  BY DEF IsHead
<1> HIDE DEF L, calls, n
<1>7. /\ R \in Seq(Msg) /\ Len(R) = n
      /\ \A k \in 1..n : R[k].role = "tool" /\ R[k].id = calls[k].id /\ R[k].of = calls[k].of
  BY <1>3, <1>4, <1>5
<1>8. rr \in Seq(Of) /\ Len(rr) = n /\ DOMAIN rr = 1..n /\ \A k \in 1..n : rr[k] = calls[k].of
  <2>1. rr \in [1..n -> Of]
    BY <1>3a, <1>4
  <2>2. n \in Nat
    BY <1>3
  <2>3. \A k \in 1..n : rr[k] = calls[k].of
    BY <1>4
  <2>4. rr \in Seq(Of) /\ Len(rr) = n /\ DOMAIN rr = 1..n
    BY ONLY <2>1, <2>2
  <2> QED
    BY <2>3, <2>4
<1>9. /\ c \in Seq(Msg) /\ Len(c) = L + n
      /\ (\A i \in 1..L : c[i] = ms[i]) /\ \A k \in 1..n : c[L + k] = R[k]
  BY <1>7, ConcatFacts DEF L
<1> HIDE DEF c
<1>9a. ASSUME NEW k \in 1..n
       PROVE  c[L + k].role = "tool" /\ c[L + k].id = calls[k].id /\ c[L + k].of = calls[k].of
  <2>1. c[L + k] = R[k]
    BY <1>9
  <2>2. R[k].role = "tool" /\ R[k].id = calls[k].id /\ R[k].of = calls[k].of
    BY <1>7
  <2> QED
    BY <2>1, <2>2
<1>10. c[L] = ms[L] /\ IsHead(c, L)
  BY <1>1, <1>6, <1>9 DEF IsHead
<1>11. ASSUME NEW i \in 1..L, i # L PROVE Results(c, i) = Results(ms, i)
  <2> DEFINE m == Len(Results(ms, i))
  <2>1. /\ i \in 0..Len(ms) /\ i \in 0..Len(c) /\ m \in 0..(Len(ms) - i) /\ Tools(ms, i, m)
    BY <1>1, <1>3, <1>9, ResultsRun DEF L
  <2> HIDE DEF m
  <2>2. i + m < L
    <3>1. ASSUME i + m = L PROVE FALSE
      <4>1. m \in 1..m /\ i + m = L
        BY <1>1, <1>11, <2>1, <3>1
      <4> QED
        BY <1>6, <2>1, <4>1 DEF Tools
    <3>2. i + m <= L /\ i + m \in Nat
      BY <1>1, <2>1 DEF L
    <3> QED
      BY <1>1, <3>1, <3>2
  <2>3. \A k \in 1..m : ms[i + k] = c[i + k]
    BY <1>1, <1>9, <2>1, <2>2
  <2>4. c[i + m + 1] = ms[i + m + 1]
    BY <1>1, <1>9, <2>1, <2>2
  <2>5. Tools(c, i, m)
    <3>1. m \in 0..(Len(c) - i)
      BY <1>1, <1>3, <1>9, <2>1, <2>2
    <3>2. \A k \in 1..m : c[i + k].role = "tool"
      BY <2>1, <2>3 DEF Tools
    <3>3. c[i + m + 1].role # "tool"
      BY <2>1, <2>2, <2>4 DEF Tools, L
    <3> QED
      BY <3>1, <3>2, <3>3 DEF Tools
  <2> QED
    BY <1>9, <2>1, <2>3, <2>5, SameResults DEF m
<1>12. Answered(c[L].calls, Results(c, L))
  <2> DEFINE r == Results(c, L)
  <2>1. L \in 0..Len(c) /\ n \in 0..(Len(c) - L) /\ ~(L + n < Len(c))
    BY <1>1, <1>3, <1>9
  <2>2. Tools(c, L, n)
    BY <1>7, <1>9, <2>1 DEF Tools
  <2>3. r \in Seq(Msg) /\ Len(r) = n /\ \A k \in 1..n : r[k] = c[L + k]
    BY <1>9, <2>1, <2>2, ResultsAre, ResultsRun
  <2> HIDE DEF r
  <2>4. c[L].calls = calls
    BY <1>10 DEF calls
  <2>5. Answered(calls, r)
    BY <1>3, <1>9a, <2>3 DEF Answered
  <2> QED
    BY <2>4, <2>5 DEF r
<1>13. Blocks(c)
  <2> SUFFICES ASSUME NEW i \in DOMAIN c, IsHead(c, i)
               PROVE  Results(c, i) = <<>> \/ Answered(c[i].calls, Results(c, i))
    BY DEF Blocks
  <2>1. CASE i = L
    BY <1>12, <2>1
  <2>2. CASE i \in 1..L /\ i # L
    <3>1. c[i] = ms[i] /\ Results(c, i) = Results(ms, i) /\ i \in DOMAIN ms
      BY <1>1, <1>9, <1>11, <2>2
    <3>2. IsHead(ms, i)
      BY <3>1 DEF IsHead
    <3> QED
      BY <3>1, <3>2 DEF Blocks
  <2>3. CASE ~(i \in 1..L)
    <3>1. i \in 1..(L + n)
      BY <1>9
    <3>2. PICK k \in 1..n : i = L + k
      <4>1. i - L \in 1..n /\ i = L + (i - L)
        BY <1>1, <1>3, <2>3, <3>1
      <4> QED
        BY <4>1
    <3>3. c[i].role = "tool"
      BY <1>9a, <3>2
    <3> QED
      BY <3>3 DEF IsHead
  <2> QED
    BY <2>1, <2>2, <2>3
<1>14. EndsWith(c, rr)
  <2>1. Len(c) - Len(rr) = L /\ L \in 1..Len(c)
    <3>1. Len(c) = L + n /\ Len(rr) = n /\ n \in Nat /\ L \in Nat /\ L # 0
      BY <1>1, <1>3, <1>8, <1>9
    <3> QED
      BY <3>1
  <2>2. c[L].calls = calls /\ Len(c[L].calls) = Len(rr)
    BY <1>8, <1>10 DEF calls, n
  <2>3. \A k \in DOMAIN rr :
            /\ calls[k].of = rr[k] /\ c[L + k].role = "tool" /\ c[L + k].id = calls[k].id
            /\ c[L + k].of = rr[k]
    BY <1>8, <1>9a
  <2> QED
    BY <1>10, <2>1, <2>2, <2>3 DEF EndsWith
<1> QED
  BY <1>8, <1>9, <1>13, <1>14 DEF c

-----------------------------------------------------------------------------
(* The arguments set at a finish reason *)

(* ChunkToolCall changes the arguments of one call, or nothing.            *)
LEMMA SetArgumentsFacts ==
    ASSUME NEW calls \in Seq(Call), NEW i, acc[i].args \in None..Closed
    PROVE  LET r == SetArguments(calls, i)
           IN  /\ r \in Seq(Call) /\ Len(r) = Len(calls)
               /\ \A k \in DOMAIN calls :
                    /\ calls[k].id # FinalId(i) => r[k] = calls[k]
                    /\ (\A l \in DOMAIN calls : calls[l].id = FinalId(i) <=> l = k) =>
                            r[k] = [calls[k] EXCEPT !.args = acc[i].args]
<1> DEFINE K == {k \in DOMAIN calls : calls[k].id = FinalId(i)}
           m == CHOOSE x \in K : \A y \in K : x =< y
           a == acc[i].args
           r == SetArguments(calls, i)
           n == Len(calls)
<1>1. n \in Nat /\ DOMAIN calls = 1..n /\ \A k \in 1..n : calls[k] \in Call
  OBVIOUS
<1>2. r = IF K = {} THEN calls ELSE [calls EXCEPT ![m] = [calls[m] EXCEPT !.args = a]]
  BY DEF SetArguments, Min
<1>3. K \in SUBSET Nat /\ K \subseteq 1..n
  BY <1>1
<1>4. a \in None..Closed
  OBVIOUS
<1>5. \A k \in 1..n : k \in K <=> calls[k].id = FinalId(i)
  BY <1>1
<1> HIDE DEF K, a, r, n
<1>6. CASE K = {}
  <2>1. r = calls
    BY <1>2, <1>6
  <2>2. \A k \in 1..n : calls[k].id # FinalId(i)
    BY <1>5, <1>6
  <2> QED
    BY <1>1, <2>1, <2>2 DEF r, n
<1>7. CASE K # {}
  <2>1. m \in K
    <3>1. \E x \in K : \A y \in K : x <= y
      BY <1>3, <1>7, Least
    <3> QED
      BY <3>1, Zenon
  <2> HIDE DEF m
  <2>2. m \in 1..n /\ calls[m] \in Call /\ calls[m].id = FinalId(i)
    BY <1>1, <1>3, <1>5, <2>1
  <2> DEFINE u == [calls[m] EXCEPT !.args = a]
  <2>3. u \in Call
    BY <1>4, <2>2 DEF Call
  <2>4. r = [calls EXCEPT ![m] = u]
    BY <1>2, <1>7
  <2> HIDE DEF u
  <2>5. r \in Seq(Call) /\ Len(r) = n
    BY <1>1, <2>2, <2>3, <2>4 DEF n
  <2>6. r[m] = u /\ \A k \in 1..n : k # m => r[k] = calls[k]
    BY <1>1, <2>2, <2>4
  <2>7. ASSUME NEW k \in DOMAIN calls
        PROVE  /\ calls[k].id # FinalId(i) => r[k] = calls[k]
               /\ (\A l \in DOMAIN calls : calls[l].id = FinalId(i) <=> l = k) =>
                        r[k] = [calls[k] EXCEPT !.args = a]
    <3>1. calls[k].id # FinalId(i) => r[k] = calls[k]
      BY <1>1, <2>2, <2>6
    <3>2. ASSUME \A l \in DOMAIN calls : calls[l].id = FinalId(i) <=> l = k
          PROVE  r[k] = [calls[k] EXCEPT !.args = a]
      <4>1. m = k
        BY <1>1, <2>2, <3>2
      <4>2. u = [calls[k] EXCEPT !.args = a]
        BY <4>1 DEF u
      <4> QED
        BY <2>6, <4>1, <4>2
    <3> QED
      BY <3>1, <3>2
  <2> QED
    BY <2>5, <2>7 DEF r, n, a
<1> QED
  BY <1>6, <1>7

\* g[n] are the calls after the first n of order.
SetInOrder(g) ==
    /\ g \in [0..Len(order) -> Seq(Call)]
    /\ g[0] = toolCalls
    /\ \A n \in 1..Len(order) : g[n] = SetArguments(g[n - 1], order[n])

(* The reply at a finish reason has the calls after all of order.          *)
LEMMA FinishCalls ==
    ASSUME TypeOK, StreamInv, Finish
    PROVE  \E g : SetInOrder(g) /\ Reply(g[Len(order)])
<1> DEFINE N == Len(order)
           D(g) == g = [n \in 0..N |-> IF n = 0 THEN toolCalls
                                       ELSE SetArguments(g[n - 1], order[n])]
           G == [n \in 1..N |-> [x \in Seq(Call) |-> SetArguments(x, order[n])]]
<1>1. N \in Nat /\ DOMAIN order = 1..N /\ toolCalls \in Seq(Call)
  <2>1. order \in Seq(Index) /\ toolCalls \in Seq(Call)
    BY DEF TypeOK
  <2> QED
    BY <2>1
<1>2. ASSUME NEW n \in 1..N PROVE acc[order[n]].args \in None..Closed
  <2>1. order[n] \in DOMAIN acc
    BY <1>1 DEF StreamInv
  <2>2. acc[order[n]] \in [id : Ids \cup {""}, name : {"", "tool"}, args : None..Whole]
    BY <2>1 DEF TypeOK
  <2>3. acc[order[n]].args \in None..Whole
    BY <2>2
  <2> QED
    BY <2>3 DEF None, Whole, Closed
<1>3. ASSUME NEW n \in 1..N, NEW x \in Seq(Call) PROVE SetArguments(x, order[n]) \in Seq(Call)
  BY <1>2, SetArgumentsFacts
<1>4. Reply((CHOOSE g : D(g))[N])
  BY DEF Finish
<1> HIDE DEF N
<1>5. G \in [1..N -> [Seq(Call) -> Seq(Call)]]
  BY <1>3
<1>6. PICK f : Chain(f, Seq(Call), toolCalls, N, G)
  <2> DEFINE Q == Seq(Call)
             a == toolCalls
  <2>1. a \in Q /\ N \in Nat /\ G \in [1..N -> [Q -> Q]]
    BY <1>1, <1>5
  <2> HIDE DEF G, Q, a
  <2>2. \E f : Chain(f, Q, a, N, G)
    BY <2>1, Recursion
  <2> QED
    BY <2>2 DEF Q, a
<1>7. f \in [0..N -> Seq(Call)] /\ f[0] = toolCalls /\ \A n \in 1..N : f[n] = G[n][f[n - 1]]
  BY <1>6 DEF Chain
<1>8. ASSUME NEW n \in 1..N PROVE f[n] = SetArguments(f[n - 1], order[n])
  <2>1. n - 1 \in 0..N
    BY <1>1
  <2>2. f[n - 1] \in Seq(Call)
    BY <1>7, <2>1
  <2> QED
    BY <1>7, <2>2
<1>9. D(f)
  <2>1. ASSUME NEW n \in 0..N
        PROVE  f[n] = IF n = 0 THEN toolCalls ELSE SetArguments(f[n - 1], order[n])
    <3>1. n # 0 => n \in 1..N
      BY <1>1
    <3> QED
      BY <1>7, <1>8, <3>1
  <2> QED
    BY <1>7, <2>1
<1> DEFINE g == CHOOSE x : D(x)
<1>10. D(g)
  BY <1>9, Zenon
<1>11. Reply(g[N])
  BY <1>4
<1> HIDE DEF g
<1>12. g[0] = toolCalls
  BY <1>1, <1>10
<1>13. ASSUME NEW n \in 1..N PROVE g[n] = SetArguments(g[n - 1], order[n])
  <2>1. n \in 0..N /\ n # 0
    BY <1>1
  <2> QED
    BY <1>10, <2>1
<1>14. \A n \in 0..N : g[n] \in Seq(Call)
  <2> DEFINE T == {n \in 0..N : g[n] \in Seq(Call)}
  <2>1. 0 \in T
    BY <1>1, <1>12
  <2>2. ASSUME NEW n \in 0..N, n \in T, n < N PROVE n + 1 \in T
    <3>1. n + 1 \in 1..N /\ n + 1 \in 0..N /\ (n + 1) - 1 = n
      BY <1>1, <2>2
    <3>2. g[n + 1] = SetArguments(g[n], order[n + 1])
      BY <1>13, <3>1
    <3>3. g[n] \in Seq(Call)
      BY <2>2
    <3>4. SetArguments(g[n], order[n + 1]) \in Seq(Call)
      BY <1>3, <3>1, <3>3
    <3> QED
      BY <3>1, <3>2, <3>4
  <2> HIDE DEF T
  <2>3. \A n \in 0..N : n \in T
    BY <1>1, <2>1, <2>2, Induction
  <2> QED
    BY <2>3 DEF T
<1>15. g \in [0..N -> Seq(Call)]
  BY <1>10, <1>14
<1> QED
  BY <1>11, <1>12, <1>13, <1>15 DEF SetInOrder, N

(* When every started call was started under an id that no other call has, *)
(* each gets the arguments that came for it.                               *)
LEMMA ArgumentsInOrder ==
    ASSUME TypeOK, StreamInv, Identified, NEW g, SetInOrder(g)
    PROVE  /\ Len(g[Len(order)]) = Len(toolCalls)
           /\ \A k \in DOMAIN toolCalls :
                g[Len(order)][k] = [toolCalls[k] EXCEPT !.args = acc[toolCalls[k].of[3]].args]
<1> DEFINE N == Len(order)
           of(k) == toolCalls[k].of[3]
           new(k) == [toolCalls[k] EXCEPT !.args = acc[of(k)].args]
           P(n) == /\ Len(g[n]) = Len(toolCalls)
                   /\ \A k \in DOMAIN toolCalls :
                        /\ g[n][k] \in {toolCalls[k], new(k)}
                        /\ (\E m \in 1..n : order[m] = of(k)) => g[n][k] = new(k)
           T == {n \in 0..N : P(n)}
<1>1. order \in Seq(Index) /\ toolCalls \in Seq(Call)
  BY DEF TypeOK
<1>2. /\ N \in Nat /\ DOMAIN order = 1..N /\ DOMAIN toolCalls = 1..Len(toolCalls)
      /\ \A k \in DOMAIN toolCalls : toolCalls[k] \in Call
  BY <1>1
<1>3. /\ g \in [0..N -> Seq(Call)] /\ g[0] = toolCalls
      /\ \A n \in 1..N : g[n] = SetArguments(g[n - 1], order[n])
  BY DEF SetInOrder
<1>4. \A n \in 1..N : order[n] \in DOMAIN acc
  BY <1>2 DEF StreamInv
<1>5. \A i \in DOMAIN acc : acc[i].args \in None..Closed
  <2>1. \A i \in DOMAIN acc :
            acc[i] \in [id : Ids \cup {""}, name : {"", "tool"}, args : None..Whole]
    BY DEF TypeOK
  <2>2. \A i \in DOMAIN acc : acc[i].args \in None..Whole
    BY <2>1
  <2> QED
    BY <2>2 DEF None, Whole, Closed
<1>6. \A k \in DOMAIN toolCalls : of(k) \in DOMAIN acc
  BY DEF StreamInv
<1>7. \A k, l \in DOMAIN toolCalls : of(k) = of(l) => k = l
  <2>1. \A k \in DOMAIN toolCalls : toolCalls[k].of = <<turns, rounds, of(k)>>
    BY DEF StreamInv
  <2>2. \A k, l \in DOMAIN toolCalls : toolCalls[k].of = toolCalls[l].of => k = l
    BY DEF StreamInv
  <2> HIDE DEF of
  <2> QED
    BY <2>1, <2>2
<1>8. \A k \in DOMAIN toolCalls : toolCalls[k].id = FinalId(of(k))
  BY DEF Identified, FinalId
<1>9. \A i, j \in DOMAIN acc : FinalId(i) = FinalId(j) => i = j
  BY DEF Identified
<1>10. \A k \in DOMAIN toolCalls : new(k) \in Call /\ new(k).id = toolCalls[k].id
  BY <1>2, <1>5, <1>6 DEF Call
<1> HIDE DEF N, of
<1>11. 0 \in T
  <2>1. 0 \in 0..N /\ ~(\E m \in 1..0 : TRUE)
    BY <1>2
  <2> QED
    BY <1>3, <2>1
<1>12. ASSUME NEW n \in 0..N, n \in T, n < N PROVE n + 1 \in T
  <2>1. n + 1 \in 1..N /\ n + 1 \in 0..N /\ (n + 1) - 1 = n
    BY <1>2, <1>12
  <2> DEFINE i == order[n + 1]
             c == g[n]
             r == g[n + 1]
  <2>2. c \in Seq(Call) /\ r = SetArguments(c, i) /\ i \in DOMAIN acc /\ acc[i].args \in None..Closed
    BY <1>3, <1>4, <1>5, <2>1
  <2>3. P(n)
    BY <1>12
  <2>4. DOMAIN c = DOMAIN toolCalls
    BY <1>2, <2>2, <2>3
  <2> HIDE DEF i, c, r
  <2>5. /\ r \in Seq(Call) /\ Len(r) = Len(c)
        /\ \A k \in DOMAIN c :
            /\ c[k].id # FinalId(i) => r[k] = c[k]
            /\ (\A l \in DOMAIN c : c[l].id = FinalId(i) <=> l = k) =>
                    r[k] = [c[k] EXCEPT !.args = acc[i].args]
    BY <2>2, SetArgumentsFacts
  <2>6. \A k \in DOMAIN toolCalls : c[k] \in {toolCalls[k], new(k)}
    BY <2>3 DEF c
  <2>7. \A k \in DOMAIN toolCalls : c[k].id = FinalId(of(k))
    BY <1>8, <1>10, <2>6
  <2>8. \A k \in DOMAIN toolCalls : c[k].id = FinalId(i) <=> of(k) = i
    BY <1>6, <1>9, <2>2, <2>7
  <2>9. ASSUME NEW k \in DOMAIN toolCalls
        PROVE  /\ r[k] \in {toolCalls[k], new(k)}
               /\ (\E m \in 1..(n + 1) : order[m] = of(k)) => r[k] = new(k)
    <3>1. CASE of(k) = i
      <4>1. \A l \in DOMAIN c : c[l].id = FinalId(i) <=> l = k
        BY <1>7, <2>4, <2>8, <3>1
      <4>2. r[k] = [c[k] EXCEPT !.args = acc[i].args]
        BY <2>4, <2>5, <4>1
      <4>3. [c[k] EXCEPT !.args = acc[i].args] = new(k)
        <5>1. c[k] = toolCalls[k] \/ c[k] = new(k)
          BY <2>6
        <5>2. toolCalls[k] \in Call
          BY <1>2
        <5> QED
          BY <3>1, <5>1, <5>2 DEF Call
      <4> QED
        BY <4>2, <4>3
    <3>2. CASE of(k) # i
      <4>1. r[k] = c[k]
        BY <2>4, <2>5, <2>8, <3>2
      <4>2. ASSUME NEW m \in 1..(n + 1), order[m] = of(k) PROVE \E l \in 1..n : order[l] = of(k)
        <5>1. m # n + 1
          BY <3>2, <4>2 DEF i
        <5>2. m \in 1..n
          BY <1>2, <5>1
        <5> QED
          BY <4>2, <5>2
      <4>3. (\E l \in 1..n : order[l] = of(k)) => c[k] = new(k)
        BY <2>3 DEF c
      <4> QED
        BY <2>6, <4>1, <4>2, <4>3
    <3> QED
      BY <3>1, <3>2
  <2>10. P(n + 1)
    BY <2>3, <2>5, <2>9 DEF r, c
  <2> QED
    BY <2>1, <2>10
<1> HIDE DEF T
<1>13. \A n \in 0..N : n \in T
  BY <1>2, <1>11, <1>12, Induction
<1>14. P(N)
  <2>1. N \in 0..N
    BY <1>2
  <2> QED
    BY <1>13, <2>1 DEF T
<1>15. ASSUME NEW k \in DOMAIN toolCalls PROVE \E m \in 1..N : order[m] = of(k)
  BY <1>2, <1>6 DEF StreamInv
<1>16. Len(g[N]) = Len(toolCalls) /\ \A k \in DOMAIN toolCalls : g[N][k] = new(k)
  BY <1>14, <1>15
<1> QED
  BY <1>16 DEF N, of

-----------------------------------------------------------------------------
(* Each step keeps the invariant *)

(* What the constants are.                                                 *)
LEMMA Constants ==
    /\ MaxCalls \in Nat /\ MaxDeltas \in Nat /\ MaxRounds \in Nat /\ MaxTurns \in Nat
    /\ \A w \in Windows : w \in Nat \ {0}
BY LoopAssumption

(* The messages the handlers and the bridge make.                          *)
LEMMA MadeMessages ==
    /\ System \in Msg /\ System.role = "system" /\ System.calls = <<>>
    /\ User \in Msg /\ User.role = "user"
    /\ \A calls \in Seq(Call) : /\ Assistant(calls) \in Msg
                                /\ Assistant(calls).role = "assistant"
                                /\ Assistant(calls).calls = calls
<1>1. /\ "system" \in {"system", "user", "assistant", "tool"}
      /\ "user" \in {"system", "user", "assistant", "tool"}
      /\ "assistant" \in {"system", "user", "assistant", "tool"}
      /\ <<>> \in Seq(Call)
  OBVIOUS
<1>2. System \in Msg /\ System.role = "system" /\ System.calls = <<>>
  BY <1>1, MessageTypes, Zenon DEF System
<1>3. User \in Msg /\ User.role = "user"
  BY <1>1, MessageTypes, Zenon DEF User
<1>4. ASSUME NEW calls \in Seq(Call)
      PROVE  /\ Assistant(calls) \in Msg /\ Assistant(calls).role = "assistant"
             /\ Assistant(calls).calls = calls
  BY <1>1, MessageTypes, Zenon DEF Assistant
<1> QED
  BY <1>2, <1>3, <1>4

(* Initially nothing has been said.                                        *)
LEMMA LoopInitially == Init => LoopInv
<1> SUFFICES ASSUME Init PROVE LoopInv
  OBVIOUS
<1>1. TypeOK
  BY Constants DEF Init, TypeOK
<1>2. HistoryInv
  BY DEF Init, HistoryInv
<1>3. BlockInv
  BY DEF Init, BlockInv, Blocks
<1>4. RanInv
  BY DEF Init, RanInv
<1>5. StreamInv
  BY DEF Init, StreamInv
<1> QED
  BY <1>1, <1>2, <1>3, <1>4, <1>5 DEF LoopInv

(* The types, for the steps that need a few of them.                       *)
LEMMA Types ==
    ASSUME LoopInv
    PROVE  /\ history \in Seq(Msg) /\ msgs \in Seq(Msg) /\ order \in Seq(Index)
           /\ toolCalls \in Seq(Call) /\ ran \in Seq(Of)
           /\ window \in Windows /\ window \in Nat \ {0}
           /\ turns \in 0..MaxTurns /\ turns \in Nat
           /\ rounds \in 0..MaxRounds /\ seen \in 0..MaxDeltas
<1>1. /\ history \in Seq(Msg) /\ msgs \in Seq(Msg) /\ order \in Seq(Index)
      /\ toolCalls \in Seq(Call) /\ ran \in Seq(Of)
  BY DEF LoopInv, TypeOK
<1>2. window \in Windows /\ turns \in 0..MaxTurns /\ rounds \in 0..MaxRounds /\ seen \in 0..MaxDeltas
  BY DEF LoopInv, TypeOK
<1>3. turns \in Nat
  BY <1>2
<1> QED
  BY <1>1, <1>2, <1>3, Constants

(* The end of a run, whatever was stored.                                  *)
LEMMA EndTurnInv ==
    ASSUME LoopInv, EndTurn, UNCHANGED <<window, turns>>,
           history' \in Seq(Msg), Len(history') <= 2 * turns,
           \A i \in DOMAIN history' : history'[i].role # "tool"
    PROVE  LoopInv'
<1>1. TypeOK'
  <2>1. turns \in 0..MaxTurns /\ window \in Windows
    BY Types
  <2>2. Len(history') \in Nat
    OBVIOUS
  <2>3. Len(history') <= 2 * MaxTurns
    BY <2>1, <2>2, Constants
  <2>4. 0 \in 0..MaxDeltas /\ 0 \in 0..MaxRounds
    BY Constants
  <2> QED
    BY <2>1, <2>3, <2>4 DEF TypeOK, EndTurn, NoStream
<1>2. HistoryInv'
  <2>1. Len(history') \in Nat
    OBVIOUS
  <2>2. Len(history') + 0 <= 2 * turns
    BY <2>1
  <2> QED
    BY <2>2 DEF HistoryInv, EndTurn
<1>3. BlockInv'
  BY DEF BlockInv, Blocks, EndTurn
<1>4. RanInv'
  BY DEF RanInv, EndTurn
<1>5. StreamInv'
  BY DEF StreamInv, EndTurn, NoStream
<1> QED
  BY <1>1, <1>2, <1>3, <1>4, <1>5 DEF LoopInv

(* A stored turn adds two messages, none of them a tool message.           *)
LEMMA StoreInv ==
    ASSUME LoopInv, phase # "idle", NEW m \in Msg, m.role # "tool",
           Store(m), UNCHANGED <<window, turns>>
    PROVE  LoopInv'
<1> DEFINE b == <<User, m>>
           h == history \o b
<1>1. history \in Seq(Msg) /\ turns \in Nat /\ User \in Msg
  BY MadeMessages, Types
<1>2. b \in Seq(Msg) /\ Len(b) = 2 /\ b[1] = User /\ b[2] = m
  BY <1>1
<1>3. history' = h
  BY DEF Store
<1> HIDE DEF b
<1>4. /\ h \in Seq(Msg) /\ Len(history) \in Nat /\ Len(h) = Len(history) + 2
      /\ \A i \in 1..Len(history) : h[i] = history[i]
      /\ \A j \in 1..2 : h[Len(history) + j] = b[j]
  <2>1. /\ h \in Seq(Msg) /\ Len(history) \in Nat /\ Len(h) = Len(history) + Len(b)
        /\ \A i \in 1..Len(history) : h[i] = history[i]
        /\ \A j \in 1..Len(b) : h[Len(history) + j] = b[j]
    BY <1>1, <1>2, ConcatFacts
  <2> HIDE DEF h
  <2> QED
    BY <1>2, <2>1
<1>5. \A i \in DOMAIN h : i \in 1..Len(history) \/ \E j \in 1..2 : i = Len(history) + j
  BY <1>1, <1>2, ConcatPlace
<1> HIDE DEF h
<1>6. \A i \in 1..Len(history) : history[i].role # "tool"
  BY <1>1 DEF LoopInv, HistoryInv
<1>7. \A j \in 1..2 : b[j].role # "tool"
  BY <1>2, MadeMessages
<1>8. \A i \in DOMAIN h : h[i].role # "tool"
  BY <1>4, <1>5, <1>6, <1>7
<1>9. Len(h) <= 2 * turns
  <2>1. Len(history) + 2 <= 2 * turns
    BY DEF LoopInv, HistoryInv
  <2> QED
    BY <1>4, <2>1
<1>10. EndTurn
  BY DEF Store
<1> QED
  BY <1>3, <1>4, <1>8, <1>9, <1>10, EndTurnInv

(* A failed run stores nothing.                                            *)
LEMMA FailInv ==
    ASSUME LoopInv, Fail
    PROVE  LoopInv'
<1>1. /\ history \in Seq(Msg) /\ Len(history) + 2 <= 2 * turns /\ turns \in Nat
      /\ \A i \in DOMAIN history : history[i].role # "tool"
  <2>1. history \in Seq(Msg) /\ turns \in Nat
    BY Types
  <2>2. Len(history) + 2 <= 2 * turns /\ \A i \in DOMAIN history : history[i].role # "tool"
    BY DEF LoopInv, HistoryInv, Fail
  <2> QED
    BY <2>1, <2>2
<1>2. EndTurn /\ history' = history /\ UNCHANGED <<window, turns>>
  BY DEF Fail
<1>3. Len(history) <= 2 * turns
  BY <1>1
<1> QED
  BY <1>1, <1>2, <1>3, EndTurnInv

(* A reply is the answer, or a head for which tools are run.               *)
LEMMA ReplyInv ==
    ASSUME LoopInv, NEW calls \in Seq(Call), Reply(calls)
    PROVE  LoopInv'
<1>1. phase = "stream" /\ UNCHANGED <<window, turns>>
  BY DEF Reply
<1>2. CASE calls = <<>> /\ Store(Assistant(<<>>))
  <2> DEFINE m == Assistant(<<>>)
  <2>1. m \in Msg /\ m.role = "assistant"
    <3>1. <<>> \in Seq(Call)
      OBVIOUS
    <3> QED
      BY <3>1, MadeMessages, Zenon
  <2>2. Store(m)
    BY <1>2
  <2> HIDE DEF m
  <2> QED
    BY <1>1, <2>1, <2>2, StoreInv
<1>3. CASE /\ calls # <<>>
           /\ msgs' = Append(msgs, Assistant(calls))
           /\ phase' = "tools"
           /\ NoStream
           /\ UNCHANGED <<handler, history, seen, ran, rounds>>
  <2> DEFINE m == Assistant(calls)
             ms == Append(msgs, m)
  <2>1. m \in Msg /\ m.role = "assistant" /\ m.calls = calls
    BY MadeMessages
  <2>2. msgs \in Seq(Msg) /\ Blocks(msgs) /\ msgs' = ms
    BY <1>3 DEF LoopInv, TypeOK, BlockInv
  <2> HIDE DEF m
  <2>3. ms \in Seq(Msg) /\ Blocks(ms)
    BY <2>1, <2>2, AppendBlocks
  <2>4. Len(ms) = Len(msgs) + 1 /\ ms[Len(ms)] = m /\ ms # <<>>
    BY <2>1, <2>2
  <2> HIDE DEF ms
  <2>5. IsHead(ms, Len(ms))
    BY <1>3, <2>1, <2>4 DEF IsHead
  <2>6. TypeOK'
    <3>1. TypeOK
      BY DEF LoopInv
    <3>2. msgs' \in Seq(Msg)
      BY <2>2, <2>3
    <3>3. /\ phase' = "tools" /\ acc' = <<>> /\ order' = <<>> /\ toolCalls' = <<>>
          /\ UNCHANGED <<handler, history, seen, ran, rounds, window, turns>>
      BY <1>1, <1>3 DEF NoStream
    <3>4. /\ DOMAIN acc' \subseteq Index
          /\ \A i \in DOMAIN acc' :
                acc'[i] \in [id : Ids \cup {""}, name : {"", "tool"}, args : None..Whole]
          /\ order' \in Seq(Index) /\ toolCalls' \in Seq(Call)
      BY <3>3
    <3>5. /\ phase' \in {"idle", "stream", "tools"} /\ handler' \in {"none", "chat", "stream"}
          /\ history' \in Seq(Msg) /\ ran' \in Seq(Of) /\ window' \in Windows
      BY <3>1, <3>3 DEF TypeOK
    <3>6. /\ Len(history') <= 2 * MaxTurns /\ seen' \in 0..MaxDeltas
          /\ rounds' \in 0..MaxRounds /\ turns' \in 0..MaxTurns
      BY <3>1, <3>3 DEF TypeOK
    <3> QED
      BY <3>2, <3>4, <3>5, <3>6 DEF TypeOK
  <2>7. HistoryInv'
    BY <1>1, <1>3 DEF LoopInv, HistoryInv
  <2>8. BlockInv'
    BY <2>2, <2>3, <2>4, <2>5 DEF BlockInv
  <2>9. RanInv'
    BY <1>3 DEF RanInv
  <2>10. StreamInv'
    BY <1>3 DEF StreamInv, NoStream
  <2> QED
    BY <2>6, <2>7, <2>8, <2>9, <2>10 DEF LoopInv
<1> QED
  BY <1>2, <1>3 DEF Reply

(* A new turn: the session, which has no results to lose, and the prompt.  *)
LEMMA NewTurnInv ==
    ASSUME LoopInv, NEW h \in {"chat", "stream"}, NewTurn(h)
    PROVE  LoopInv'
<1> DEFINE ms == Append(history, User)
           new == MessageRewriter(ms)
<1>1. /\ phase = "idle" /\ turns < MaxTurns /\ turns' = turns + 1 /\ handler' = h
      /\ msgs' = new /\ phase' = "stream"
      /\ UNCHANGED <<history, acc, order, toolCalls, seen, ran, rounds, window>>
  BY DEF NewTurn, Ask, stream
<1>2. acc' = <<>> /\ order' = <<>> /\ toolCalls' = <<>> /\ ran' = <<>>
  BY <1>1 DEF LoopInv, StreamInv, RanInv
<1>3. history \in Seq(Msg) /\ window \in Nat \ {0} /\ User \in Msg /\ User.role # "tool"
  BY Types, MadeMessages
<1>4. Blocks(history)
  BY <1>3, NoToolBlocks DEF LoopInv, HistoryInv
<1>5. ms \in Seq(Msg) /\ Blocks(ms)
  BY <1>3, <1>4, AppendBlocks
<1> HIDE DEF ms
<1>6. new \in Seq(Msg) /\ Blocks(new)
  BY <1>3, <1>5, RewriterKeeps
<1> HIDE DEF new
<1>7. TypeOK'
  <2>1. TypeOK
    BY DEF LoopInv
  <2>2. /\ DOMAIN acc' \subseteq Index
        /\ \A i \in DOMAIN acc' :
                acc'[i] \in [id : Ids \cup {""}, name : {"", "tool"}, args : None..Whole]
        /\ order' \in Seq(Index) /\ toolCalls' \in Seq(Call) /\ ran' \in Seq(Of)
    BY <1>2
  <2>3. /\ phase' \in {"idle", "stream", "tools"} /\ handler' \in {"none", "chat", "stream"}
        /\ history' \in Seq(Msg) /\ window' \in Windows /\ msgs' \in Seq(Msg)
    BY <1>1, <1>6, <2>1 DEF TypeOK
  <2>4. Len(history') <= 2 * MaxTurns /\ seen' \in 0..MaxDeltas /\ rounds' \in 0..MaxRounds
    BY <1>1, <2>1 DEF TypeOK
  <2>5. turns' \in 0..MaxTurns
    BY <1>1, Types, Constants
  <2> QED
    BY <2>2, <2>3, <2>4, <2>5 DEF TypeOK
<1>8. HistoryInv'
  <2>1. Len(history) + 0 <= 2 * turns /\ \A i \in DOMAIN history : history[i].role # "tool"
    BY <1>1 DEF LoopInv, HistoryInv
  <2>2. Len(history) \in Nat /\ turns \in Nat
    BY <1>3, Types
  <2>3. Len(history) + 2 <= 2 * (turns + 1)
    BY <2>1, <2>2
  <2> QED
    BY <1>1, <2>1, <2>3 DEF HistoryInv
<1>9. BlockInv'
  BY <1>1, <1>6 DEF BlockInv
<1>10. RanInv'
  BY <1>1, <1>2 DEF RanInv
<1>11. StreamInv'
  BY <1>1, <1>2 DEF StreamInv
<1> QED
  BY <1>7, <1>8, <1>9, <1>10, <1>11 DEF LoopInv

(* The tools are run: their results follow the head they belong to.        *)
LEMMA RunToolsInv ==
    ASSUME LoopInv, RunTools
    PROVE  LoopInv'
<1> DEFINE calls == msgs[Len(msgs)].calls
           R == [k \in DOMAIN calls |-> Result(calls[k])]
           rr == [k \in DOMAIN calls |-> calls[k].of]
           ms == msgs \o R
           new == MessageRewriter(ms)
<1>1. /\ phase = "tools" /\ rounds < MaxRounds /\ rounds' = rounds + 1 /\ ran' = rr
      /\ msgs' = new /\ phase' = "stream"
      /\ UNCHANGED <<handler, history, acc, order, toolCalls, seen, window, turns>>
  BY DEF RunTools, Ask, stream, Last
<1>2. acc' = <<>> /\ order' = <<>> /\ toolCalls' = <<>>
  BY <1>1 DEF LoopInv, StreamInv
<1>3. /\ msgs \in Seq(Msg) /\ window \in Nat \ {0} /\ Blocks(msgs)
      /\ msgs # <<>> /\ IsHead(msgs, Len(msgs))
  BY <1>1, Types DEF LoopInv, BlockInv
<1>4. ms \in Seq(Msg) /\ rr \in Seq(Of) /\ Blocks(ms) /\ EndsWith(ms, rr)
  <2>1. /\ R = [k \in DOMAIN msgs[Len(msgs)].calls |-> Result(msgs[Len(msgs)].calls[k])]
        /\ rr = [k \in DOMAIN msgs[Len(msgs)].calls |-> msgs[Len(msgs)].calls[k].of]
    OBVIOUS
  <2> HIDE DEF R, rr
  <2> QED
    BY <1>3, <2>1, RoundFacts
<1> HIDE DEF ms, rr
<1>5. /\ new \in Seq(Msg) /\ Blocks(new)
      /\ Len(rr) < window => EndsWith(new, rr)
  BY <1>3, <1>4, RewriterKeeps
<1> HIDE DEF new
<1>6. TypeOK'
  <2>1. TypeOK
    BY DEF LoopInv
  <2>2. /\ DOMAIN acc' \subseteq Index
        /\ \A i \in DOMAIN acc' :
                acc'[i] \in [id : Ids \cup {""}, name : {"", "tool"}, args : None..Whole]
        /\ order' \in Seq(Index) /\ toolCalls' \in Seq(Call)
    BY <1>2
  <2>3. /\ phase' \in {"idle", "stream", "tools"} /\ handler' \in {"none", "chat", "stream"}
        /\ history' \in Seq(Msg) /\ window' \in Windows /\ msgs' \in Seq(Msg) /\ ran' \in Seq(Of)
    BY <1>1, <1>4, <1>5, <2>1 DEF TypeOK
  <2>4. Len(history') <= 2 * MaxTurns /\ seen' \in 0..MaxDeltas /\ turns' \in 0..MaxTurns
    BY <1>1, <2>1 DEF TypeOK
  <2>5. rounds' \in 0..MaxRounds
    BY <1>1, Types, Constants
  <2> QED
    BY <2>2, <2>3, <2>4, <2>5 DEF TypeOK
<1>7. HistoryInv'
  BY <1>1 DEF LoopInv, HistoryInv
<1>8. BlockInv'
  BY <1>1, <1>5 DEF BlockInv
<1>9. RanInv'
  BY <1>1, <1>5 DEF RanInv
<1>10. StreamInv'
  BY <1>1, <1>2 DEF StreamInv
<1> QED
  BY <1>6, <1>7, <1>8, <1>9, <1>10 DEF LoopInv

(* While a turn runs it has a number.                                      *)
LEMMA TurnOpen ==
    ASSUME LoopInv, phase # "idle"
    PROVE  turns \in 1..MaxTurns
<1>1. history \in Seq(Msg) /\ turns \in 0..MaxTurns
  BY Types
<1>2. Len(history) \in Nat
  BY <1>1
<1>3. Len(history) + 2 <= 2 * turns
  BY DEF LoopInv, HistoryInv
<1> QED
  BY <1>1, <1>2, <1>3, Constants

(* A call of this round is a call.                                         *)
LEMMA CallOfRound ==
    ASSUME LoopInv, phase # "idle", NEW i \in Index,
           NEW id \in Ids \cup {""}, NEW name \in {"", "tool"}, NEW args \in None..Closed
    PROVE  [id |-> id, name |-> name, args |-> args, of |-> <<turns, rounds, i>>] \in Call
<1>1. <<turns, rounds, i>> \in Of
  BY TurnOpen, Types DEF Of
<1> QED
  BY <1>1 DEF Call

(* What the next lemma needs of the numbers and of sequences.              *)
LEMMA RecoveredFacts ==
    /\ \A n \in 0..MaxCalls : n \in Nat /\ 1..n \subseteq Index
    /\ Whole \in None..Closed
    /\ <<>> \in Seq(Call)
    /\ \A n \in Nat : \A f \in [1..n -> Call] : f \in Seq(Call)
<1>1. \A n \in 0..MaxCalls : n \in Nat /\ 1..n \subseteq Index
  BY Constants DEF Index
<1>2. Whole \in None..Closed
  BY DEF Whole, None, Closed
<1>3. <<>> \in Seq(Call)
  OBVIOUS
<1>4. \A n \in Nat : \A f \in [1..n -> Call] : f \in Seq(Call)
  OBVIOUS
<1> QED
  BY <1>1, <1>2, <1>3, <1>4

(* The calls of a recovered reply are calls.                               *)
LEMMA RecoveredCalls ==
    ASSUME LoopInv, phase # "idle", NEW n \in 0..MaxCalls, NEW ids \in [1..n -> Ids \cup {""}]
    PROVE  [k \in 1..n |-> [id |-> ids[k], name |-> "tool", args |-> Whole,
                            of |-> <<turns, rounds, k>>]] \in Seq(Call)
<1> DEFINE call(k) == [id |-> ids[k], name |-> "tool", args |-> Whole, of |-> <<turns, rounds, k>>]
<1>1. n \in Nat /\ 1..n \subseteq Index
  BY RecoveredFacts, Zenon
<1>2. Whole \in None..Closed
  BY RecoveredFacts, Zenon
<1>3. ASSUME NEW k \in 1..n PROVE call(k) \in Call
  <2>1. k \in Index /\ ids[k] \in Ids \cup {""} /\ "tool" \in {"", "tool"}
    BY <1>1
  <2> QED
    BY <1>2, <2>1, CallOfRound
<1> HIDE DEF call
<1>4. [k \in 1..n |-> call(k)] \in [1..n -> Call]
  BY <1>3
<1>5. [k \in 1..n |-> call(k)] \in Seq(Call)
  BY <1>1, <1>4, RecoveredFacts, Zenon
<1> QED
  BY <1>5 DEF call

(* The reply of the fallback is stored with its calls, or without them.    *)
LEMMA RecoverInv ==
    ASSUME LoopInv, Recover
    PROVE  LoopInv'
<1>1. phase = "stream" /\ UNCHANGED <<window, turns>>
  BY DEF Recover
<1>2. \E c \in Seq(Call) : Store(Assistant(c))
  <2>1. PICK n \in 0..MaxCalls : \E ids \in [1..n -> Ids \cup {""}] :
          Store(Assistant(IF handler = "chat"
                          THEN [k \in 1..n |-> [id |-> ids[k], name |-> "tool", args |-> Whole,
                                                of |-> <<turns, rounds, k>>]]
                          ELSE <<>>))
    BY DEF Recover
  <2>2. PICK ids \in [1..n -> Ids \cup {""}] :
          Store(Assistant(IF handler = "chat"
                          THEN [k \in 1..n |-> [id |-> ids[k], name |-> "tool", args |-> Whole,
                                                of |-> <<turns, rounds, k>>]]
                          ELSE <<>>))
    BY <2>1
  <2> DEFINE calls == [k \in 1..n |-> [id |-> ids[k], name |-> "tool", args |-> Whole,
                                       of |-> <<turns, rounds, k>>]]
  <2>3. calls \in Seq(Call)
    BY <1>1, RecoveredCalls
  <2>4. Store(Assistant(IF handler = "chat" THEN calls ELSE <<>>))
    BY <2>2
  <2> HIDE DEF calls
  <2>5. PICK c : c = IF handler = "chat" THEN calls ELSE <<>>
    OBVIOUS
  <2>6. c \in Seq(Call)
    BY <2>3, <2>5, RecoveredFacts, Zenon
  <2>7. Store(Assistant(c))
    BY <2>4, <2>5
  <2> QED
    BY <2>6, <2>7
<1>3. PICK c \in Seq(Call) : Store(Assistant(c))
  BY <1>2
<1> DEFINE m == Assistant(c)
<1>4. m \in Msg /\ m.role = "assistant" /\ Store(m)
  BY <1>3, MadeMessages
<1> HIDE DEF m
<1> QED
  BY <1>1, <1>4, StoreInv

(* The finish reason, and the end of the stream without one.               *)
LEMMA FinishInv ==
    ASSUME LoopInv, Finish
    PROVE  LoopInv'
<1>1. PICK g : SetInOrder(g) /\ Reply(g[Len(order)])
  BY FinishCalls DEF LoopInv
<1>2. PICK c : c = g[Len(order)]
  OBVIOUS
<1>3. c \in Seq(Call)
  <2>1. order \in Seq(Index)
    BY Types
  <2>2. Len(order) \in 0..Len(order)
    BY <2>1
  <2> QED
    BY <1>1, <1>2, <2>2 DEF SetInOrder
<1>4. Reply(c)
  BY <1>1, <1>2 DEF Reply
<1> QED
  BY <1>3, <1>4, ReplyInv

(* Without a finish reason the calls are as they were started.             *)
LEMMA StopInv ==
    ASSUME LoopInv, Stop
    PROVE  LoopInv'
<1>1. PICK c : c = toolCalls
  OBVIOUS
<1>2. c \in Seq(Call)
  BY <1>1, Types
<1>3. Reply(c)
  BY <1>1 DEF Stop, Reply
<1> QED
  BY <1>2, <1>3, ReplyInv

\* An entry of readStreamState's map.
Entry == [id : Ids \cup {""}, name : {"", "tool"}, args : None..Whole]

\* A delta of index i makes its entry new.
Entered(i, new) ==
    LET of == <<turns, rounds, i>>
    IN  /\ phase = "stream" /\ seen < MaxDeltas /\ seen' = seen + 1
        /\ acc' = [k \in DOMAIN acc \cup {i} |-> IF k = i THEN new ELSE acc[k]]
        /\ order' = IF i \in DOMAIN acc THEN order ELSE Append(order, i)
        /\ toolCalls' =
            IF new.name # "" /\ \A k \in DOMAIN toolCalls : toolCalls[k].of # of
            THEN Append(toolCalls, [id |-> new.id, name |-> new.name, args |-> None, of |-> of])
            ELSE toolCalls
        /\ UNCHANGED <<phase, handler, history, msgs, ran, window, rounds, turns>>

(* The numbers of an entry.                                                *)
LEMMA EntryArgs ==
    /\ None \in None..Whole /\ None \in None..Closed
    /\ \A a \in None..Whole : \A p \in {0, 1} : a + p <= Whole => a + p \in None..Whole
BY DEF None, Whole, Closed

(* A delta makes an entry of one.                                          *)
LEMMA DeltaEnters ==
    ASSUME LoopInv, NEW i \in Index, NEW id \in Ids \cup {""}, NEW name \in {"", "tool"},
           NEW part \in {0, 1}, Delta(i, id, name, part)
    PROVE  \E new \in Entry : Entered(i, new)
<1> DEFINE old == IF i \in DOMAIN acc THEN acc[i] ELSE [id |-> "", name |-> "", args |-> None]
           new == [id   |-> IF id = "" THEN old.id ELSE id,
                   name |-> IF name = "" THEN old.name ELSE name,
                   args |-> old.args + part]
<1>1. Entered(i, new) /\ new.args <= Whole
  BY DEF Delta, Entered
<1>2. old \in Entry
  <2>1. [id |-> "", name |-> "", args |-> None] \in Entry
    BY EntryArgs DEF Entry
  <2>2. \A k \in DOMAIN acc : acc[k] \in Entry
    BY DEF LoopInv, TypeOK, Entry
  <2> QED
    BY <2>1, <2>2
<1> HIDE DEF old
<1>3. new \in Entry
  <2>1. old.id \in Ids \cup {""} /\ old.name \in {"", "tool"} /\ old.args \in None..Whole
    BY <1>2 DEF Entry
  <2>2. old.args + part <= Whole
    BY <1>1
  <2>3. old.args + part \in None..Whole
    BY <2>1, <2>2, EntryArgs, Zenon
  <2> QED
    BY <2>1, <2>3 DEF Entry
<1> HIDE DEF new
<1> QED
  BY <1>1, <1>3

(* The entry is in order, and its call may be started.                     *)
LEMMA EnteredInv ==
    ASSUME LoopInv, NEW i \in Index, NEW new \in Entry, Entered(i, new)
    PROVE  LoopInv'
<1> DEFINE of == <<turns, rounds, i>>
           call == [id |-> new.id, name |-> new.name, args |-> None, of |-> of]
           starts == new.name # "" /\ \A k \in DOMAIN toolCalls : toolCalls[k].of # of
<1>1. phase = "stream" /\ seen < MaxDeltas /\ seen' = seen + 1
  BY DEF Entered
<1>2. acc' = [k \in DOMAIN acc \cup {i} |-> IF k = i THEN new ELSE acc[k]]
  BY DEF Entered
<1>3. order' = IF i \in DOMAIN acc THEN order ELSE Append(order, i)
  BY DEF Entered
<1>4. toolCalls' = IF starts THEN Append(toolCalls, call) ELSE toolCalls
  BY DEF Entered
<1>5. UNCHANGED <<phase, handler, history, msgs, ran, window, rounds, turns>>
  BY DEF Entered
<1>6. /\ DOMAIN acc \subseteq Index /\ \A k \in DOMAIN acc : acc[k] \in Entry
      /\ order \in Seq(Index) /\ toolCalls \in Seq(Call)
  BY DEF LoopInv, TypeOK, Entry
<1>7. call \in Call
  <2>1. new.id \in Ids \cup {""} /\ new.name \in {"", "tool"} /\ None \in None..Closed
    BY EntryArgs DEF Entry
  <2>2. phase # "idle"
    BY <1>1
  <2> QED
    BY <2>1, <2>2, CallOfRound
<1>8. call.of = of
  OBVIOUS
<1> HIDE DEF call, of, starts
<1>9. /\ DOMAIN acc' = DOMAIN acc \cup {i} /\ DOMAIN acc' \subseteq Index
       /\ \A k \in DOMAIN acc' : acc'[k] \in Entry
  BY <1>2, <1>6
<1>10. /\ order' \in Seq(Index)
       /\ \A n \in DOMAIN order' : order'[n] \in DOMAIN acc'
       /\ \A k \in DOMAIN acc' : \E n \in DOMAIN order' : order'[n] = k
  <2>1. /\ \A n \in DOMAIN order : order[n] \in DOMAIN acc
        /\ \A k \in DOMAIN acc : \E n \in DOMAIN order : order[n] = k
    BY DEF LoopInv, StreamInv
  <2>2. CASE i \in DOMAIN acc
    BY <1>3, <1>6, <1>9, <2>1, <2>2
  <2>3. CASE i \notin DOMAIN acc
    <3>1. order' = Append(order, i)
      BY <1>3, <2>3
    <3>2. /\ order' \in Seq(Index) /\ Len(order) \in Nat /\ Len(order') = Len(order) + 1
          /\ \A n \in 1..Len(order) : order'[n] = order[n]
          /\ order'[Len(order) + 1] = i
      BY <1>6, <3>1
    <3>3. DOMAIN order = 1..Len(order) /\ DOMAIN order' = 1..(Len(order) + 1)
      BY <1>6, <3>2
    <3>4. ASSUME NEW n \in DOMAIN order' PROVE order'[n] \in DOMAIN acc'
      <4>1. n \in 1..Len(order) \/ n = Len(order) + 1
        BY <3>2, <3>3
      <4> QED
        BY <1>9, <2>1, <3>2, <3>3, <4>1
    <3>5. ASSUME NEW k \in DOMAIN acc' PROVE \E n \in DOMAIN order' : order'[n] = k
      <4>1. CASE k = i
        <5>1. Len(order) + 1 \in DOMAIN order'
          BY <3>2, <3>3
        <5> QED
          BY <3>2, <4>1, <5>1
      <4>2. CASE k \in DOMAIN acc
        <5>1. PICK n \in DOMAIN order : order[n] = k
          BY <2>1, <4>2
        <5>2. n \in 1..Len(order) /\ n \in DOMAIN order'
          BY <3>2, <3>3
        <5> QED
          BY <3>2, <5>1, <5>2
      <4> QED
        BY <1>9, <4>1, <4>2
    <3> QED
      BY <3>2, <3>4, <3>5
  <2> QED
    BY <2>2, <2>3
<1>11. /\ toolCalls' \in Seq(Call)
       /\ \A k \in DOMAIN toolCalls' : \E j \in DOMAIN acc' : toolCalls'[k].of = <<turns, rounds, j>>
       /\ \A k, l \in DOMAIN toolCalls' : toolCalls'[k].of = toolCalls'[l].of => k = l
  <2>1. /\ \A k \in DOMAIN toolCalls : \E j \in DOMAIN acc : toolCalls[k].of = <<turns, rounds, j>>
        /\ \A k, l \in DOMAIN toolCalls : toolCalls[k].of = toolCalls[l].of => k = l
    BY DEF LoopInv, StreamInv
  <2>2. \A k \in DOMAIN toolCalls : \E j \in DOMAIN acc' : toolCalls[k].of = <<turns, rounds, j>>
    BY <1>9, <2>1
  <2>3. CASE ~starts
    <3>1. toolCalls' = toolCalls
      BY <1>4, <2>3
    <3> QED
      BY <1>6, <2>1, <2>2, <3>1
  <2>4. CASE starts
    <3>1. toolCalls' = Append(toolCalls, call)
      BY <1>4, <2>4
    <3>2. \A k \in DOMAIN toolCalls : toolCalls[k].of # of
      BY <2>4 DEF starts
    <3>3. /\ toolCalls' \in Seq(Call) /\ Len(toolCalls) \in Nat
          /\ Len(toolCalls') = Len(toolCalls) + 1
          /\ \A n \in 1..Len(toolCalls) : toolCalls'[n] = toolCalls[n]
          /\ toolCalls'[Len(toolCalls) + 1] = call
      BY <1>6, <1>7, <3>1
    <3>4. DOMAIN toolCalls = 1..Len(toolCalls) /\ DOMAIN toolCalls' = 1..(Len(toolCalls) + 1)
      BY <1>6, <3>3
    <3>5. \A k \in DOMAIN toolCalls' :
            \/ k \in DOMAIN toolCalls /\ toolCalls'[k] = toolCalls[k]
            \/ k = Len(toolCalls) + 1 /\ toolCalls'[k].of = of
      BY <1>8, <3>3, <3>4
    <3>6. ASSUME NEW k \in DOMAIN toolCalls'
          PROVE  \E j \in DOMAIN acc' : toolCalls'[k].of = <<turns, rounds, j>>
      <4>1. i \in DOMAIN acc'
        BY <1>9
      <4>2. CASE k \in DOMAIN toolCalls /\ toolCalls'[k] = toolCalls[k]
        BY <2>2, <4>2
      <4>3. CASE toolCalls'[k].of = of
        BY <4>1, <4>3 DEF of
      <4> QED
        BY <3>5, <4>2, <4>3
    <3>7. \A k, l \in DOMAIN toolCalls' : toolCalls'[k].of = toolCalls'[l].of => k = l
      BY <2>1, <3>2, <3>5
    <3> QED
      BY <3>3, <3>6, <3>7
  <2> QED
    BY <2>3, <2>4
<1>12. TypeOK'
  <2>1. TypeOK
    BY DEF LoopInv
  <2>2. /\ DOMAIN acc' \subseteq Index
        /\ \A k \in DOMAIN acc' :
              acc'[k] \in [id : Ids \cup {""}, name : {"", "tool"}, args : None..Whole]
        /\ order' \in Seq(Index) /\ toolCalls' \in Seq(Call)
    BY <1>9, <1>10, <1>11 DEF Entry
  <2>3. /\ phase' \in {"idle", "stream", "tools"} /\ handler' \in {"none", "chat", "stream"}
        /\ history' \in Seq(Msg) /\ msgs' \in Seq(Msg) /\ ran' \in Seq(Of) /\ window' \in Windows
    BY <1>5, <2>1 DEF TypeOK
  <2>4. Len(history') <= 2 * MaxTurns /\ rounds' \in 0..MaxRounds /\ turns' \in 0..MaxTurns
    BY <1>5, <2>1 DEF TypeOK
  <2>5. seen' \in 0..MaxDeltas
    BY <1>1, Types, Constants
  <2> QED
    BY <2>2, <2>3, <2>4, <2>5 DEF TypeOK
<1>13. HistoryInv' /\ BlockInv' /\ RanInv'
  BY <1>5 DEF LoopInv, HistoryInv, BlockInv, RanInv
<1>14. StreamInv'
  BY <1>1, <1>5, <1>10, <1>11 DEF StreamInv
<1> QED
  BY <1>12, <1>13, <1>14 DEF LoopInv

(* Every delta keeps the invariant.                                        *)
LEMMA DeltaInv ==
    ASSUME LoopInv, NEW i \in Index, NEW id \in Ids \cup {""}, NEW name \in {"", "tool"},
           NEW part \in {0, 1}, Delta(i, id, name, part)
    PROVE  LoopInv'
BY DeltaEnters, EnteredInv

(* Every step keeps the invariant.                                         *)
LEMMA LoopNext == LoopInv /\ [Next]_vars => LoopInv'
<1> SUFFICES ASSUME LoopInv, [Next]_vars PROVE LoopInv'
  OBVIOUS
<1>1. ASSUME NEW h \in {"chat", "stream"}, NewTurn(h) PROVE LoopInv'
  BY <1>1, NewTurnInv
<1>2. ASSUME NEW i \in Index, NEW id \in Ids \cup {""}, NEW name \in {"", "tool"},
             NEW part \in {0, 1}, Delta(i, id, name, part)
      PROVE  LoopInv'
  BY <1>2, DeltaInv
<1>3. CASE Finish
  BY <1>3, FinishInv
<1>4. CASE Stop
  BY <1>4, StopInv
<1>5. CASE Recover
  BY <1>5, RecoverInv
<1>6. CASE RunTools
  BY <1>6, RunToolsInv
<1>7. CASE Fail
  BY <1>7, FailInv
<1>8. CASE UNCHANGED vars
  BY <1>8 DEF vars, stream, LoopInv, TypeOK, HistoryInv, BlockInv, RanInv, StreamInv
<1> QED
  BY <1>1, <1>2, <1>3, <1>4, <1>5, <1>6, <1>7, <1>8 DEF Next

(* LoopInv is an invariant.                                                *)
LEMMA LoopInvariant == Spec => []LoopInv
BY LoopInitially, LoopNext, PTL DEF Spec

-----------------------------------------------------------------------------
(* The properties *)

(* The messages that MessageModifier hands to buildBody.                   *)
LEMMA RequestFacts ==
    ASSUME LoopInv
    PROVE  /\ <<System>> \o msgs \in Seq(Msg) /\ <<System>> \o msgs # <<>>
           /\ (<<System>> \o msgs)[1].role = "system"
           /\ Blocks(<<System>> \o msgs)
           /\ \A rr \in Seq(Of) : EndsWith(msgs, rr) => EndsWith(<<System>> \o msgs, rr)
<1>1. PICK s : s = <<System>>
  OBVIOUS
<1>2. msgs \in Seq(Msg) /\ Blocks(msgs)
  BY Types DEF LoopInv, BlockInv
<1>3. s \in Seq(Msg) /\ Len(s) = 1 /\ s[1] = System
  BY <1>1, MadeMessages
<1>4. /\ s \o msgs \in Seq(Msg) /\ Len(s \o msgs) = 1 + Len(msgs) /\ Len(msgs) \in Nat
      /\ (s \o msgs)[1] = System
  BY <1>2, <1>3, ConcatFacts
<1>5. s \o msgs # <<>>
  BY <1>4
<1>6. \A i \in DOMAIN s : ~IsHead(s, i)
  BY <1>3, MadeMessages DEF IsHead
<1>7. Blocks(s \o msgs)
  BY <1>2, <1>3, <1>6, PrefixBlocks
<1>8. ASSUME NEW rr \in Seq(Of), EndsWith(msgs, rr)
      PROVE  EndsWith(s \o msgs, rr)
  <2>1. Len(rr) \in Nat /\ Len(rr) < Len(msgs)
    BY <1>4, <1>8 DEF EndsWith
  <2> QED
    BY <1>2, <1>3, <1>8, <2>1, EndsAfter
<1> QED
  BY <1>1, <1>4, <1>5, <1>7, <1>8, MadeMessages

(* Every variable has its type: the history has at most two messages a     *)
(* turn, and every message, call and entry of readStreamState is one.      *)
THEOREM LoopTypeOK == Spec => []TypeOK
<1>1. LoopInv => TypeOK
  BY DEF LoopInv
<1> QED
  BY <1>1, LoopInvariant, PTL

(* Every request sent pairs each tool call with one result of its id and   *)
(* name and has no other tool message, for every window, every number of   *)
(* calls, rounds and turns, and whatever a broken stream left behind.      *)
THEOREM LoopRequestPaired == Spec => []RequestPaired
<1>1. ASSUME LoopInv PROVE RequestPaired
  <2>1. Paired(Request)
    BY <1>1, RequestFacts, NormalizePairs DEF Request
  <2> QED
    BY <2>1 DEF RequestPaired, Paired, PairedWith
<1> QED
  BY <1>1, LoopInvariant, PTL

(* No request gives a call the result of another one, whether it was       *)
(* paired by id or by position.                                            *)
THEOREM LoopResultsTruthful == Spec => []ResultsTruthful
<1>1. ASSUME LoopInv PROVE ResultsTruthful
  <2>1. Truthful(Request)
    BY <1>1, RequestFacts, NormalizeTruthful DEF Request
  <2> QED
    BY <2>1 DEF ResultsTruthful, Truthful, TruthfulWith
<1> QED
  BY <1>1, LoopInvariant, PTL

(* With fewer calls than the window holds messages, the request after a    *)
(* round of tools ends with all of their results.                          *)
THEOREM LoopLastRoundReported == Spec => []LastRoundReported
<1>1. ASSUME LoopInv, Asked, Len(ran) < window
      PROVE  /\ Len(Request) > Len(ran)
             /\ \A k \in DOMAIN ran : Request[Len(Request) - Len(ran) + k].of = ran[k]
  <2>1. ran \in Seq(Of)
    BY <1>1, Types
  <2>2. ran # <<>> => EndsWith(<<System>> \o msgs, ran)
    BY <1>1, <2>1, RequestFacts DEF LoopInv, RanInv, Asked
  <2> QED
    BY <1>1, <2>1, <2>2, RequestFacts, NormalizeEnd DEF Request
<1>2. LoopInv => LastRoundReported
  BY <1>1 DEF LastRoundReported
<1> QED
  BY <1>2, LoopInvariant, PTL

(* Normalising a request again changes nothing, on either path.            *)
THEOREM LoopNormalizeStable == Spec => []NormalizeStable
<1>1. ASSUME LoopInv PROVE NormalizeStable
  <2>1. NormalizeMessages(Request) = Request /\ SlowPath(Request) = Request
    BY <1>1, RequestFacts, NormalizeTwice DEF Request
  <2> QED
    BY <2>1 DEF NormalizeStable
<1> QED
  BY <1>1, LoopInvariant, PTL

(* A reply that ends with a finish reason has every call with all the      *)
(* arguments that came for it, when each was started under an id that no   *)
(* other call has.                                                         *)
THEOREM LoopArgumentsKept == Spec => ArgumentsKept
<1> DEFINE Kept == \A k \in DOMAIN toolCalls :
            Last(msgs').calls[k] = [toolCalls[k] EXCEPT !.args = acc[toolCalls[k].of[3]].args]
<1>1. ASSUME LoopInv, Finish, Identified PROVE Kept
  <2>1. PICK g : SetInOrder(g) /\ Reply(g[Len(order)])
    BY <1>1, FinishCalls DEF LoopInv
  <2>2. PICK c : c = g[Len(order)]
    OBVIOUS
  <2>3. /\ Len(c) = Len(toolCalls)
        /\ \A k \in DOMAIN toolCalls :
            c[k] = [toolCalls[k] EXCEPT !.args = acc[toolCalls[k].of[3]].args]
    BY <1>1, <2>1, <2>2, ArgumentsInOrder DEF LoopInv
  <2>4. Reply(c)
    BY <2>1, <2>2 DEF Reply
  <2>5. toolCalls \in Seq(Call) /\ msgs \in Seq(Msg)
    BY <1>1, Types
  <2>6. c \in Seq(Call)
    <3>1. order \in Seq(Index)
      BY <1>1, Types
    <3>2. Len(order) \in 0..Len(order)
      BY <3>1
    <3> QED
      BY <2>1, <2>2, <3>2 DEF SetInOrder
  <2>7. CASE c = <<>>
    <3>1. DOMAIN toolCalls = {}
      BY <2>3, <2>5, <2>7
    <3> QED
      BY <3>1
  <2>8. CASE c # <<>>
    <3> DEFINE m == Assistant(c)
    <3>1. m \in Msg /\ m.calls = c
      BY <2>6, MadeMessages
    <3>2. msgs' = Append(msgs, m)
      BY <2>4, <2>8 DEF Reply
    <3> HIDE DEF m
    <3>3. Last(msgs') = m
      BY <2>5, <3>1, <3>2 DEF Last
    <3> QED
      BY <2>3, <3>1, <3>3
  <2> QED
    BY <2>7, <2>8
<1>2. LoopInv /\ [Next]_vars => [Finish /\ Identified => Kept]_vars
  BY <1>1
<1> QED
  BY <1>2, LoopInvariant, PTL DEF Spec, ArgumentsKept
=============================================================================
