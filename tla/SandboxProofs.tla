---------------------------- MODULE SandboxProofs ----------------------------
(***************************************************************************)
(* Proofs about Sandbox for any tree of paths and files, any base layer,   *)
(* quota and number of nodes.                                              *)
(***************************************************************************)
EXTENDS Sandbox, FiniteSetTheorems, WellFoundedInduction, TLAPS

\* What is on the host has its directories there, only a file takes bytes, and they
\* are within the quota: at every crash point too.
Rooted(d) ==
  \A c \in Paths : d.host[c] # "none" \/ c \in d.tombs => \A a \in Above(c) : d.host[a] = "dir"
OnlyFilesTakeBytes(d) == \A p \in Paths : d.host[p] # "file" => d.bytes[p] = 0
DiskOK(d) ==
  /\ d \in Disks
  /\ Rooted(d)
  /\ OnlyFilesTakeBytes(d)
  /\ SumFunction(d.bytes) <= Quota

\* The index `en` of `d` with its sizes `st` and their sum `u`: what a reload would
\* build, but for directories made as parents, which have an entry below them.
Indexes(en, d) ==
  \A p \in Paths :
     \/ en[p] = IF p \in d.tombs THEN "tombstone" ELSE d.host[p]
     \/ en[p] = "none" /\ d.host[p] = "dir" /\ p \notin d.tombs
ParentsHold(en, d) ==
  \A p \in Paths : d.host[p] = "dir" /\ en[p] = "none" => \E c \in Below(p) : en[c] # "none"
StoreOK(d, en, st, u) ==
  /\ ~Torn(d)
  /\ Indexes(en, d)
  /\ ParentsHold(en, d)
  /\ st = d.bytes
  /\ u = SumFunction(d.bytes)

StoreInv == up => StoreOK(disk, entries, stored, used)

\* A name has a node of its own; a node that will be saved somewhere has that name,
\* and an open one with a name will be saved there.
NodeInv ==
  /\ \A p, q \in Paths : names[p] # None /\ names[p] = names[q] => p = q
  /\ \A n \in Nodes : overlay[n] # None => names[overlay[n]] = n
  /\ \A n \in Nodes : dirty[n] => overlay[n] # None
  /\ \A p \in Paths : names[p] \in open => overlay[names[p]] = p
Contributions == [n \in Nodes |-> Contribution(Node(n))]
DeltaInv == delta = SumFunction(Contributions)

\* Between sessions there is nothing but the host.
DownInv ==
  ~up => /\ \A p \in Paths : names[p] = None
         /\ \A n \in Nodes : overlay[n] = None /\ ~dirty[n]
         /\ open = {} /\ dirs = {} /\ hidden = {} /\ delta = 0

CleanInv ==
  up => /\ hidden \subseteq disk.tombs
        /\ \A p \in Paths :
             /\ p \in hidden => names[p] = None
             /\ names[p] # None /\ ~dirty[names[p]] => Durable(disk)[p] = size[names[p]]

SInv ==
  TypeOK /\ DiskOK(disk) /\ StoreInv /\ NodeInv /\ DeltaInv /\ DownInv /\ CleanInv

-----------------------------------------------------------------------------
\* With a game that makes no directory where the base has a file, and no file where
\* there is no directory, nothing of the overlay is a directory at a base file's path.
BaseIsFile ==
  /\ \A p \in Base : disk.host[p] # "dir"
  /\ Directories \cap Base = {}
  /\ \A p \in dirs : disk.host[p] = "dir" /\ names[p] = None

\* Below a tombstone, or a file, no base file can be seen ...
CoversBase(d) ==
  \A a \in Paths : a \in d.tombs \/ d.host[a] = "file" => Below(a) \cap Base \subseteq d.tombs
\* ... and below a tombstone nothing on the host is live.
CoversHost(d) ==
  \A a \in d.tombs : \A c \in Below(a) : d.host[c] # "none" => c \in d.tombs

\* A directory of the session is no file and has no tombstone; a base file that is
\* not deleted or replaced has its name.
LiveDirectories ==
  \A p \in Directories \cap Paths :
     p \notin disk.tombs /\ names[p] = None /\ disk.host[p] # "file"
BaseSeen == \A c \in Base : c \notin disk.tombs /\ disk.host[c] # "file" => names[c] # None

ShadowInv ==
  /\ ~resurfaces => CoversBase(disk) /\ (up => LiveDirectories /\ BaseSeen)
  /\ ~resurfaces /\ ~overlooked => CoversHost(disk)

CInv == SInv /\ BaseIsFile /\ ShadowInv

-----------------------------------------------------------------------------
(* Sums.                                                                   *)

\* A nonempty set of finite sets has a smallest member: what the proofs about sums
\* have for an induction.
LEMMA SmallestSet ==
  ASSUME NEW S, IsFiniteSet(S), NEW I, I \subseteq SUBSET S, I # {}
  PROVE  \E m \in I : \A k \in I : k \subseteq m => k = m
<1>1. IsWellFoundedOn(StrictSubsetOrdering(S), FiniteSubsetsOf(S))
  BY FS_StrictSubsetOrderingWellFounded
<1>2. I \subseteq FiniteSubsetsOf(S)
  BY FS_Subset DEF FiniteSubsetsOf
<1>3. PICK m \in I : \A k \in I : ~ (<<k, m>> \in StrictSubsetOrdering(S))
  BY <1>1, <1>2, WFMin
<1>4. ASSUME NEW k \in I, k \subseteq m, k # m
      PROVE  <<k, m>> \in StrictSubsetOrdering(S)
  BY <1>4, SMT DEF StrictSubsetOrdering
<1>5. \A k \in I : k \subseteq m => k = m
  BY <1>3, <1>4
<1> QED
  BY <1>5, Zenon

Chosen(s) == CHOOSE x \in s : TRUE
Rest(s) == s \ {Chosen(s)}

\* SumFunctionOnSet is what such a function has at the whole set.
Sums(g, f, S) == g = [s \in SUBSET S |-> IF s = {} THEN 0 ELSE f[Chosen(s)] + g[Rest(s)]]

LEMMA SumsAgree ==
  ASSUME NEW S, IsFiniteSet(S), NEW T, NEW f, NEW g, NEW h,
         Sums(g, f, S), Sums(h, f, T), NEW r \in SUBSET S, r \subseteq T
  PROVE  g[r] = h[r]
<1> DEFINE I == {s \in SUBSET S : s \subseteq T /\ g[s] # h[s]}
<1> SUFFICES ASSUME I # {} PROVE FALSE
  OBVIOUS
<1>1. I \subseteq SUBSET S
  OBVIOUS
<1>2. PICK m \in I : \A k \in I : k \subseteq m => k = m
  <2> HIDE DEF I
  <2> QED
    BY <1>1, SmallestSet
<1>3. g[m] = IF m = {} THEN 0 ELSE f[Chosen(m)] + g[Rest(m)]
  BY DEF Sums
<1>4. h[m] = IF m = {} THEN 0 ELSE f[Chosen(m)] + h[Rest(m)]
  BY DEF Sums
<1>5. m # {}
  BY <1>3, <1>4
<1>6. Chosen(m) \in m
  BY <1>5 DEF Chosen
<1>7. Rest(m) \notin I
  BY <1>2, <1>6 DEF Rest
<1>8. g[Rest(m)] = h[Rest(m)]
  BY <1>7 DEF Rest
<1> QED
  BY <1>3, <1>4, <1>5, <1>8

LEMMA SumsExist ==
  ASSUME NEW S, IsFiniteSet(S), NEW f
  PROVE  \A s \in SUBSET S : \E g : Sums(g, f, s)
<1> DEFINE I == {s \in SUBSET S : ~ \E g : Sums(g, f, s)}
<1> SUFFICES ASSUME I # {} PROVE FALSE
  OBVIOUS
<1>0. I \subseteq SUBSET S
  OBVIOUS
<1>1. PICK m \in I : \A k \in I : k \subseteq m => k = m
  <2> HIDE DEF I
  <2> QED
    BY <1>0, SmallestSet, SMT
<1> DEFINE h(s) == CHOOSE g : Sums(g, f, s)
           v(s) == IF s = {} THEN 0 ELSE f[Chosen(s)] + h(Rest(s))[Rest(s)]
           w == [s \in SUBSET m |-> v(s)]
<1>2. \A s \in SUBSET m : s # m => Sums(h(s), f, s)
  BY <1>1
<1>3. \A s \in SUBSET m : IsFiniteSet(s)
  BY FS_Subset
<1>4. ASSUME NEW s \in SUBSET m, s # {}
      PROVE  w[s] = f[Chosen(s)] + w[Rest(s)]
  <2>1. Chosen(s) \in s /\ Rest(s) \in SUBSET m /\ Rest(s) # m
    BY <1>4 DEF Chosen, Rest
  <2> DEFINE r == Rest(s)
  <2>2. Sums(h(r), f, r)
    BY <1>2, <2>1
  <2>3. h(r)[r] = v(r)
    <3>1. h(r)[r] = IF r = {} THEN 0 ELSE f[Chosen(r)] + h(r)[Rest(r)]
      BY <2>2 DEF Sums
    <3>2. CASE r = {}
      BY <3>1, <3>2
    <3>3. CASE r # {}
      <4>1. Chosen(r) \in r /\ Rest(r) \in SUBSET m /\ Rest(r) # m /\ Rest(r) \in SUBSET r
        BY <2>1, <3>3 DEF Chosen, Rest
      <4>2. Sums(h(Rest(r)), f, Rest(r))
        BY <1>2, <4>1
      <4>3. h(r)[Rest(r)] = h(Rest(r))[Rest(r)]
        <5> HIDE DEF h
        <5> QED
          BY <1>3, <2>1, <2>2, <4>1, <4>2, SumsAgree
      <4> QED
        BY <3>1, <3>3, <4>3
    <3> QED
      BY <3>2, <3>3
  <2> HIDE DEF h
  <2> QED
    BY <1>4, <2>1, <2>3
<1>5. w = [s \in SUBSET m |-> IF s = {} THEN 0 ELSE f[Chosen(s)] + w[Rest(s)]]
  <2> HIDE DEF h
  <2>1. \A s \in SUBSET m : w[s] = IF s = {} THEN 0 ELSE f[Chosen(s)] + w[Rest(s)]
    BY <1>4
  <2> HIDE DEF v
  <2> QED
    BY <2>1
<1>6. Sums(w, f, m)
  BY <1>5 DEF Sums
<1> QED
  BY <1>6

LEMMA SumUnfolds ==
  ASSUME NEW S, IsFiniteSet(S), NEW f
  PROVE  \E g : Sums(g, f, S) /\ SumFunctionOnSet(f, S) = g[S]
<1> DEFINE it == CHOOSE g : g = [s \in SUBSET S |-> IF s = {} THEN 0 ELSE f[Chosen(s)] + g[s \ {Chosen(s)}]]
<1>1. SumFunctionOnSet(f, S) = it[S]
  BY Zenon DEF SumFunctionOnSet, FoldFunctionOnSet, MapThenFoldSet, Chosen
<1>2. it = CHOOSE g : Sums(g, f, S)
  BY Zenon DEF Sums, Rest
<1>3. \E g : Sums(g, f, S)
  BY SumsExist
<1>4. Sums(it, f, S)
  <2> HIDE DEF it
  <2> QED
    BY <1>2, <1>3, Zenon
<1> HIDE DEF it
<1> QED
  BY <1>1, <1>4

LEMMA SumStep ==
  ASSUME NEW S, IsFiniteSet(S), NEW f
  PROVE  SumFunctionOnSet(f, S) =
           IF S = {} THEN 0 ELSE f[Chosen(S)] + SumFunctionOnSet(f, Rest(S))
<1>1. PICK g : Sums(g, f, S) /\ SumFunctionOnSet(f, S) = g[S]
  BY SumUnfolds
<1>2. g[S] = IF S = {} THEN 0 ELSE f[Chosen(S)] + g[Rest(S)]
  BY <1>1 DEF Sums
<1>3. SUFFICES ASSUME S # {} PROVE g[Rest(S)] = SumFunctionOnSet(f, Rest(S))
  BY <1>1, <1>2
<1>4. Rest(S) \in SUBSET S /\ IsFiniteSet(Rest(S))
  BY FS_Subset DEF Rest
<1>5. PICK h : Sums(h, f, Rest(S)) /\ SumFunctionOnSet(f, Rest(S)) = h[Rest(S)]
  BY <1>4, SumUnfolds
<1> QED
  BY <1>1, <1>4, <1>5, SumsAgree

LEMMA AnyMember ==
  ASSUME NEW S, S # {}
  PROVE  Chosen(S) \in S
BY DEF Chosen

\* A sum of integers is one.
LEMMA SumInt ==
  ASSUME NEW S, IsFiniteSet(S), NEW f, \A s \in S : f[s] \in Int
  PROVE  SumFunctionOnSet(f, S) \in Int
<1> DEFINE I == {s \in SUBSET S : SumFunctionOnSet(f, s) \notin Int}
<1> SUFFICES ASSUME I # {} PROVE FALSE
  OBVIOUS
<1>1. I \subseteq SUBSET S
  OBVIOUS
<1>2. PICK m \in I : \A k \in I : k \subseteq m => k = m
  <2> HIDE DEF I
  <2> QED
    BY <1>1, SmallestSet
<1>3. IsFiniteSet(m) /\ m \subseteq S
  BY FS_Subset
<1>4. m # {}
  BY <1>3, SumStep
<1>5. Chosen(m) \in m
  BY <1>4, AnyMember
<1>6. Rest(m) \notin I
  BY <1>2, <1>5 DEF Rest
<1>7. SumFunctionOnSet(f, Rest(m)) \in Int
  BY <1>3, <1>6 DEF Rest
<1> QED
  BY <1>3, <1>4, <1>5, <1>7, SumStep

\* Any element can be taken out of a sum.
LEMMA SumTake ==
  ASSUME NEW S, IsFiniteSet(S), NEW f, \A s \in S : f[s] \in Int, NEW x \in S
  PROVE  SumFunctionOnSet(f, S) = f[x] + SumFunctionOnSet(f, S \ {x})
<1> DEFINE I == {s \in SUBSET S :
                   \E y \in s : SumFunctionOnSet(f, s) # f[y] + SumFunctionOnSet(f, s \ {y})}
<1> SUFFICES ASSUME I # {} PROVE FALSE
  OBVIOUS
<1>1. I \subseteq SUBSET S
  OBVIOUS
<1>2. PICK m \in I : \A k \in I : k \subseteq m => k = m
  <2> HIDE DEF I
  <2> QED
    BY <1>1, SmallestSet
<1>3. PICK y \in m : SumFunctionOnSet(f, m) # f[y] + SumFunctionOnSet(f, m \ {y})
  OBVIOUS
<1> DEFINE a == Chosen(m)
           both == SumFunctionOnSet(f, (m \ {a}) \ {y})
<1>4. m \subseteq S /\ a \in m
  BY AnyMember
<1>5. \A s \in SUBSET m : IsFiniteSet(s) /\ SumFunctionOnSet(f, s) \in Int
  BY <1>4, FS_Subset, SumInt
<1>6. SumFunctionOnSet(f, m) = f[a] + SumFunctionOnSet(f, m \ {a})
  BY <1>3, <1>5, SumStep DEF Rest
<1>7. a # y
  BY <1>3, <1>6
<1>8. SumFunctionOnSet(f, m \ {a}) = f[y] + both
  <2>1. m \ {a} \notin I
    <3> HIDE DEF I, a
    <3> QED
      BY <1>2, <1>4
  <2> QED
    BY <1>3, <1>4, <1>7, <2>1
<1>9. SumFunctionOnSet(f, m \ {y}) = f[a] + SumFunctionOnSet(f, (m \ {y}) \ {a})
  <2>1. m \ {y} \notin I
    <3> HIDE DEF I, a
    <3> QED
      BY <1>2
  <2> QED
    BY <1>3, <1>4, <1>7, <2>1
<1>10. (m \ {y}) \ {a} = (m \ {a}) \ {y}
  OBVIOUS
<1>11. both \in Int /\ f[a] \in Int /\ f[y] \in Int
  BY <1>4, <1>5
<1> HIDE DEF a, both, I
<1>12. SumFunctionOnSet(f, (m \ {y}) \ {a}) = both
  BY <1>10 DEF both
<1> QED
  BY <1>3, <1>6, <1>8, <1>9, <1>11, <1>12

LEMMA SumSame ==
  ASSUME NEW S, IsFiniteSet(S), NEW f, NEW g, \A s \in S : f[s] = g[s]
  PROVE  SumFunctionOnSet(f, S) = SumFunctionOnSet(g, S)
<1> DEFINE I == {s \in SUBSET S : SumFunctionOnSet(f, s) # SumFunctionOnSet(g, s)}
<1> SUFFICES ASSUME I # {} PROVE FALSE
  OBVIOUS
<1>1. I \subseteq SUBSET S
  OBVIOUS
<1>2. PICK m \in I : \A k \in I : k \subseteq m => k = m
  <2> HIDE DEF I
  <2> QED
    BY <1>1, SmallestSet
<1>3. IsFiniteSet(m) /\ m \subseteq S
  BY FS_Subset
<1>4. m # {}
  BY <1>3, SumStep
<1>5. Chosen(m) \in m
  BY <1>4, AnyMember
<1>6. SumFunctionOnSet(f, Rest(m)) = SumFunctionOnSet(g, Rest(m))
  BY <1>2, <1>5 DEF Rest
<1> QED
  BY <1>3, <1>4, <1>5, <1>6, SumStep

LEMMA SumZero ==
  ASSUME NEW S, IsFiniteSet(S), NEW f, \A s \in S : f[s] = 0
  PROVE  SumFunctionOnSet(f, S) = 0
<1> DEFINE I == {s \in SUBSET S : SumFunctionOnSet(f, s) # 0}
<1> SUFFICES ASSUME I # {} PROVE FALSE
  OBVIOUS
<1>1. I \subseteq SUBSET S
  OBVIOUS
<1>2. PICK m \in I : \A k \in I : k \subseteq m => k = m
  <2> HIDE DEF I
  <2> QED
    BY <1>1, SmallestSet
<1>3. IsFiniteSet(m) /\ m \subseteq S
  BY FS_Subset
<1>4. m # {}
  BY <1>3, SumStep
<1>5. Chosen(m) \in m
  BY <1>4, AnyMember
<1>6. SumFunctionOnSet(f, Rest(m)) = 0
  BY <1>2, <1>5 DEF Rest
<1> QED
  BY <1>3, <1>4, <1>5, <1>6, SumStep

LEMMA SumNat ==
  ASSUME NEW S, IsFiniteSet(S), NEW f, \A s \in S : f[s] \in Nat
  PROVE  SumFunctionOnSet(f, S) \in Nat
<1> DEFINE I == {s \in SUBSET S : SumFunctionOnSet(f, s) \notin Nat}
<1> SUFFICES ASSUME I # {} PROVE FALSE
  OBVIOUS
<1>1. I \subseteq SUBSET S
  OBVIOUS
<1>2. PICK m \in I : \A k \in I : k \subseteq m => k = m
  <2> HIDE DEF I
  <2> QED
    BY <1>1, SmallestSet
<1>3. IsFiniteSet(m) /\ m \subseteq S
  BY FS_Subset
<1>4. m # {}
  BY <1>3, SumStep
<1>5. Chosen(m) \in m
  BY <1>4, AnyMember
<1>6. SumFunctionOnSet(f, Rest(m)) \in Nat
  BY <1>2, <1>3, <1>5 DEF Rest
<1> QED
  BY <1>3, <1>4, <1>5, <1>6, SumStep

\* One value changes: the sum changes by as much.
LEMMA SumExcept ==
  ASSUME NEW S, IsFiniteSet(S), NEW x \in S, NEW f, NEW g,
         \A s \in S : f[s] \in Int /\ g[s] \in Int,
         \A s \in S \ {x} : g[s] = f[s]
  PROVE  SumFunctionOnSet(g, S) = SumFunctionOnSet(f, S) - f[x] + g[x]
<1>1. IsFiniteSet(S \ {x})
  BY FS_Subset
<1>2. SumFunctionOnSet(g, S \ {x}) = SumFunctionOnSet(f, S \ {x})
  BY <1>1, SumSame
<1>3. SumFunctionOnSet(f, S \ {x}) \in Int
  BY <1>1, SumInt
<1>4. /\ SumFunctionOnSet(f, S) = f[x] + SumFunctionOnSet(f, S \ {x})
      /\ SumFunctionOnSet(g, S) = g[x] + SumFunctionOnSet(g, S \ {x})
  BY SumTake
<1> QED
  BY <1>2, <1>3, <1>4

\* The values at D change: the sum changes by the sum of their differences.
LEMMA SumChange ==
  ASSUME NEW S, IsFiniteSet(S), NEW D \in SUBSET S, NEW f \in [S -> Int], NEW g \in [S -> Int],
         \A s \in S \ D : g[s] = f[s]
  PROVE  SumFunction(g) = SumFunction(f) + SumFunction([s \in D |-> g[s] - f[s]])
<1> DEFINE Differ(h, k, E) == SumFunctionOnSet([s \in E |-> k[s] - h[s]], E)
           Changes(h, k, E) ==
             SumFunctionOnSet(k, S) = SumFunctionOnSet(h, S) + Differ(h, k, E)
           I == {E \in SUBSET S : \E k \in [S -> Int] :
                   (\A s \in S \ E : k[s] = f[s]) /\ ~Changes(f, k, E)}
<1>1. SUFFICES ASSUME I # {} PROVE FALSE
  <2>1. Changes(f, g, D)
    BY <1>1
  <2> QED
    BY <2>1 DEF SumFunction
<1>2. I \subseteq SUBSET S
  OBVIOUS
<1>3. PICK E \in I : \A J \in I : J \subseteq E => J = E
  <2> HIDE DEF I
  <2> QED
    BY <1>1, <1>2, SmallestSet
<1>4. PICK k \in [S -> Int] : (\A s \in S \ E : k[s] = f[s]) /\ ~Changes(f, k, E)
  OBVIOUS
<1>5. E \subseteq S /\ IsFiniteSet(E)
  BY FS_Subset
<1>6. SumFunctionOnSet(f, S) \in Int
  BY SumInt
<1>7. E # {}
  <2> SUFFICES ASSUME E = {} PROVE FALSE
    OBVIOUS
  <2>1. SumFunctionOnSet(k, S) = SumFunctionOnSet(f, S)
    BY <1>4, SumSame
  <2>2. Differ(f, k, E) = 0
    BY <1>5, SumStep
  <2> HIDE DEF Differ
  <2> QED
    BY <1>4, <1>6, <2>1, <2>2
<1> DEFINE x == Chosen(E)
           D2 == E \ {x}
           mid == [s \in S |-> IF s = x THEN f[s] ELSE k[s]]
<1>8. x \in E /\ x \in S
  BY <1>5, <1>7, AnyMember
<1>9. Changes(f, mid, D2)
  <2>1. D2 \notin I
    <3> HIDE DEF I, x
    <3> QED
      BY <1>3, <1>8
  <2>2. mid \in [S -> Int] /\ D2 \in SUBSET S
    BY <1>5
  <2>3. \A s \in S \ D2 : mid[s] = f[s]
    BY <1>4
  <2> HIDE DEF mid, D2, Changes
  <2> QED
    BY <2>1, <2>2, <2>3
<1>10. SumFunctionOnSet(k, S) = SumFunctionOnSet(mid, S) - f[x] + k[x]
  <2> HIDE DEF x
  <2>1. \A s \in S : mid[s] \in Int /\ k[s] \in Int
    OBVIOUS
  <2>2. \A s \in S \ {x} : k[s] = mid[s]
    OBVIOUS
  <2>3. mid[x] = f[x]
    BY <1>8
  <2> HIDE DEF mid
  <2> QED
    BY <1>8, <2>1, <2>2, <2>3, SumExcept
<1>11. Differ(f, k, E) = (k[x] - f[x]) + Differ(f, mid, D2)
  <2> DEFINE d == [s \in E |-> k[s] - f[s]]
             d2 == [s \in D2 |-> mid[s] - f[s]]
  <2>1. IsFiniteSet(D2)
    BY <1>5, FS_Subset
  <2>2. \A s \in E : d[s] \in Int
    BY <1>5
  <2>3. SumFunctionOnSet(d, E) = d[x] + SumFunctionOnSet(d, D2)
    <3> HIDE DEF d, x
    <3> QED
      BY <1>5, <1>8, <2>2, SumTake
  <2>4. \A s \in D2 : d[s] = d2[s]
    BY <1>5
  <2>5. SumFunctionOnSet(d, D2) = SumFunctionOnSet(d2, D2)
    <3> HIDE DEF d, d2, D2
    <3> QED
      BY <2>1, <2>4, SumSame
  <2>6. d[x] = k[x] - f[x]
    BY <1>8
  <2> HIDE DEF x, D2, mid
  <2> QED
    BY <2>3, <2>5, <2>6
<1>12. k[x] \in Int /\ f[x] \in Int
  BY <1>8
<1>13. Differ(f, mid, D2) \in Int
  <2>1. IsFiniteSet(D2) /\ \A s \in D2 : mid[s] - f[s] \in Int
    BY <1>5, FS_Subset
  <2> HIDE DEF x, D2, mid
  <2> QED
    BY <2>1, SumInt
<1> HIDE DEF x, D2, mid, Differ
<1> QED
  BY <1>4, <1>6, <1>9, <1>10, <1>11, <1>12, <1>13

-----------------------------------------------------------------------------
(* Paths.                                                                  *)

\* The parents of `p`, and of everything in `S`, are in `S` or the root.
Holds(S, p) == \A b \in S \cup {p} : Parent[b] \in S \cup {Top}

LEMMA AboveHolds ==
  ASSUME NEW p \in Paths
  PROVE  /\ Above(p) \subseteq Paths
         /\ Holds(Above(p), p)
         /\ \A S \in SUBSET Paths : Holds(S, p) => Above(p) \subseteq S
<1>1. Above(p) = {a \in Paths : \A S \in SUBSET Paths : Holds(S, p) => a \in S}
  BY DEF Above, Ancestors, Holds
<1>2. ASSUME NEW b \in Above(p) \cup {p} PROVE Parent[b] \in Above(p) \cup {Top}
  <2>1. b \in Paths /\ Parent[b] \in Paths \cup {Top}
    BY <1>1, SandboxAssumption
  <2>2. ASSUME NEW S \in SUBSET Paths, Holds(S, p), Parent[b] # Top PROVE Parent[b] \in S
    BY <1>1, <2>2 DEF Holds
  <2> QED
    BY <1>1, <2>1, <2>2
<1>3. Holds(Above(p), p)
  BY <1>2 DEF Holds
<1> QED
  BY <1>1, <1>3

LEMMA AboveTransitive ==
  ASSUME NEW p \in Paths, NEW b \in Above(p)
  PROVE  Above(b) \subseteq Above(p)
<1>1. b \in Paths /\ Above(p) \subseteq Paths
  BY AboveHolds
<1>2. Holds(Above(p), b)
  BY AboveHolds DEF Holds
<1> QED
  BY <1>1, <1>2, AboveHolds

\* The ancestors of a path are its parent and the ancestors of its parent.
LEMMA AboveParent ==
  ASSUME NEW p \in Paths
  PROVE  /\ Parent[p] = Top => Above(p) = {}
         /\ Parent[p] # Top =>
              /\ Parent[p] \in Paths
              /\ Above(p) = {Parent[p]} \cup Above(Parent[p])
<1>1. Parent[p] \in Paths \cup {Top}
  BY SandboxAssumption
<1>2. CASE Parent[p] = Top
  <2>1. Holds({}, p)
    BY <1>2 DEF Holds
  <2> QED
    BY <1>2, <2>1, AboveHolds
<1>3. CASE Parent[p] # Top
  <2> DEFINE q == Parent[p]
             S == {q} \cup Above(q)
  <2>1. q \in Paths
    BY <1>1, <1>3
  <2>2. S \in SUBSET Paths /\ Holds(S, p)
    BY <2>1, AboveHolds DEF Holds
  <2>3. Above(p) \subseteq S
    BY <2>2, AboveHolds
  <2>4. q \in Above(p)
    BY <1>3, AboveHolds DEF Holds
  <2> QED
    BY <1>3, <2>1, <2>3, <2>4, AboveTransitive
<1> QED
  BY <1>2, <1>3

LEMMA AboveBelow ==
  ASSUME NEW p \in Paths
  PROVE  /\ p \notin Above(p)
         /\ Below(p) \subseteq Paths /\ p \notin Below(p)
         /\ \A c \in Paths : c \in Below(p) <=> p \in Above(c)
         /\ \A c \in Paths : p \in Above(c) => c \notin Above(p)
<1>1. \A q \in Paths : q \notin Above(q)
  BY SandboxAssumption DEF Above
<1>2. Below(p) = {c \in Paths : p \in Above(c)}
  BY DEF Below, Descendants, Above
<1>3. ASSUME NEW c \in Paths, p \in Above(c), c \in Above(p) PROVE FALSE
  BY <1>1, <1>3, AboveTransitive
<1> QED
  BY <1>1, <1>2, <1>3

-----------------------------------------------------------------------------
(* The directories of the VFS.                                             *)

LEMMA DirectoryOf ==
  ASSUME TypeOK
  PROVE  \A a : a \in Directories <=>
            \/ a = Top
            \/ a \in dirs
            \/ \E c \in Paths : a \in Above(c) /\ (c \in dirs \/ names[c] # None)
<1>1. dirs \subseteq Paths
  BY DEF TypeOK
<1> QED
  BY <1>1 DEF Directories

\* A path in a directory has nothing but directories above it.
LEMMA InDirectory ==
  ASSUME TypeOK, NEW p \in Paths, IsDirectory(Parent[p])
  PROVE  Above(p) \subseteq Directories
<1>1. CASE Parent[p] = Top
  BY <1>1, AboveParent
<1>2. CASE Parent[p] # Top
  <2> DEFINE q == Parent[p]
  <2>1. q \in Paths /\ Above(p) = {q} \cup Above(q) /\ q \in Directories
    BY <1>2, AboveParent DEF IsDirectory
  <2>2. CASE q \in dirs
    BY <2>1, <2>2, DirectoryOf
  <2>3. CASE \E c \in Paths : q \in Above(c) /\ (c \in dirs \/ names[c] # None)
    <3>1. PICK c \in Paths : q \in Above(c) /\ (c \in dirs \/ names[c] # None)
      BY <2>3
    <3>2. Above(q) \subseteq Above(c)
      BY <3>1, AboveTransitive
    <3> QED
      BY <2>1, <3>1, <3>2, DirectoryOf
  <2> HIDE DEF q
  <2>4. q # Top
    BY <1>2 DEF q
  <2> QED
    BY <2>1, <2>2, <2>3, <2>4, DirectoryOf
<1> QED
  BY <1>1, <1>2

LEMMA AboveNamed ==
  ASSUME TypeOK, NEW p \in Paths, names[p] # None \/ p \in dirs
  PROVE  Above(p) \subseteq Directories
BY DirectoryOf

-----------------------------------------------------------------------------
(* The host states of an operation on one path.                            *)

\* `e` is `d` with the directories above `p`, and what is said next at `p` itself.
Beside(d, e, p) ==
  \A q \in Paths \ {p} :
    /\ e.host[q] = IF q \in Above(p) THEN "dir" ELSE d.host[q]
    /\ e.bytes[q] = d.bytes[q]
    /\ q \in e.tombs <=> q \in d.tombs
Same(d, e, p) ==
  e.host[p] = d.host[p] /\ e.bytes[p] = d.bytes[p] /\ (p \in e.tombs <=> p \in d.tombs)
Written(d, e, p, n) ==
  e.host[p] = "file" /\ e.bytes[p] = n /\ (p \in e.tombs => p \in d.tombs)
Made(d, e, p) ==
  e.host[p] = "dir" /\ e.bytes[p] = 0 /\ (p \in e.tombs => p \in d.tombs)
Marked(d, e, p) ==
  e.host[p] = d.host[p] /\ e.bytes[p] = d.bytes[p] /\ p \in e.tombs
Removed(e, p) == e.host[p] = "none" /\ e.bytes[p] = 0 /\ p \in e.tombs

\* A host directory of these fields.
Disk(h, b, t, m) == [host |-> h, bytes |-> b, tombs |-> t, temps |-> m]

LEMMA DiskIs ==
  ASSUME NEW d \in Disks
  PROVE  /\ d = Disk(d.host, d.bytes, d.tombs, d.temps)
         /\ d.host \in [Paths -> {"none", "file", "dir"}] /\ d.bytes \in [Paths -> Sizes]
         /\ d.tombs \subseteq Paths /\ d.temps \subseteq Paths
BY DEF Disks, Disk

LEMMA DiskFields ==
  ASSUME NEW h, NEW b, NEW t, NEW m
  PROVE  /\ Disk(h, b, t, m).host = h /\ Disk(h, b, t, m).bytes = b
         /\ Disk(h, b, t, m).tombs = t /\ Disk(h, b, t, m).temps = m
BY DEF Disk

LEMMA PutIs ==
  ASSUME NEW h, NEW b, NEW t, NEW m, NEW p, NEW k, NEW n
  PROVE  Put(Disk(h, b, t, m), p, k, n) = Disk([h EXCEPT ![p] = k], [b EXCEPT ![p] = n], t, m)
BY DEF Put, Disk

LEMMA WithParentsIs ==
  ASSUME NEW h, NEW b, NEW t, NEW m, NEW p
  PROVE  WithParents(Disk(h, b, t, m), p) =
         Disk([q \in Paths |-> IF q \in Above(p) THEN "dir" ELSE h[q]], b, t, m)
BY DEF WithParents, Disk

LEMMA DisksFields ==
  ASSUME NEW h, NEW b, NEW t, NEW m
  PROVE  /\ Disk(h, b, t, m) \in Disks <=>
              /\ h \in [Paths -> {"none", "file", "dir"}] /\ b \in [Paths -> Sizes]
              /\ t \subseteq Paths /\ m \subseteq Paths
BY DEF Disks, Disk

\* Makes a file of `n` bytes at `p`; the tombstone goes last.
LEMMA WriteTrailStates ==
  ASSUME NEW d \in Disks, NEW p \in Paths, NEW n \in Sizes
  PROVE  /\ \A e \in ToSet(WriteTrail(d, p, n)) :
              e \in Disks /\ Beside(d, e, p) /\ (Same(d, e, p) \/ Written(d, e, p, n))
         /\ LET e == Last(WriteTrail(d, p, n))
            IN e \in ToSet(WriteTrail(d, p, n)) /\ Written(d, e, p, n) /\ p \notin e.tombs
<1> DEFINE h == [q \in Paths |-> IF q \in Above(p) THEN "dir" ELSE d.host[q]]
           hf == [h EXCEPT ![p] = "file"]
           bf == [d.bytes EXCEPT ![p] = n]
           m1 == d.temps \cup {p}
           m2 == m1 \ {p}
           w1 == Disk(h, d.bytes, d.tombs, m1)
           w2 == Disk(hf, bf, d.tombs, m2)
           w3 == Disk(hf, bf, d.tombs \ {p}, m2)
<1>1. /\ d.host \in [Paths -> {"none", "file", "dir"}] /\ d.bytes \in [Paths -> Sizes]
      /\ d.tombs \subseteq Paths /\ d.temps \subseteq Paths
  BY DiskIs
<1>2. h \in [Paths -> {"none", "file", "dir"}] /\ h[p] = d.host[p]
  BY <1>1, AboveBelow
<1>3. hf \in [Paths -> {"none", "file", "dir"}] /\ bf \in [Paths -> Sizes]
  BY <1>1, <1>2
<1>4. w1 \in Disks /\ w2 \in Disks /\ w3 \in Disks
  <2> HIDE DEF h, hf, bf
  <2> QED
    BY <1>1, <1>2, <1>3, DisksFields
<1>5. WriteTrail(d, p, n) = <<w1, w2, w3>>
  <2>1. WithParents(d, p) = Disk(h, d.bytes, d.tombs, d.temps)
    BY DiskIs, WithParentsIs
  <2> HIDE DEF h
  <2>2. [Disk(h, d.bytes, d.tombs, d.temps) EXCEPT !.temps = @ \cup {p}] = w1
    BY DEF Disk
  <2>3. Put(w1, p, "file", n) = Disk(hf, bf, d.tombs, m1)
    BY PutIs
  <2> HIDE DEF hf, bf, m1
  <2>4. [Disk(hf, bf, d.tombs, m1) EXCEPT !.temps = @ \ {p}] = w2
    BY DEF Disk
  <2> HIDE DEF m2
  <2>5. [Disk(hf, bf, d.tombs, m2) EXCEPT !.tombs = @ \ {p}] = w3
    BY DEF Disk
  <2> HIDE DEF w1, w3
  <2> QED
    BY <2>1, <2>2, <2>3, <2>4, <2>5, Zenon DEF WriteTrail
<1>6. /\ w1.host = h /\ w1.bytes = d.bytes /\ w1.tombs = d.tombs
      /\ w2.host = hf /\ w2.bytes = bf /\ w2.tombs = d.tombs
      /\ w3.host = hf /\ w3.bytes = bf /\ w3.tombs = d.tombs \ {p}
  BY DiskFields
<1> HIDE DEF w1, w2, w3
<1>7. Beside(d, w1, p) /\ Beside(d, w2, p) /\ Beside(d, w3, p)
  BY <1>1, <1>2, <1>3, <1>6 DEF Beside
<1>8. Same(d, w1, p) /\ Written(d, w2, p, n) /\ Written(d, w3, p, n) /\ p \notin w3.tombs
  BY <1>1, <1>2, <1>3, <1>6 DEF Same, Written
<1>9. ToSet(WriteTrail(d, p, n)) = {w1, w2, w3} /\ Last(WriteTrail(d, p, n)) = w3
  BY <1>5 DEF ToSet, Last
<1> QED
  BY <1>4, <1>7, <1>8, <1>9

LEMMA DirectoryTrailStates ==
  ASSUME NEW d \in Disks, NEW p \in Paths
  PROVE  /\ \A e \in ToSet(DirectoryTrail(d, p)) :
              e \in Disks /\ Beside(d, e, p) /\ Made(d, e, p)
         /\ LET e == Last(DirectoryTrail(d, p))
            IN e \in ToSet(DirectoryTrail(d, p)) /\ p \notin e.tombs
<1> DEFINE h == [q \in Paths |-> IF q \in Above(p) THEN "dir" ELSE d.host[q]]
           hd == [h EXCEPT ![p] = "dir"]
           bd == [d.bytes EXCEPT ![p] = 0]
           w1 == Disk(hd, bd, d.tombs, d.temps)
           w2 == Disk(hd, bd, d.tombs \ {p}, d.temps)
<1>1. /\ d.host \in [Paths -> {"none", "file", "dir"}] /\ d.bytes \in [Paths -> Sizes]
      /\ d.tombs \subseteq Paths /\ d.temps \subseteq Paths /\ 0 \in Sizes
  BY DiskIs, SandboxAssumption DEF Sizes
<1>2. h \in [Paths -> {"none", "file", "dir"}] /\ h[p] = d.host[p]
  BY <1>1, AboveBelow
<1>3. hd \in [Paths -> {"none", "file", "dir"}] /\ bd \in [Paths -> Sizes]
  BY <1>1, <1>2
<1>4. w1 \in Disks /\ w2 \in Disks
  <2> HIDE DEF h, hd, bd
  <2> QED
    BY <1>1, <1>2, <1>3, DisksFields
<1>5. DirectoryTrail(d, p) = <<w1, w2>>
  <2>1. WithParents(d, p) = Disk(h, d.bytes, d.tombs, d.temps)
    BY DiskIs, WithParentsIs
  <2> HIDE DEF h
  <2>2. Put(Disk(h, d.bytes, d.tombs, d.temps), p, "dir", 0) = w1
    BY PutIs
  <2> HIDE DEF hd, bd
  <2>3. [w1 EXCEPT !.tombs = @ \ {p}] = w2
    BY DEF Disk
  <2> HIDE DEF w1, w2
  <2> QED
    BY <2>1, <2>2, <2>3, Zenon DEF DirectoryTrail
<1>6. /\ w1.host = hd /\ w1.bytes = bd /\ w1.tombs = d.tombs
      /\ w2.host = hd /\ w2.bytes = bd /\ w2.tombs = d.tombs \ {p}
  BY DiskFields
<1> HIDE DEF w1, w2
<1>7. Beside(d, w1, p) /\ Beside(d, w2, p)
  BY <1>1, <1>2, <1>3, <1>6 DEF Beside
<1>8. Made(d, w1, p) /\ Made(d, w2, p) /\ p \notin w2.tombs
  BY <1>1, <1>2, <1>3, <1>6 DEF Made
<1>9. ToSet(DirectoryTrail(d, p)) = {w1, w2} /\ Last(DirectoryTrail(d, p)) = w2
  BY <1>5 DEF ToSet, Last
<1> QED
  BY <1>4, <1>7, <1>8, <1>9

\* A path with a tombstone already has one.
LEMMA TombstoneTrailStates ==
  ASSUME NEW d \in Disks, NEW p \in Paths, Rooted(d), entries[p] = "tombstone" => p \in d.tombs
  PROVE  /\ \A e \in ToSet(TombstoneTrail(d, p)) :
              /\ e \in Disks /\ Beside(d, e, p)
              /\ Marked(d, e, p) \/ (Removed(e, p) /\ entries[p] # "tombstone" /\ ~HasDescendant(p))
         /\ LET e == Last(TombstoneTrail(d, p))
            IN /\ e \in ToSet(TombstoneTrail(d, p)) /\ p \in e.tombs
               /\ entries[p] # "tombstone" /\ ~HasDescendant(p) => Removed(e, p)
<1>1. /\ d.host \in [Paths -> {"none", "file", "dir"}] /\ d.bytes \in [Paths -> Sizes]
      /\ d.tombs \subseteq Paths /\ d.temps \subseteq Paths /\ 0 \in Sizes
  BY DiskIs, SandboxAssumption DEF Sizes
<1>2. CASE entries[p] = "tombstone"
  <2>1. TombstoneTrail(d, p) = <<d>>
    BY <1>2 DEF TombstoneTrail
  <2>2. ToSet(TombstoneTrail(d, p)) = {d} /\ Last(TombstoneTrail(d, p)) = d
    BY <2>1 DEF ToSet, Last
  <2>3. Beside(d, d, p) /\ Marked(d, d, p)
    BY <1>2, AboveHolds DEF Beside, Marked, Rooted
  <2> QED
    BY <1>2, <2>2, <2>3 DEF Marked
<1>3. CASE entries[p] # "tombstone"
  <2> DEFINE h == [q \in Paths |-> IF q \in Above(p) THEN "dir" ELSE d.host[q]]
             hn == [h EXCEPT ![p] = "none"]
             bn == [d.bytes EXCEPT ![p] = 0]
             t == d.tombs \cup {p}
             w1 == Disk(h, d.bytes, t, d.temps)
             w2 == Disk(hn, bn, t, d.temps)
  <2>1. h \in [Paths -> {"none", "file", "dir"}] /\ h[p] = d.host[p]
    BY <1>1, AboveBelow
  <2>2. hn \in [Paths -> {"none", "file", "dir"}] /\ bn \in [Paths -> Sizes]
    BY <1>1, <2>1
  <2>3. w1 \in Disks /\ w2 \in Disks
    <3> HIDE DEF h, hn, bn
    <3> QED
      BY <1>1, <2>1, <2>2, DisksFields
  <2>4. TombstoneTrail(d, p) = <<w1, IF HasDescendant(p) THEN w1 ELSE w2>>
    <3>1. WithParents(d, p) = Disk(h, d.bytes, d.tombs, d.temps)
      BY DiskIs, WithParentsIs
    <3> HIDE DEF h
    <3>2. [Disk(h, d.bytes, d.tombs, d.temps) EXCEPT !.tombs = @ \cup {p}] = w1
      BY DEF Disk
    <3>3. Put(w1, p, "none", 0) = w2
      BY PutIs
    <3> HIDE DEF w1, w2
    <3> QED
      BY <1>3, <3>1, <3>2, <3>3, Zenon DEF TombstoneTrail
  <2>5. /\ w1.host = h /\ w1.bytes = d.bytes /\ w1.tombs = t
        /\ w2.host = hn /\ w2.bytes = bn /\ w2.tombs = t
    BY DiskFields
  <2> HIDE DEF w1, w2
  <2>6. Beside(d, w1, p) /\ Beside(d, w2, p)
    BY <1>1, <2>1, <2>2, <2>5 DEF Beside
  <2>7. Marked(d, w1, p) /\ Removed(w2, p)
    BY <1>1, <2>1, <2>2, <2>5 DEF Marked, Removed
  <2>8. CASE HasDescendant(p)
    <3>1. ToSet(TombstoneTrail(d, p)) = {w1} /\ Last(TombstoneTrail(d, p)) = w1
      BY <2>4, <2>8 DEF ToSet, Last
    <3> QED
      BY <2>3, <2>6, <2>7, <2>8, <3>1 DEF Marked
  <2>9. CASE ~HasDescendant(p)
    <3>1. ToSet(TombstoneTrail(d, p)) = {w1, w2} /\ Last(TombstoneTrail(d, p)) = w2
      BY <2>4, <2>9 DEF ToSet, Last
    <3> QED
      BY <1>3, <2>3, <2>6, <2>7, <2>9, <3>1 DEF Removed
  <2> QED
    BY <2>8, <2>9
<1> QED
  BY <1>2, <1>3

LEMMA DiskTypes ==
  ASSUME NEW d \in Disks
  PROVE  /\ d.host \in [Paths -> {"none", "file", "dir"}]
         /\ d.bytes \in [Paths -> Sizes]
         /\ d.tombs \subseteq Paths
         /\ SumFunction(d.bytes) = SumFunctionOnSet(d.bytes, Paths)
         /\ SumFunction(d.bytes) \in Nat
<1>1. d.host \in [Paths -> {"none", "file", "dir"}] /\ d.bytes \in [Paths -> Sizes] /\ d.tombs \subseteq Paths
  BY DiskIs
<1>2. DOMAIN d.bytes = Paths /\ \A p \in Paths : d.bytes[p] \in Nat
  BY <1>1, SandboxAssumption DEF Sizes
<1>3. SumFunctionOnSet(d.bytes, Paths) \in Nat
  BY <1>2, SumNat, SandboxAssumption
<1> QED
  BY <1>1, <1>2, <1>3 DEF SumFunction

\* The bytes on the host after a change at one path.
LEMMA BytesChange ==
  ASSUME NEW d \in Disks, NEW e \in Disks, NEW p \in Paths, Beside(d, e, p)
  PROVE  SumFunction(e.bytes) = SumFunction(d.bytes) - d.bytes[p] + e.bytes[p]
<1>1. \A q \in Paths : d.bytes[q] \in Int /\ e.bytes[q] \in Int
  BY DiskTypes, SandboxAssumption DEF Sizes
<1>2. \A q \in Paths \ {p} : e.bytes[q] = d.bytes[q]
  BY DEF Beside
<1>3. SumFunctionOnSet(e.bytes, Paths) = SumFunctionOnSet(d.bytes, Paths) - d.bytes[p] + e.bytes[p]
  BY <1>1, <1>2, SumExcept, SandboxAssumption
<1> QED
  BY <1>3, DiskTypes

\* What the store never does: a file where a directory is, a directory where a file
\* is, a path removed that has something below it.
Allowed(d, e, p) ==
  /\ \A a \in Above(p) : d.host[a] # "file"
  /\ \/ Same(d, e, p)
     \/ Marked(d, e, p)
     \/ Made(d, e, p) /\ d.host[p] # "file"
     \/ Removed(e, p) /\ \A c \in Below(p) : d.host[c] = "none" /\ c \notin d.tombs
     \/ /\ \E n \in Sizes : Written(d, e, p, n)
        /\ d.host[p] # "dir"
        /\ SumFunction(d.bytes) - d.bytes[p] + e.bytes[p] <= Quota

LEMMA DiskChange ==
  ASSUME NEW d, DiskOK(d), NEW e \in Disks, NEW p \in Paths, Beside(d, e, p), Allowed(d, e, p)
  PROVE  DiskOK(e)
<1>1. d \in Disks /\ Rooted(d) /\ OnlyFilesTakeBytes(d) /\ SumFunction(d.bytes) <= Quota
  BY DEF DiskOK
<1>2. /\ d.host \in [Paths -> {"none", "file", "dir"}] /\ d.bytes \in [Paths -> Sizes]
      /\ e.host \in [Paths -> {"none", "file", "dir"}] /\ e.bytes \in [Paths -> Sizes]
  BY <1>1, DiskTypes
<1>3. p \notin Above(p) /\ \A c \in Paths : c \in Below(p) <=> p \in Above(c)
  BY AboveBelow
<1>4. Rooted(e)
  <2> SUFFICES ASSUME NEW c \in Paths, e.host[c] # "none" \/ c \in e.tombs, NEW a \in Above(c)
               PROVE  e.host[a] = "dir"
    BY DEF Rooted
  <2>1. a \in Paths
    BY AboveHolds
  <2>2. a \in Above(p) => e.host[a] = "dir"
    BY <1>3, <2>1 DEF Beside
  <2>3. CASE c = p \/ c \in Above(p)
    BY <2>2, <2>3, AboveTransitive
  <2>4. CASE c # p /\ c \notin Above(p)
    <3>1. d.host[c] # "none" \/ c \in d.tombs
      BY <2>4 DEF Beside
    <3>2. d.host[a] = "dir"
      BY <1>1, <3>1 DEF Rooted
    <3>3. CASE a = p
      <4>1. c \in Below(p)
        BY <1>3, <3>3
      <4> QED
        BY <3>1, <3>2, <3>3, <4>1 DEF Allowed, Same, Marked, Made, Removed
    <3>4. CASE a # p
      BY <2>1, <3>2, <3>4 DEF Beside
    <3> QED
      BY <3>3, <3>4
  <2> QED
    BY <2>3, <2>4
<1>5. OnlyFilesTakeBytes(e)
  <2> SUFFICES ASSUME NEW q \in Paths, e.host[q] # "file"
               PROVE  e.bytes[q] = 0
    BY DEF OnlyFilesTakeBytes
  <2>1. CASE q = p
    BY <1>1, <2>1 DEF OnlyFilesTakeBytes, Allowed, Same, Marked, Made, Removed, Written
  <2>2. CASE q # p
    <3>1. d.host[q] # "file"
      BY <2>2 DEF Beside, Allowed
    <3> QED
      BY <1>1, <2>2, <3>1 DEF Beside, OnlyFilesTakeBytes
  <2> QED
    BY <2>1, <2>2
<1>6. SumFunction(e.bytes) <= Quota
  <2>1. SumFunction(e.bytes) = SumFunction(d.bytes) - d.bytes[p] + e.bytes[p]
    BY <1>1, BytesChange
  <2>2. SumFunction(d.bytes) \in Nat /\ d.bytes[p] \in Nat /\ Quota \in Nat
    BY <1>1, <1>2, DiskTypes, SandboxAssumption DEF Sizes
  <2>3. CASE \E n \in Sizes : Written(d, e, p, n) /\ SumFunction(d.bytes) - d.bytes[p] + e.bytes[p] <= Quota
    BY <2>1, <2>3
  <2>4. CASE Same(d, e, p) \/ Marked(d, e, p)
    BY <1>1, <2>1, <2>2, <2>4 DEF Same, Marked
  <2>5. CASE Made(d, e, p) \/ Removed(e, p)
    BY <1>1, <2>1, <2>2, <2>5 DEF Made, Removed
  <2> QED
    BY <2>3, <2>4, <2>5 DEF Allowed
<1> QED
  BY <1>4, <1>5, <1>6 DEF DiskOK

-----------------------------------------------------------------------------
(* The index.                                                              *)

Kinds == {"none", "file", "dir", "tombstone"}

\* What an entry, or no entry at all below a path, says about the host.
LEMMA EntriesSay ==
  ASSUME NEW d, DiskOK(d), NEW en, NEW st, NEW u, StoreOK(d, en, st, u), NEW p \in Paths
  PROVE  /\ en[p] = "tombstone" <=> p \in d.tombs
         /\ en[p] = "file" <=> d.host[p] = "file"
         /\ en[p] = "dir" => d.host[p] = "dir" /\ p \notin d.tombs
         /\ d.host[p] = "file" => p \notin d.tombs
         /\ (\E c \in Below(p) : en[c] # "none") => d.host[p] = "dir"
         /\ (\A c \in Below(p) : en[c] = "none") =>
              \A c \in Below(p) : d.host[c] = "none" /\ c \notin d.tombs
<1>1. /\ d.host \in [Paths -> {"none", "file", "dir"}] /\ Rooted(d)
      /\ \A q \in d.tombs : d.host[q] # "file"
      /\ d.tombs \subseteq Paths
  BY DiskTypes DEF DiskOK, StoreOK, Torn
<1>2. \A c \in Paths : c \in Below(p) <=> p \in Above(c)
  BY AboveBelow
<1>3. \A q \in Paths :
        \/ en[q] = IF q \in d.tombs THEN "tombstone" ELSE d.host[q]
        \/ en[q] = "none" /\ d.host[q] = "dir" /\ q \notin d.tombs
  BY DEF StoreOK, Indexes
<1>4. Below(p) \subseteq Paths
  BY AboveBelow
<1>5. ASSUME NEW c \in Below(p), en[c] # "none" PROVE d.host[p] = "dir"
  BY <1>1, <1>2, <1>3, <1>4, <1>5 DEF Rooted
<1>6. ASSUME \A c \in Below(p) : en[c] = "none", NEW c \in Below(p)
      PROVE  d.host[c] = "none" /\ c \notin d.tombs
  <2>1. CASE d.host[c] = "dir" /\ c \notin d.tombs
    <3>1. PICK x \in Below(c) : en[x] # "none"
      BY <1>4, <1>6, <2>1 DEF StoreOK, ParentsHold
    <3>2. x \in Paths /\ c \in Above(x) /\ p \in Above(c)
      BY <1>2, <1>4, AboveBelow
    <3>3. x \in Below(p)
      BY <1>2, <3>2, AboveTransitive
    <3> QED
      BY <1>6, <3>1, <3>3
  <2> QED
    BY <1>1, <1>3, <1>4, <1>6, <2>1
<1> QED
  BY <1>1, <1>3, <1>5, <1>6

\* One operation of the store: the host changed at `p` and so did the index.
LEMMA StoreChange ==
  ASSUME NEW d, DiskOK(d),
         NEW en \in [Paths -> Kinds], NEW st, NEW u, StoreOK(d, en, st, u),
         NEW e \in Disks, NEW p \in Paths, Beside(d, e, p),
         \A a \in Above(p) : d.host[a] # "file",
         NEW kind, NEW n \in Sizes,
         \/ kind = "file" /\ Written(d, e, p, n) /\ p \notin e.tombs
         \/ kind = "dir" /\ Made(d, e, p) /\ p \notin e.tombs /\ n = 0
         \/ kind = "tombstone" /\ n = 0 /\ p \in e.tombs
              /\ (Removed(e, p) \/ (Marked(d, e, p) /\ d.host[p] # "file"))
  PROVE  StoreOK(e, [en EXCEPT ![p] = kind], [st EXCEPT ![p] = n], u - st[p] + n)
<1> DEFINE em == [en EXCEPT ![p] = kind]
           sm == [st EXCEPT ![p] = n]
<1>1. d \in Disks /\ Rooted(d) /\ OnlyFilesTakeBytes(d)
  BY DEF DiskOK
<1>2. /\ d.host \in [Paths -> {"none", "file", "dir"}] /\ d.bytes \in [Paths -> Sizes]
      /\ e.host \in [Paths -> {"none", "file", "dir"}] /\ e.bytes \in [Paths -> Sizes]
      /\ d.tombs \subseteq Paths /\ e.tombs \subseteq Paths
  BY <1>1, DiskTypes
<1>3. ~Torn(d) /\ Indexes(en, d) /\ ParentsHold(en, d) /\ st = d.bytes /\ u = SumFunction(d.bytes)
  BY DEF StoreOK
<1>4. em[p] = kind /\ \A q \in Paths \ {p} : em[q] = en[q]
  OBVIOUS
<1>5. p \notin Above(p) /\ \A c \in Paths : p \in Below(c) <=> c \in Above(p)
  BY AboveBelow
<1>6. \A q \in Paths \ {p} :
        /\ e.host[q] = IF q \in Above(p) THEN "dir" ELSE d.host[q]
        /\ q \in e.tombs <=> q \in d.tombs
  BY DEF Beside
<1>8. e.bytes[p] = n
  BY <1>1 DEF Written, Made, Removed, Marked, OnlyFilesTakeBytes
<1> HIDE DEF em
<1>9. ~Torn(e)
  <2> SUFFICES ASSUME NEW q \in e.tombs, e.host[q] = "file" PROVE FALSE
    BY DEF Torn
  <2>1. q # p
    BY <1>2 DEF Written, Made, Removed, Marked
  <2> QED
    BY <1>2, <1>3, <1>6, <2>1 DEF Torn
<1>10. Indexes(em, e)
  <2> SUFFICES ASSUME NEW q \in Paths
               PROVE  \/ em[q] = IF q \in e.tombs THEN "tombstone" ELSE e.host[q]
                      \/ em[q] = "none" /\ e.host[q] = "dir" /\ q \notin e.tombs
    BY DEF Indexes
  <2>1. CASE q = p
    BY <1>4, <2>1 DEF Written, Made
  <2>2. CASE q # p
    BY <1>2, <1>3, <1>4, <1>6, <2>2 DEF Indexes
  <2> QED
    BY <2>1, <2>2
<1>11. ParentsHold(em, e)
  <2> SUFFICES ASSUME NEW q \in Paths, e.host[q] = "dir", em[q] = "none"
               PROVE  \E c \in Below(q) : em[c] # "none"
    BY DEF ParentsHold
  <2>1. q # p
    BY <1>4
  <2>2. CASE q \in Above(p)
    BY <1>4, <1>5, <2>2
  <2>3. CASE q \notin Above(p)
    <3>1. PICK c \in Below(q) : en[c] # "none"
      BY <1>3, <1>4, <1>6, <2>1, <2>3 DEF ParentsHold
    <3>2. c \in Paths
      BY AboveBelow
    <3> QED
      BY <1>4, <3>1, <3>2
  <2> QED
    BY <2>2, <2>3
<1>12. sm = e.bytes
  BY <1>2, <1>3, <1>8 DEF Beside
<1>13. u - st[p] + n = SumFunction(e.bytes)
  BY <1>1, <1>3, <1>8, BytesChange
<1> HIDE DEF sm
<1>14. StoreOK(e, em, sm, u - st[p] + n)
  BY <1>9, <1>10, <1>11, <1>12, <1>13 DEF StoreOK
<1> QED
  BY <1>14 DEF em, sm

-----------------------------------------------------------------------------
(* Nodes.                                                                  *)

FileNodes == [overlay : Paths \cup {None}, dirty : BOOLEAN, size : Sizes, persisted : Sizes]

\* The nodes an operation keeps, and what they are then.
Kept == open' \cup Range(names')
After(f, n) == IF n \in DOMAIN f THEN f[n] ELSE Node(n)
Then(f, n) == IF n \in Kept THEN After(f, n) ELSE Fresh

LEMMA NodeType ==
  ASSUME TypeOK
  PROVE  /\ \A n \in Nodes : Node(n) \in FileNodes
         /\ Fresh \in FileNodes /\ Contribution(Fresh) = 0
         /\ \A f \in FileNodes : Contribution(f) \in Int
<1>1. 0 \in Sizes /\ Sizes \subseteq Int
  BY SandboxAssumption DEF Sizes
<1>2. \A n \in Nodes : Node(n) \in FileNodes
  BY DEF TypeOK, Node, FileNodes
<1>3. Fresh \in FileNodes /\ Contribution(Fresh) = 0
  BY <1>1 DEF Fresh, FileNodes, Contribution
<1>4. ASSUME NEW f \in FileNodes PROVE Contribution(f) \in Int
  <2>1. f.size \in Int /\ f.persisted \in Int
    BY <1>1 DEF FileNodes
  <2>2. CASE f.dirty /\ f.overlay # None
    BY <2>1, <2>2 DEF Contribution
  <2>3. CASE ~(f.dirty /\ f.overlay # None)
    BY <2>3 DEF Contribution
  <2> QED
    BY <2>2, <2>3
<1> QED
  BY <1>2, <1>3, <1>4

\* The sum of unflushed bytes follows when a node without name and descriptor has none.
LEMMA NodesSet ==
  ASSUME TypeOK, NEW f, SetNodes(f), DOMAIN f \subseteq Nodes,
         \A n \in DOMAIN f : f[n] \in FileNodes
  PROVE  /\ \A n \in Nodes : (Node(n))' = Then(f, n)
         /\ \A n \in Nodes :
              /\ overlay'[n] = Then(f, n).overlay /\ dirty'[n] = Then(f, n).dirty
              /\ size'[n] = Then(f, n).size /\ persisted'[n] = Then(f, n).persisted
         /\ overlay' \in [Nodes -> Paths \cup {None}] /\ dirty' \in [Nodes -> BOOLEAN]
         /\ size' \in [Nodes -> Sizes] /\ persisted' \in [Nodes -> Sizes]
         /\ \A n \in Nodes : Then(f, n) \in FileNodes
<1>1. \A n \in Nodes : Then(f, n) \in FileNodes
  BY NodeType DEF Then, After
<1>2. /\ overlay' = [n \in Nodes |-> Then(f, n).overlay]
      /\ dirty' = [n \in Nodes |-> Then(f, n).dirty]
      /\ size' = [n \in Nodes |-> Then(f, n).size]
      /\ persisted' = [n \in Nodes |-> Then(f, n).persisted]
  BY Zenon DEF SetNodes, Then, After, Kept
<1>3. \A r \in FileNodes :
        /\ r = [overlay |-> r.overlay, dirty |-> r.dirty, size |-> r.size, persisted |-> r.persisted]
        /\ r.overlay \in Paths \cup {None} /\ r.dirty \in BOOLEAN
        /\ r.size \in Sizes /\ r.persisted \in Sizes
  BY DEF FileNodes
<1>4. \A n \in Nodes : (Node(n))' = Then(f, n)
  <2> TAKE n \in Nodes
  <2>1. (Node(n))' = [overlay |-> overlay'[n], dirty |-> dirty'[n],
                      size |-> size'[n], persisted |-> persisted'[n]]
    BY DEF Node
  <2> QED
    BY <1>1, <1>2, <1>3, <2>1
<1> QED
  BY <1>1, <1>2, <1>3, <1>4

LEMMA DeltaFollows ==
  ASSUME TypeOK, NEW f, SetNodes(f), DOMAIN f \subseteq Nodes,
         \A n \in DOMAIN f : f[n] \in FileNodes,
         \A n \in Nodes \ Kept : Contribution(After(f, n)) = 0,
         DeltaInv
  PROVE  DeltaInv' /\ delta' \in Int
<1> DEFINE D == DOMAIN f
           g == [n \in Nodes |-> Contribution(Node(n))]
           h == [n \in Nodes |-> Contribution(Then(f, n))]
<1>1. \A n \in Nodes : Contribution(Then(f, n)) = Contribution(After(f, n))
  BY NodeType DEF Then
<1>2. g \in [Nodes -> Int] /\ h \in [Nodes -> Int]
  BY NodesSet, NodeType
<1>3. \A n \in Nodes \ D : h[n] = g[n]
  BY <1>1 DEF After
<1>4. \A n \in D : h[n] - g[n] = Contribution(f[n]) - Contribution(Node(n))
  BY <1>1 DEF After
<1>5. [n \in D |-> h[n] - g[n]] = [n \in D |-> Contribution(f[n]) - Contribution(Node(n))]
  BY <1>4, Zenon
<1>6. IsFiniteSet(Nodes) /\ D \in SUBSET Nodes
  BY SandboxAssumption
<1>7. SumFunction(h) = SumFunction(g) + SumFunction([n \in D |-> h[n] - g[n]])
  <2> HIDE DEF g, h, D
  <2> QED
    BY <1>2, <1>3, <1>6, SumChange
<1>8. delta' = delta + SumFunction([n \in D |-> Contribution(f[n]) - Contribution(Node(n))])
  BY Zenon DEF SetNodes
<1>9. delta = SumFunction(g)
  BY DEF DeltaInv, Contributions
<1>10. Contributions' = h
  <2>1. Contributions' = [n \in Nodes |-> Contribution((Node(n))')]
    BY DEF Contributions, Contribution
  <2>2. \A n \in Nodes : (Node(n))' = Then(f, n)
    BY NodesSet
  <2> QED
    BY <2>1, <2>2
<1>11. SumFunction(h) \in Int
  <2> HIDE DEF h
  <2>1. DOMAIN h = Nodes /\ \A n \in Nodes : h[n] \in Int
    BY <1>2
  <2> QED
    BY <1>6, <2>1, SumInt DEF SumFunction
<1> HIDE DEF g, h, D
<1>12. delta' = SumFunction(h)
  BY <1>5, <1>7, <1>8, <1>9
<1> QED
  BY <1>10, <1>11, <1>12 DEF DeltaInv

\* How an operation moves names: the nodes it sets fit the new names, the others
\* keep their names, and what is clean is durable.
LEMMA NamesMove ==
  ASSUME TypeOK, NodeInv, DeltaInv, NEW f, SetNodes(f), DOMAIN f \subseteq Nodes,
         names' \in [Paths -> Nodes \cup {None}], open' \subseteq Nodes,
         \A p, q \in Paths : names'[p] # None /\ names'[p] = names'[q] => p = q,
         \A n \in DOMAIN f :
           /\ f[n] \in FileNodes
           /\ f[n].overlay # None => names'[f[n].overlay] = n
           /\ f[n].dirty => f[n].overlay # None
           /\ n \in open' => \A p \in Paths : names'[p] = n => f[n].overlay = p,
         \A n \in Nodes \ DOMAIN f :
           /\ n \in open' => n \in open
           /\ \A p \in Paths : names'[p] = n <=> names[p] = n
  PROVE  /\ NodeInv' /\ DeltaInv'
         /\ \A p \in Paths : names'[p] # None =>
              /\ overlay'[names'[p]] = After(f, names'[p]).overlay
              /\ dirty'[names'[p]] = After(f, names'[p]).dirty
              /\ size'[names'[p]] = After(f, names'[p]).size
         /\ overlay' \in [Nodes -> Paths \cup {None}] /\ dirty' \in [Nodes -> BOOLEAN]
         /\ size' \in [Nodes -> Sizes] /\ persisted' \in [Nodes -> Sizes] /\ delta' \in Int
<1>1. /\ \A n \in Nodes :
           /\ overlay'[n] = Then(f, n).overlay /\ dirty'[n] = Then(f, n).dirty
           /\ size'[n] = Then(f, n).size /\ persisted'[n] = Then(f, n).persisted
      /\ overlay' \in [Nodes -> Paths \cup {None}] /\ dirty' \in [Nodes -> BOOLEAN]
      /\ size' \in [Nodes -> Sizes] /\ persisted' \in [Nodes -> Sizes]
  BY NodesSet
<1>2. \A p \in Paths : names'[p] \in Kept
  BY DEF Kept, Range
<1>3. \A n \in Nodes : n \in Kept => Then(f, n) = After(f, n)
  BY DEF Then
<1>4. \A n \in Nodes : n \notin Kept => Then(f, n).overlay = None /\ ~Then(f, n).dirty
  BY DEF Then, Fresh
<1>5. \A n \in Nodes \ DOMAIN f :
        After(f, n).overlay = overlay[n] /\ After(f, n).dirty = dirty[n] /\ After(f, n).size = size[n]
  BY DEF After, Node
<1>6. \A n \in DOMAIN f : After(f, n) = f[n]
  BY DEF After
<1>7. ASSUME NEW n \in Nodes, After(f, n).overlay # None
      PROVE  After(f, n).overlay \in Paths /\ names'[After(f, n).overlay] = n
  <2>1. CASE n \in DOMAIN f
    BY <1>6, <1>7, <2>1 DEF FileNodes
  <2>2. CASE n \notin DOMAIN f
    BY <1>5, <1>7, <2>2 DEF NodeInv, TypeOK
  <2> QED
    BY <2>1, <2>2
<1>8. ASSUME NEW n \in Nodes, After(f, n).dirty
      PROVE  After(f, n).overlay # None
  BY <1>5, <1>6, <1>8 DEF NodeInv
<1>9. \A n \in Nodes : overlay'[n] # None => names'[overlay'[n]] = n
  BY <1>1, <1>3, <1>4, <1>7
<1>10. \A n \in Nodes : dirty'[n] => overlay'[n] # None
  BY <1>1, <1>3, <1>4, <1>8
<1>11. ASSUME NEW p \in Paths, names'[p] \in open'
       PROVE  overlay'[names'[p]] = p
  <2> DEFINE n == names'[p]
  <2>1. n \in Nodes /\ n \in Kept
    BY <1>2, <1>11
  <2>2. overlay'[n] = After(f, n).overlay
    BY <1>1, <1>3, <2>1
  <2>3. CASE n \in DOMAIN f
    BY <1>6, <1>11, <2>2, <2>3
  <2>4. CASE n \notin DOMAIN f
    BY <1>5, <1>11, <2>1, <2>2, <2>4 DEF NodeInv
  <2> QED
    BY <2>3, <2>4
<1>12. NodeInv'
  BY <1>9, <1>10, <1>11 DEF NodeInv
<1>13. \A n \in Nodes \ Kept : Contribution(After(f, n)) = 0
  <2> TAKE n \in Nodes \ Kept
  <2>1. After(f, n).overlay = None
    BY <1>2, <1>7
  <2> QED
    BY <2>1 DEF Contribution
<1>14. DeltaInv' /\ delta' \in Int
  BY <1>13, DeltaFollows
<1>15. \A p \in Paths : names'[p] # None =>
         /\ overlay'[names'[p]] = After(f, names'[p]).overlay
         /\ dirty'[names'[p]] = After(f, names'[p]).dirty
         /\ size'[names'[p]] = After(f, names'[p]).size
  BY <1>1, <1>2, <1>3
<1> QED
  BY <1>1, <1>12, <1>14, <1>15

-----------------------------------------------------------------------------
(* What a session would find.                                              *)

LEMMA DurableBeside ==
  ASSUME NEW d \in Disks, NEW e \in Disks, NEW p \in Paths, Beside(d, e, p),
         \A a \in Above(p) : d.host[a] # "file"
  PROVE  \A q \in Paths \ {p} : Durable(e)[q] = Durable(d)[q]
BY DEF Beside, Durable

LEMMA DurableAt ==
  ASSUME NEW d \in Disks, NEW e \in Disks, NEW p \in Paths
  PROVE  /\ Same(d, e, p) => Durable(e)[p] = Durable(d)[p]
         /\ \A n : Written(d, e, p, n) => Durable(e)[p] = n
         /\ Removed(e, p) => Durable(e)[p] = None
         /\ Marked(d, e, p) =>
              Durable(e)[p] = IF d.host[p] = "file" THEN Durable(d)[p] ELSE None
         /\ Made(d, e, p) /\ p \notin Base => Durable(e)[p] = None
<1>1. /\ Durable(d)[p] = IF d.host[p] = "file" THEN d.bytes[p]
                         ELSE IF p \in d.tombs \/ p \notin Base THEN None ELSE BaseSize
      /\ Durable(e)[p] = IF e.host[p] = "file" THEN e.bytes[p]
                         ELSE IF p \in e.tombs \/ p \notin Base THEN None ELSE BaseSize
  BY DEF Durable
<1> QED
  BY <1>1 DEF Same, Written, Removed, Marked, Made

-----------------------------------------------------------------------------
(* The operations of the store.                                            *)

LEMMA StoreTypes ==
  ASSUME NEW d, DiskOK(d), NEW en, NEW st, NEW u, StoreOK(d, en, st, u)
  PROVE  st \in [Paths -> Sizes] /\ u \in 0 .. Quota
<1>1. d.bytes \in [Paths -> Sizes] /\ SumFunction(d.bytes) \in Nat
  BY DiskTypes DEF DiskOK
<1> QED
  BY <1>1, SandboxAssumption DEF DiskOK, StoreOK

LEMMA WriteKeeps ==
  ASSUME SInv, up, NEW p \in Paths, NEW n \in Sizes, CanWrite(p, n)
  PROVE  /\ \A a \in Above(p) : disk.host[a] # "file"
         /\ \A e \in ToSet(WriteTrail(disk, p, n)) :
              /\ e \in Disks /\ Beside(disk, e, p) /\ DiskOK(e)
              /\ Same(disk, e, p) \/ Written(disk, e, p, n)
         /\ LET e == Last(WriteTrail(disk, p, n))
            IN /\ e \in ToSet(WriteTrail(disk, p, n)) /\ Written(disk, e, p, n) /\ p \notin e.tombs
               /\ StoreOK(e, [entries EXCEPT ![p] = "file"], [stored EXCEPT ![p] = n],
                          used - stored[p] + n)
<1>1. DiskOK(disk) /\ disk \in Disks /\ StoreOK(disk, entries, stored, used)
  BY DEF SInv, DiskOK, StoreInv
<1>2. \A a \in Above(p) : disk.host[a] # "file"
  BY DEF CanWrite, CanPlace
<1>3. stored = disk.bytes /\ used = SumFunction(disk.bytes)
  BY <1>1 DEF StoreOK
<1>4. ASSUME NEW e \in ToSet(WriteTrail(disk, p, n))
      PROVE  /\ e \in Disks /\ Beside(disk, e, p) /\ DiskOK(e)
             /\ Same(disk, e, p) \/ Written(disk, e, p, n)
  <2>1. e \in Disks /\ Beside(disk, e, p) /\ (Same(disk, e, p) \/ Written(disk, e, p, n))
    BY <1>1, WriteTrailStates
  <2>2. Allowed(disk, e, p)
    <3>1. CASE Same(disk, e, p)
      BY <1>2, <3>1 DEF Allowed
    <3>2. CASE Written(disk, e, p, n)
      <4>1. e.bytes[p] = n
        BY <3>2 DEF Written
      <4> QED
        BY <1>2, <1>3, <3>2, <4>1 DEF Allowed, CanWrite
    <3> QED
      BY <2>1, <3>1, <3>2
  <2> QED
    BY <1>1, <2>1, <2>2, DiskChange
<1> DEFINE e == Last(WriteTrail(disk, p, n))
<1>5. e \in ToSet(WriteTrail(disk, p, n)) /\ Written(disk, e, p, n) /\ p \notin e.tombs
  BY <1>1, WriteTrailStates
<1>6. entries \in [Paths -> Kinds]
  BY DEF SInv, TypeOK, Kinds
<1> HIDE DEF e
<1>7. StoreOK(e, [entries EXCEPT ![p] = "file"], [stored EXCEPT ![p] = n], used - stored[p] + n)
  BY <1>1, <1>2, <1>4, <1>5, <1>6, StoreChange
<1> QED
  BY <1>2, <1>4, <1>5, <1>7 DEF e

LEMMA MakeKeeps ==
  ASSUME SInv, up, NEW p \in Paths, CanMakeDirectory(p)
  PROVE  /\ \A a \in Above(p) : disk.host[a] # "file"
         /\ disk.host[p] # "file"
         /\ \A e \in ToSet(DirectoryTrail(disk, p)) :
              e \in Disks /\ Beside(disk, e, p) /\ DiskOK(e) /\ Made(disk, e, p)
         /\ LET e == Last(DirectoryTrail(disk, p))
            IN /\ e \in ToSet(DirectoryTrail(disk, p)) /\ p \notin e.tombs
               /\ StoreOK(e, [entries EXCEPT ![p] = "dir"], [stored EXCEPT ![p] = 0],
                          used - stored[p] + 0)
<1>1. DiskOK(disk) /\ disk \in Disks /\ StoreOK(disk, entries, stored, used)
  BY DEF SInv, DiskOK, StoreInv
<1>2. \A a \in Above(p) : disk.host[a] # "file"
  BY DEF CanMakeDirectory, CanPlace
<1>3. disk.host[p] # "file"
  BY <1>1, EntriesSay DEF CanMakeDirectory
<1>4. ASSUME NEW e \in ToSet(DirectoryTrail(disk, p))
      PROVE  e \in Disks /\ Beside(disk, e, p) /\ DiskOK(e) /\ Made(disk, e, p)
  <2>1. e \in Disks /\ Beside(disk, e, p) /\ Made(disk, e, p)
    BY <1>1, DirectoryTrailStates
  <2>2. Allowed(disk, e, p)
    BY <1>2, <1>3, <2>1 DEF Allowed
  <2> QED
    BY <1>1, <2>1, <2>2, DiskChange
<1> DEFINE e == Last(DirectoryTrail(disk, p))
<1>5. e \in ToSet(DirectoryTrail(disk, p)) /\ p \notin e.tombs
  BY <1>1, DirectoryTrailStates
<1>6. entries \in [Paths -> Kinds] /\ 0 \in Sizes
  BY SandboxAssumption DEF SInv, TypeOK, Kinds, Sizes
<1> HIDE DEF e
<1>7. StoreOK(e, [entries EXCEPT ![p] = "dir"], [stored EXCEPT ![p] = 0], used - stored[p] + 0)
  BY <1>1, <1>2, <1>4, <1>5, <1>6, StoreChange
<1> QED
  BY <1>2, <1>3, <1>4, <1>5, <1>7 DEF e

\* `d` is the host, or what a rename has made of it before it removes the source.
LEMMA EraseTrailKeeps ==
  ASSUME NEW d, DiskOK(d), NEW en, NEW st, NEW u, StoreOK(d, en, st, u),
         NEW p \in Paths, \A c \in Below(p) \cup {p} : en[c] = entries[c],
         entries[p] = "tombstone" \/ \A a \in Above(p) : d.host[a] # "file"
  PROVE  /\ \A a \in Above(p) : d.host[a] # "file"
         /\ \A e \in ToSet(TombstoneTrail(d, p)) :
              /\ e \in Disks /\ Beside(d, e, p) /\ DiskOK(e)
              /\ Marked(d, e, p) \/ Removed(e, p)
              /\ Removed(e, p) => \A c \in Below(p) : d.host[c] = "none" /\ c \notin d.tombs
<1>1. d \in Disks /\ Rooted(d)
  BY DEF DiskOK
<1>2. /\ entries[p] = "tombstone" <=> p \in d.tombs
      /\ d.host[p] = "file" => p \notin d.tombs
      /\ HasDescendant(p) => d.host[p] = "dir"
      /\ ~HasDescendant(p) => \A c \in Below(p) : d.host[c] = "none" /\ c \notin d.tombs
  BY EntriesSay DEF HasDescendant
<1>3. \A a \in Above(p) : d.host[a] # "file"
  BY <1>1, <1>2 DEF Rooted
<1>4. ASSUME NEW e \in ToSet(TombstoneTrail(d, p))
      PROVE  /\ e \in Disks /\ Beside(d, e, p) /\ DiskOK(e)
             /\ Marked(d, e, p) \/ Removed(e, p)
             /\ Removed(e, p) => \A c \in Below(p) : d.host[c] = "none" /\ c \notin d.tombs
  <2>1. /\ e \in Disks /\ Beside(d, e, p)
        /\ Marked(d, e, p) \/ (Removed(e, p) /\ ~HasDescendant(p))
    BY <1>1, <1>2, TombstoneTrailStates
  <2>2. Allowed(d, e, p)
    BY <1>2, <1>3, <2>1 DEF Allowed
  <2>3. DiskOK(e)
    BY <2>1, <2>2, DiskChange
  <2> QED
    BY <1>2, <2>1, <2>3 DEF Marked, Removed
<1> QED
  BY <1>3, <1>4

\* What is left when the whole trail has been gone.
LEMMA EraseKeeps ==
  ASSUME NEW d, DiskOK(d), NEW en \in [Paths -> Kinds], NEW st, NEW u, StoreOK(d, en, st, u),
         NEW p \in Paths, \A c \in Below(p) \cup {p} : en[c] = entries[c],
         entries[p] = "tombstone" \/ \A a \in Above(p) : d.host[a] # "file",
         NEW e, e = Last(TombstoneTrail(d, p))
  PROVE  /\ e \in ToSet(TombstoneTrail(d, p)) /\ p \in e.tombs /\ e.host[p] # "file"
         /\ StoreOK(e, [en EXCEPT ![p] = "tombstone"], [st EXCEPT ![p] = 0], u - st[p] + 0)
<1>1. d \in Disks /\ Rooted(d)
  BY DEF DiskOK
<1>2. /\ entries[p] = "tombstone" <=> p \in d.tombs
      /\ d.host[p] = "file" => p \notin d.tombs
      /\ HasDescendant(p) => d.host[p] = "dir"
  BY EntriesSay DEF HasDescendant
<1>3. /\ \A a \in Above(p) : d.host[a] # "file"
      /\ \A x \in ToSet(TombstoneTrail(d, p)) :
           x \in Disks /\ Beside(d, x, p) /\ (Marked(d, x, p) \/ Removed(x, p))
  BY EraseTrailKeeps
<1>4. /\ e \in ToSet(TombstoneTrail(d, p)) /\ p \in e.tombs
      /\ entries[p] # "tombstone" /\ ~HasDescendant(p) => Removed(e, p)
  BY <1>1, <1>2, TombstoneTrailStates
<1>5. 0 \in Sizes
  BY SandboxAssumption DEF Sizes
<1>6. Removed(e, p) \/ (Marked(d, e, p) /\ d.host[p] # "file")
  BY <1>2, <1>3, <1>4
<1>7. StoreOK(e, [en EXCEPT ![p] = "tombstone"], [st EXCEPT ![p] = 0], u - st[p] + 0)
  BY <1>3, <1>4, <1>5, <1>6, StoreChange
<1>8. e.host[p] # "file"
  BY <1>6 DEF Removed, Marked
<1> QED
  BY <1>4, <1>7, <1>8

-----------------------------------------------------------------------------
(* Each operation keeps SInv.                                              *)

\* What an operation has to keep; the nodes that it sets are those of `f`.
LEMMA SessionMove ==
  ASSUME SInv, up, up', NEW f, SetNodes(f), DOMAIN f \subseteq Nodes,
         DiskOK(disk'), StoreOK(disk', entries', stored', used'),
         entries' \in [Paths -> Kinds], dirs' \subseteq Paths,
         resurfaces' \in BOOLEAN, overlooked' \in BOOLEAN,
         names' \in [Paths -> Nodes \cup {None}], open' \subseteq Nodes,
         \A p, q \in Paths : names'[p] # None /\ names'[p] = names'[q] => p = q,
         \A n \in DOMAIN f :
           /\ f[n] \in FileNodes
           /\ f[n].overlay # None => names'[f[n].overlay] = n
           /\ f[n].dirty => f[n].overlay # None
           /\ n \in open' => \A p \in Paths : names'[p] = n => f[n].overlay = p,
         \A n \in Nodes \ DOMAIN f :
           /\ n \in open' => n \in open
           /\ \A p \in Paths : names'[p] = n <=> names[p] = n,
         hidden' \subseteq disk'.tombs,
         \A p \in hidden' : names'[p] = None,
         \A p \in Paths : names'[p] # None =>
           IF names'[p] \in DOMAIN f
             THEN ~f[names'[p]].dirty => Durable(disk')[p] = f[names'[p]].size
             ELSE Durable(disk')[p] = Durable(disk)[p]
  PROVE  SInv'
<1>1. TypeOK /\ NodeInv /\ DeltaInv /\ CleanInv
  BY DEF SInv
<1>2. /\ NodeInv' /\ DeltaInv'
      /\ \A p \in Paths : names'[p] # None =>
           /\ dirty'[names'[p]] = After(f, names'[p]).dirty
           /\ size'[names'[p]] = After(f, names'[p]).size
      /\ overlay' \in [Nodes -> Paths \cup {None}] /\ dirty' \in [Nodes -> BOOLEAN]
      /\ size' \in [Nodes -> Sizes] /\ persisted' \in [Nodes -> Sizes] /\ delta' \in Int
  BY <1>1, NamesMove
<1>3. stored' \in [Paths -> Sizes] /\ used' \in 0 .. Quota
  BY StoreTypes
<1>4. disk' \in Disks /\ disk'.tombs \subseteq Paths
  BY DiskTypes DEF DiskOK
<1>5. TypeOK'
  BY <1>2, <1>3, <1>4 DEF TypeOK, Kinds
<1>6. ASSUME NEW p \in Paths, names'[p] # None, ~dirty'[names'[p]]
      PROVE  Durable(disk')[p] = size'[names'[p]]
  <2>1. CASE names'[p] \in DOMAIN f
    BY <1>2, <1>6, <2>1 DEF After
  <2>2. CASE names'[p] \notin DOMAIN f
    <3>1. names'[p] \in Nodes /\ names[p] = names'[p]
      BY <1>6, <2>2
    <3>2. dirty'[names'[p]] = dirty[names[p]] /\ size'[names'[p]] = size[names[p]]
      BY <1>2, <1>6, <2>2, <3>1 DEF After, Node
    <3>3. Durable(disk)[p] = size[names[p]]
      BY <1>1, <1>6, <3>1, <3>2 DEF CleanInv
    <3> QED
      BY <1>6, <2>2, <3>2, <3>3
  <2> QED
    BY <2>1, <2>2
<1>7. CleanInv'
  BY <1>4, <1>6 DEF CleanInv
<1>8. StoreInv' /\ DownInv' /\ DiskOK(disk)'
  BY DEF StoreInv, DownInv
<1> QED
  BY <1>2, <1>5, <1>7, <1>8 DEF SInv

LEMMA SmallestNat ==
  ASSUME NEW I, I \subseteq Nat, I # {}
  PROVE  Min(I) \in I
<1>1. PICK m \in I : \A k \in I : ~ (<<k, m>> \in OpToRel(<, Nat))
  BY NatLessThanWellFounded, WFMin
<1>2. OpToRel(<, Nat) = {ss \in Nat \X Nat : ss[1] < ss[2]}
  BY Zenon DEF OpToRel
<1>3. \A k \in I : ~ (<<k, m>> \in {ss \in Nat \X Nat : ss[1] < ss[2]})
  BY <1>1, <1>2, Zenon
<1>4. ASSUME NEW k \in I, k < m
      PROVE  FALSE
  <2>1. k \in Nat /\ m \in Nat
    OBVIOUS
  <2>2. <<k, m>> \in Nat \X Nat /\ <<k, m>>[1] < <<k, m>>[2]
    BY <1>4, <2>1
  <2>3. <<k, m>> \in {ss \in Nat \X Nat : ss[1] < ss[2]}
    BY <2>2
  <2> QED
    BY <1>3, <2>3
<1>5. \A k \in I : m <= k
  BY <1>4
<1> QED
  BY <1>5 DEF Min

\* The state of a session, for one that knows that there is one.
LEMMA InSession ==
  ASSUME SInv, up
  PROVE  /\ TypeOK /\ NodeInv /\ DeltaInv
         /\ DiskOK(disk) /\ disk \in Disks /\ StoreOK(disk, entries, stored, used)
         /\ entries \in [Paths -> Kinds]
         /\ hidden \subseteq disk.tombs
         /\ \A p \in Paths :
              /\ p \in hidden => names[p] = None
              /\ names[p] # None /\ ~dirty[names[p]] => Durable(disk)[p] = size[names[p]]
         /\ None \notin Nodes /\ None \notin Paths /\ 0 \in Sizes /\ MaxSize \in Sizes
BY SandboxAssumption DEF SInv, StoreInv, CleanInv, DiskOK, TypeOK, Kinds, Sizes

LEMMA CreateFileKeeps ==
  ASSUME SInv, NEW p \in Paths, CreateFile(p)
  PROVE  /\ SInv'
         /\ Min(Free) \in Nodes \ (open \cup Range(names))
         /\ size'[Min(Free)] = 0
         /\ \A q \in Paths : names[q] # None => size'[names[q]] = size[names[q]]
<1> DEFINE m == Min(Free)
           r == [Fresh EXCEPT !.overlay = p, !.dirty = TRUE]
           f == [k \in {m} |-> r]
<1>1. up /\ up' /\ UNCHANGED <<disk, entries, stored, used, dirs, resurfaces, overlooked>>
  BY DEF CreateFile, storeVars, auxVars
<1>2. /\ names[p] = None /\ Free # {} /\ names' = [names EXCEPT ![p] = m]
      /\ open' = open \cup {m} /\ SetNodes(f) /\ hidden' = hidden \ {p}
  BY DEF CreateFile, SetNode
<1>3. /\ TypeOK /\ NodeInv /\ DeltaInv
      /\ DiskOK(disk) /\ StoreOK(disk, entries, stored, used) /\ entries \in [Paths -> Kinds]
      /\ hidden \subseteq disk.tombs /\ \A q \in Paths : q \in hidden => names[q] = None
      /\ None \notin Nodes /\ None \notin Paths /\ 0 \in Sizes
  BY <1>1, InSession
<1>4. /\ names \in [Paths -> Nodes \cup {None}] /\ open \subseteq Nodes /\ disk \in Disks
      /\ hidden \subseteq Paths
  BY <1>3 DEF TypeOK
<1>5. m \in Nodes \ (open \cup Range(names))
  BY <1>2, SmallestNat, SandboxAssumption DEF Free
<1> HIDE DEF m
<1>6. m # None /\ \A q \in Paths : names[q] # m
  BY <1>3, <1>4, <1>5 DEF Range
<1>7. names' \in [Paths -> Nodes \cup {None}] /\ names'[p] = m /\ \A q \in Paths \ {p} : names'[q] = names[q]
  BY <1>2, <1>4, <1>5
<1>8. r.overlay = p /\ r.dirty = TRUE /\ r.size = 0 /\ r \in FileNodes
  BY <1>3 DEF Fresh, FileNodes
<1>9. DOMAIN f = {m} /\ f[m] = r
  OBVIOUS
<1> HIDE DEF r, f
<1>10. \A a, b \in Paths : names'[a] # None /\ names'[a] = names'[b] => a = b
  BY <1>3, <1>6, <1>7 DEF NodeInv
<1>11. \A n \in DOMAIN f :
           /\ f[n] \in FileNodes
           /\ f[n].overlay # None => names'[f[n].overlay] = n
           /\ f[n].dirty => f[n].overlay # None
           /\ n \in open' => \A q \in Paths : names'[q] = n => f[n].overlay = q
  BY <1>3, <1>6, <1>7, <1>8, <1>9
<1>12. \A n \in Nodes \ DOMAIN f :
           /\ n \in open' => n \in open
           /\ \A q \in Paths : names'[q] = n <=> names[q] = n
  BY <1>2, <1>3, <1>7, <1>9
<1>13. \A q \in Paths : names'[q] # None =>
           IF names'[q] \in DOMAIN f
             THEN ~f[names'[q]].dirty => Durable(disk')[q] = f[names'[q]].size
             ELSE Durable(disk')[q] = Durable(disk)[q]
  BY <1>1, <1>8, <1>9
<1>14. /\ hidden' \subseteq disk'.tombs
       /\ \A q \in hidden' : names'[q] = None
       /\ DOMAIN f \subseteq Nodes /\ open' \subseteq Nodes
  BY <1>1, <1>2, <1>3, <1>4, <1>5, <1>7, <1>9
<1>15. /\ dirs' \subseteq Paths /\ resurfaces' \in BOOLEAN /\ overlooked' \in BOOLEAN
       /\ entries' \in [Paths -> Kinds]
       /\ DiskOK(disk') /\ StoreOK(disk', entries', stored', used')
  BY <1>1, <1>3 DEF TypeOK
<1>16. SInv'
  BY <1>1, <1>2, <1>7, <1>10, <1>11, <1>12, <1>13, <1>14, <1>15, SessionMove
<1>17. \A q \in Paths : names'[q] # None => size'[names'[q]] = After(f, names'[q]).size
  BY <1>2, <1>3, <1>7, <1>10, <1>11, <1>12, <1>14, NamesMove
<1>18. size'[m] = 0
  BY <1>6, <1>7, <1>8, <1>9, <1>17 DEF After
<1>19. ASSUME NEW q \in Paths, names[q] # None PROVE size'[names[q]] = size[names[q]]
  <2>1. names'[q] = names[q] /\ names[q] \notin DOMAIN f
    BY <1>2, <1>6, <1>7, <1>9, <1>19
  <2> QED
    BY <1>17, <1>19, <2>1 DEF After, Node
<1> QED
  BY <1>5, <1>16, <1>18, <1>19 DEF m

\* An operation on the node `n` that leaves the names alone.
LEMMA NodeMove ==
  ASSUME SInv, up, up', NEW n \in Nodes, NEW r \in FileNodes, SetNode(n, r),
         UNCHANGED <<names, dirs, resurfaces, overlooked>>, open' \subseteq open \cup {n},
         DiskOK(disk'), StoreOK(disk', entries', stored', used'), entries' \in [Paths -> Kinds],
         r.overlay # None => names[r.overlay] = n,
         r.dirty => r.overlay # None,
         n \in open' => \A p \in Paths : names[p] = n => r.overlay = p,
         hidden' \subseteq disk'.tombs, hidden' \subseteq hidden,
         \A p \in Paths : names[p] # None =>
           IF names[p] = n THEN ~r.dirty => Durable(disk')[p] = r.size
                           ELSE Durable(disk')[p] = Durable(disk)[p]
  PROVE  /\ SInv'
         /\ \A p \in Paths : names[p] # None =>
              size'[names[p]] = IF names[p] = n THEN r.size ELSE size[names[p]]
<1> DEFINE f == [k \in {n} |-> r]
<1>1. DOMAIN f = {n} /\ f[n] = r /\ SetNodes(f)
  BY DEF SetNode
<1> HIDE DEF f
<1>2. /\ TypeOK /\ NodeInv /\ DeltaInv
      /\ \A q \in Paths : q \in hidden => names[q] = None
  BY InSession
<1>3. /\ names' \in [Paths -> Nodes \cup {None}] /\ names' = names /\ open \subseteq Nodes
      /\ hidden \subseteq Paths /\ dirs' \subseteq Paths
      /\ resurfaces' \in BOOLEAN /\ overlooked' \in BOOLEAN
  BY <1>2 DEF TypeOK
<1>4. \A a, b \in Paths : names'[a] # None /\ names'[a] = names'[b] => a = b
  BY <1>2, <1>3 DEF NodeInv
<1>5. \A k \in DOMAIN f :
           /\ f[k] \in FileNodes
           /\ f[k].overlay # None => names'[f[k].overlay] = k
           /\ f[k].dirty => f[k].overlay # None
           /\ k \in open' => \A q \in Paths : names'[q] = k => f[k].overlay = q
  BY <1>1, <1>3
<1>6. \A k \in Nodes \ DOMAIN f :
           /\ k \in open' => k \in open
           /\ \A q \in Paths : names'[q] = k <=> names[q] = k
  BY <1>1, <1>3
<1>7. \A q \in Paths : names'[q] # None =>
           IF names'[q] \in DOMAIN f
             THEN ~f[names'[q]].dirty => Durable(disk')[q] = f[names'[q]].size
             ELSE Durable(disk')[q] = Durable(disk)[q]
  BY <1>1, <1>3
<1>8. /\ \A q \in hidden' : names'[q] = None
      /\ DOMAIN f \subseteq Nodes /\ open' \subseteq Nodes
  BY <1>1, <1>2, <1>3
<1>9. SInv'
  BY <1>1, <1>3, <1>4, <1>5, <1>6, <1>7, <1>8, SessionMove
<1>10. \A q \in Paths : names'[q] # None => size'[names'[q]] = After(f, names'[q]).size
  BY <1>1, <1>2, <1>3, <1>4, <1>5, <1>6, <1>8, NamesMove
<1>11. \A q \in Paths : names[q] # None =>
              size'[names[q]] = IF names[q] = n THEN r.size ELSE size[names[q]]
  BY <1>1, <1>3, <1>10 DEF After, Node
<1> QED
  BY <1>9, <1>11

LEMMA NodeFields ==
  ASSUME TypeOK, NEW n \in Nodes
  PROVE  /\ Node(n) \in FileNodes
         /\ Node(n).overlay = overlay[n] /\ Node(n).dirty = dirty[n]
         /\ Node(n).size = size[n] /\ Node(n).persisted = persisted[n]
BY NodeType DEF Node

\* A session that goes on with the store as it is.
LEMMA StoreSame ==
  ASSUME SInv, up, UNCHANGED <<disk, entries, stored, used>>
  PROVE  /\ DiskOK(disk') /\ StoreOK(disk', entries', stored', used')
         /\ entries' \in [Paths -> Kinds] /\ disk' = disk
BY InSession

LEMMA OpenFileKeeps ==
  ASSUME SInv, NEW p \in Paths, OpenFile(p)
  PROVE  /\ SInv' /\ names[p] # None
         /\ \/ \A q \in Paths : names[q] # None => size'[names[q]] = size[names[q]]
            \/ /\ size'[names[p]] = 0
               /\ \A q \in Paths \ {p} : names[q] # None => size'[names[q]] = size[names[q]]
<1> DEFINE n == names[p]
           r1 == [Node(n) EXCEPT !.overlay = p]
           r2 == [Node(n) EXCEPT !.overlay = p, !.size = 0, !.dirty = TRUE]
<1>1. /\ up /\ up' /\ UNCHANGED <<disk, entries, stored, used, names, dirs, hidden, resurfaces, overlooked>>
      /\ n # None /\ open' = open \cup {n}
      /\ SetNode(n, r1) \/ SetNode(n, r2)
  BY DEF OpenFile, storeVars, auxVars
<1>2. /\ TypeOK /\ NodeInv
      /\ hidden \subseteq disk.tombs /\ 0 \in Sizes
      /\ names[p] # None /\ ~dirty[names[p]] => Durable(disk)[p] = size[names[p]]
  BY <1>1, InSession
<1>3. n \in Nodes
  BY <1>1, <1>2 DEF TypeOK
<1>4. /\ Node(n) \in FileNodes /\ Node(n).dirty = dirty[n] /\ Node(n).size = size[n]
  BY <1>2, <1>3, NodeFields
<1>5. /\ r1 \in FileNodes /\ r1.overlay = p /\ r1.dirty = dirty[n] /\ r1.size = size[n]
      /\ r2 \in FileNodes /\ r2.overlay = p /\ r2.dirty = TRUE /\ r2.size = 0
  BY <1>2, <1>4 DEF FileNodes
<1> HIDE DEF r1, r2
<1>6. /\ DiskOK(disk') /\ StoreOK(disk', entries', stored', used')
      /\ entries' \in [Paths -> Kinds] /\ disk' = disk
  BY <1>1, StoreSame
<1>7. \A q \in Paths : names[q] = n => q = p
  BY <1>1, <1>2 DEF NodeInv
<1>8. ASSUME NEW r \in FileNodes, SetNode(n, r), r.overlay = p,
             ~r.dirty => ~dirty[n] /\ r.size = size[n]
      PROVE  /\ SInv'
             /\ \A q \in Paths : names[q] # None =>
                  size'[names[q]] = IF names[q] = n THEN r.size ELSE size[names[q]]
  <2>1. \A q \in Paths : names[q] # None =>
           IF names[q] = n THEN ~r.dirty => Durable(disk')[q] = r.size
                           ELSE Durable(disk')[q] = Durable(disk)[q]
    BY <1>1, <1>2, <1>6, <1>7, <1>8
  <2>2. hidden' \subseteq disk'.tombs /\ hidden' \subseteq hidden /\ open' \subseteq open \cup {n}
    BY <1>1, <1>2
  <2>3. p # None
    BY SandboxAssumption
  <2> QED
    BY <1>1, <1>3, <1>6, <1>7, <1>8, <2>1, <2>2, <2>3, NodeMove
<1>9. CASE SetNode(n, r1)
  <2>1. /\ SInv'
        /\ \A q \in Paths : names[q] # None =>
             size'[names[q]] = IF names[q] = n THEN size[n] ELSE size[names[q]]
    BY <1>5, <1>8, <1>9
  <2> QED
    BY <1>1, <2>1
<1>10. CASE SetNode(n, r2)
  <2>1. /\ SInv'
        /\ \A q \in Paths : names[q] # None =>
             size'[names[q]] = IF names[q] = n THEN 0 ELSE size[names[q]]
    BY <1>5, <1>8, <1>10
  <2> QED
    BY <1>1, <1>7, <2>1
<1> QED
  BY <1>1, <1>9, <1>10

LEMMA WriteFileKeeps ==
  ASSUME SInv, NEW n \in Nodes, NEW s \in Sizes, WriteFile(n, s)
  PROVE  /\ SInv'
         /\ \A p \in Paths : names[p] # None =>
              size'[names[p]] = IF names[p] = n THEN s ELSE size[names[p]]
<1> DEFINE b == dirty[n] \/ overlay[n] # None
           r == [Node(n) EXCEPT !.size = s, !.dirty = b]
<1>1. /\ up /\ up' /\ UNCHANGED <<disk, entries, stored, used, names, dirs, hidden, open, resurfaces, overlooked>>
      /\ n \in open /\ SetNode(n, r)
  BY DEF WriteFile, storeVars, auxVars
<1>2. /\ TypeOK /\ NodeInv
      /\ hidden \subseteq disk.tombs
  BY <1>1, InSession
<1>3. Node(n) \in FileNodes /\ Node(n).dirty = dirty[n] /\ Node(n).overlay = overlay[n]
  BY <1>2, NodeFields
<1>4. b \in BOOLEAN /\ (b <=> overlay[n] # None) /\ overlay[n] \in Paths \cup {None}
  <2>1. dirty[n] \in BOOLEAN /\ (dirty[n] => overlay[n] # None)
    BY <1>2 DEF TypeOK, NodeInv
  <2> QED
    BY <1>2, <2>1, Zenon DEF TypeOK
<1> HIDE DEF b
<1>5. r \in FileNodes /\ r.overlay = overlay[n] /\ r.size = s /\ (r.dirty <=> overlay[n] # None)
  BY <1>3, <1>4 DEF FileNodes
<1> HIDE DEF r
<1>6. /\ DiskOK(disk') /\ StoreOK(disk', entries', stored', used')
      /\ entries' \in [Paths -> Kinds] /\ disk' = disk
  BY <1>1, StoreSame
<1>7. \A q \in Paths : names[q] = n => overlay[n] = q
  BY <1>1, <1>2 DEF NodeInv
<1>8. overlay[n] # None => names[overlay[n]] = n
  BY <1>2 DEF NodeInv
<1>9. None \notin Paths
  BY SandboxAssumption
<1>10. \A q \in Paths : names[q] # None =>
           IF names[q] = n THEN ~r.dirty => Durable(disk')[q] = r.size
                           ELSE Durable(disk')[q] = Durable(disk)[q]
  BY <1>5, <1>6, <1>7, <1>9
<1>11. hidden' \subseteq disk'.tombs /\ hidden' \subseteq hidden /\ open' \subseteq open \cup {n}
  BY <1>1, <1>2
<1> QED
  BY <1>1, <1>5, <1>6, <1>7, <1>8, <1>10, <1>11, NodeMove

\* Saving keeps the sizes; it puts the size where a session will find it.
LEMMA SaveKeeps ==
  ASSUME SInv, up, up', NEW n \in Nodes, open' \subseteq open, Save(n)
  PROVE  /\ SInv'
         /\ overlay[n] \in Paths /\ names[overlay[n]] = n
         /\ \A p \in Paths : names[p] # None => size'[names[p]] = size[names[p]]
         /\ disk' \in ToSet(WriteTrail(disk, overlay[n], size[n]))
         /\ Durable(disk')[overlay[n]] = size[n]
         /\ \A q \in Paths \ {overlay[n]} : Durable(disk')[q] = Durable(disk)[q]
<1> DEFINE p == overlay[n]
           r == Saved(n)
           e == Last(WriteTrail(disk, p, size[n]))
<1>1. /\ TypeOK /\ NodeInv /\ disk \in Disks
      /\ entries \in [Paths -> Kinds]
      /\ hidden \subseteq disk.tombs
      /\ None \notin Nodes /\ None \notin Paths /\ 0 \in Sizes
  BY InSession
<1>2. p \in Paths /\ names[p] = n /\ size[n] \in Sizes /\ hidden \subseteq Paths
  BY <1>1 DEF Save, Unsaved, TypeOK, NodeInv
<1>3. /\ CanWrite(p, size[n]) /\ disk' = e /\ hidden' = hidden \ {p}
      /\ entries' = [entries EXCEPT ![p] = "file"] /\ stored' = [stored EXCEPT ![p] = size[n]]
      /\ used' = used - stored[p] + size[n]
      /\ UNCHANGED <<names, dirs, resurfaces, overlooked>>
      /\ SetNode(n, r)
  BY DEF Save, CanSave, Index, auxVars
<1>4. /\ e \in ToSet(WriteTrail(disk, p, size[n])) /\ Written(disk, e, p, size[n]) /\ p \notin e.tombs
      /\ StoreOK(e, [entries EXCEPT ![p] = "file"], [stored EXCEPT ![p] = size[n]],
                 used - stored[p] + size[n])
      /\ \A a \in Above(p) : disk.host[a] # "file"
      /\ e \in Disks /\ Beside(disk, e, p) /\ DiskOK(e)
  BY <1>2, <1>3, WriteKeeps
<1> HIDE DEF e
<1>5. /\ DiskOK(disk') /\ StoreOK(disk', entries', stored', used') /\ entries' \in [Paths -> Kinds]
  BY <1>1, <1>2, <1>3, <1>4 DEF Kinds
<1>6. Node(n) \in FileNodes /\ Node(n).overlay = p
  BY <1>1, NodeFields
<1>7. r \in FileNodes /\ r.overlay = p /\ r.dirty = FALSE /\ r.size = size[n]
  BY <1>2, <1>6, NodeFields, <1>1 DEF Saved, FileNodes
<1> HIDE DEF r
<1>8. \A q \in Paths : names[q] = n => q = p
  BY <1>1, <1>2 DEF NodeInv
<1>9. /\ Durable(disk')[p] = size[n]
      /\ \A q \in Paths \ {p} : Durable(disk')[q] = Durable(disk)[q]
  BY <1>1, <1>2, <1>3, <1>4, DurableAt, DurableBeside
<1>10. \A q \in Paths : names[q] # None =>
           IF names[q] = n THEN ~r.dirty => Durable(disk')[q] = r.size
                           ELSE Durable(disk')[q] = Durable(disk)[q]
  BY <1>2, <1>7, <1>8, <1>9
<1>11. hidden' \subseteq disk'.tombs /\ hidden' \subseteq hidden
  BY <1>1, <1>2, <1>3, <1>4 DEF Beside
<1>12. n \in open' => \A q \in Paths : names[q] = n => r.overlay = q
  BY <1>7, <1>8
<1>13. /\ r.overlay # None => names[r.overlay] = n
       /\ r.dirty => r.overlay # None
       /\ open' \subseteq open \cup {n}
       /\ UNCHANGED <<names, dirs, resurfaces, overlooked>>
  BY <1>2, <1>3, <1>7
<1> HIDE DEF p
<1>14. /\ SInv'
       /\ \A q \in Paths : names[q] # None =>
              size'[names[q]] = IF names[q] = n THEN r.size ELSE size[names[q]]
  BY <1>3, <1>5, <1>7, <1>10, <1>11, <1>12, <1>13, NodeMove
<1> QED
  BY <1>2, <1>3, <1>4, <1>7, <1>9, <1>14 DEF p

LEMMA CloseKeeps ==
  ASSUME SInv, NEW n \in Nodes, Close(n), ~Save(n)
  PROVE  /\ SInv' /\ UNCHANGED <<disk, up, names, dirs, resurfaces, overlooked>>
         /\ \A p \in Paths : names[p] # None => size'[names[p]] = size[names[p]]
<1> DEFINE r == Node(n)
<1>1. /\ up /\ up' /\ UNCHANGED <<disk, up, entries, stored, used, names, dirs, hidden, resurfaces, overlooked>>
      /\ n \in open /\ open' = open \ {n} /\ SetNode(n, r)
  BY DEF Close, storeVars, auxVars
<1>2. /\ TypeOK /\ NodeInv
      /\ hidden \subseteq disk.tombs
      /\ \A p \in Paths : names[p] # None /\ ~dirty[names[p]] => Durable(disk)[p] = size[names[p]]
  BY <1>1, InSession
<1>3. r \in FileNodes /\ r.dirty = dirty[n] /\ r.overlay = overlay[n] /\ r.size = size[n]
  BY <1>2, NodeFields
<1> HIDE DEF r
<1>4. /\ DiskOK(disk') /\ StoreOK(disk', entries', stored', used')
      /\ entries' \in [Paths -> Kinds] /\ disk' = disk
  BY <1>1, StoreSame
<1>5. /\ r.overlay # None => names[r.overlay] = n
      /\ r.dirty => r.overlay # None
      /\ n \notin open'
  BY <1>1, <1>2, <1>3 DEF NodeInv
<1>6. \A q \in Paths : names[q] # None =>
           IF names[q] = n THEN ~r.dirty => Durable(disk')[q] = r.size
                           ELSE Durable(disk')[q] = Durable(disk)[q]
  BY <1>2, <1>3, <1>4
<1>7. hidden' \subseteq disk'.tombs /\ hidden' \subseteq hidden /\ open' \subseteq open \cup {n}
  BY <1>1, <1>2
<1> QED
  BY <1>1, <1>3, <1>4, <1>5, <1>6, <1>7, NodeMove

\* An operation on directories leaves names and nodes alone.
LEMMA DirectoryMove ==
  ASSUME SInv, up, up', UNCHANGED <<names, nodeVars, open, delta>>,
         DiskOK(disk'), StoreOK(disk', entries', stored', used'),
         entries' \in [Paths -> Kinds], dirs' \subseteq Paths,
         resurfaces' \in BOOLEAN, overlooked' \in BOOLEAN,
         hidden' \subseteq disk'.tombs,
         \A q \in hidden' : names[q] = None,
         \A q \in Paths : names[q] # None => Durable(disk')[q] = Durable(disk)[q]
  PROVE  SInv'
<1>1. TypeOK /\ NodeInv /\ DeltaInv /\ CleanInv
  BY DEF SInv
<1>2. /\ names' = names /\ overlay' = overlay /\ dirty' = dirty /\ size' = size
      /\ persisted' = persisted /\ open' = open /\ delta' = delta
  BY DEF nodeVars
<1>3. stored' \in [Paths -> Sizes] /\ used' \in 0 .. Quota
  BY StoreTypes
<1>4. disk' \in Disks /\ disk'.tombs \subseteq Paths
  BY DiskTypes DEF DiskOK
<1>5. TypeOK'
  BY <1>1, <1>2, <1>3, <1>4 DEF TypeOK, Kinds
<1>6. NodeInv'
  BY <1>1, <1>2 DEF NodeInv
<1>7. DeltaInv'
  BY <1>1, <1>2 DEF DeltaInv, Contributions, Contribution, Node
<1>8. CleanInv'
  BY <1>1, <1>2, <1>4 DEF CleanInv
<1>9. StoreInv' /\ DownInv' /\ DiskOK(disk)'
  BY DEF StoreInv, DownInv
<1> QED
  BY <1>5, <1>6, <1>7, <1>8, <1>9 DEF SInv

LEMMA MakeDirectoryKeeps ==
  ASSUME SInv, NEW p \in Paths, MakeDirectory(p)
  PROVE  /\ SInv' /\ up /\ up' /\ CanMakeDirectory(p)
         /\ disk' = disk \/ disk' \in ToSet(DirectoryTrail(disk, p))
         /\ disk'.host[p] = "dir" /\ p \notin disk'.tombs
         /\ UNCHANGED <<names, size, resurfaces, overlooked>> /\ dirs' = dirs \cup {p}
<1>1. /\ up /\ up' /\ CanMakeDirectory(p) /\ dirs' = dirs \cup {p} /\ hidden' = hidden \ {p}
      /\ UNCHANGED <<names, nodeVars, open, delta, size, resurfaces, overlooked>>
  BY DEF MakeDirectory, auxVars, nodeVars
<1>2. /\ TypeOK /\ DiskOK(disk) /\ disk \in Disks /\ StoreOK(disk, entries, stored, used)
      /\ entries \in [Paths -> Kinds]
      /\ hidden \subseteq disk.tombs
      /\ \A q \in Paths : q \in hidden => names[q] = None
      /\ hidden \subseteq Paths
  BY <1>1, InSession DEF TypeOK
<1>3. dirs' \subseteq Paths /\ resurfaces' \in BOOLEAN /\ overlooked' \in BOOLEAN /\ names[p] = None
  BY <1>1, <1>2 DEF TypeOK, CanMakeDirectory
<1>4. CASE entries[p] = "dir"
  <2>1. UNCHANGED <<disk, entries, stored, used>>
    BY <1>4 DEF MakeDirectory, storeVars
  <2>2. disk.host[p] = "dir" /\ p \notin disk.tombs
    BY <1>2, <1>4, EntriesSay
  <2>3. SInv'
    BY <1>1, <1>2, <1>3, <2>1, DirectoryMove
  <2> QED
    BY <1>1, <2>1, <2>2, <2>3
<1>5. CASE entries[p] # "dir"
  <2> DEFINE e == Last(DirectoryTrail(disk, p))
  <2>1. /\ disk' = e
        /\ entries' = [entries EXCEPT ![p] = "dir"] /\ stored' = [stored EXCEPT ![p] = 0]
        /\ used' = used - stored[p] + 0
    BY <1>5 DEF MakeDirectory, Index
  <2>2. /\ e \in ToSet(DirectoryTrail(disk, p)) /\ p \notin e.tombs
        /\ StoreOK(e, [entries EXCEPT ![p] = "dir"], [stored EXCEPT ![p] = 0],
                   used - stored[p] + 0)
        /\ \A a \in Above(p) : disk.host[a] # "file"
        /\ e \in Disks /\ Beside(disk, e, p) /\ DiskOK(e) /\ Made(disk, e, p)
    BY <1>1, MakeKeeps
  <2> HIDE DEF e
  <2>3. DiskOK(disk') /\ StoreOK(disk', entries', stored', used') /\ entries' \in [Paths -> Kinds]
    BY <1>2, <2>1, <2>2 DEF Kinds
  <2>4. \A q \in Paths : names[q] # None => Durable(disk')[q] = Durable(disk)[q]
    BY <1>2, <1>3, <2>1, <2>2, DurableBeside
  <2>5. hidden' \subseteq disk'.tombs /\ \A q \in hidden' : names[q] = None
    BY <1>1, <1>2, <2>1, <2>2 DEF Beside
  <2>6. SInv'
    BY <1>1, <1>3, <2>3, <2>4, <2>5, DirectoryMove
  <2> QED
    BY <1>1, <2>1, <2>2, <2>6 DEF Made
<1> QED
  BY <1>4, <1>5

\* What Erase does to the host, the index and what a session would find.
LEMMA EraseDoes ==
  ASSUME SInv, up, NEW p \in Paths, Erase(p)
  PROVE  /\ disk' \in ToSet(TombstoneTrail(disk, p))
         /\ DiskOK(disk') /\ StoreOK(disk', entries', stored', used')
         /\ entries' \in [Paths -> Kinds]
         /\ Beside(disk, disk', p) /\ Durable(disk')[p] = None
         /\ \A q \in Paths \ {p} : Durable(disk')[q] = Durable(disk)[q]
         /\ hidden \cup {p} \subseteq disk'.tombs
<1> DEFINE e == Last(TombstoneTrail(disk, p))
<1>1. /\ disk' = e
      /\ entries' = [entries EXCEPT ![p] = "tombstone"] /\ stored' = [stored EXCEPT ![p] = 0]
      /\ used' = used - stored[p] + 0
      /\ CanErase(p)
  BY DEF Erase, Index
<1>2. /\ DiskOK(disk) /\ disk \in Disks /\ StoreOK(disk, entries, stored, used)
      /\ entries \in [Paths -> Kinds]
      /\ hidden \subseteq disk.tombs /\ hidden \subseteq Paths
  BY InSession DEF TypeOK
<1>3. entries[p] = "tombstone" \/ \A a \in Above(p) : disk.host[a] # "file"
  BY <1>1 DEF CanErase, CanPlace
<1>4. /\ \A a \in Above(p) : disk.host[a] # "file"
      /\ e \in ToSet(TombstoneTrail(disk, p))
      /\ e \in Disks /\ Beside(disk, e, p) /\ DiskOK(e)
      /\ p \in e.tombs /\ e.host[p] # "file"
      /\ StoreOK(e, [entries EXCEPT ![p] = "tombstone"], [stored EXCEPT ![p] = 0], used - stored[p] + 0)
  <2>1. /\ \A a \in Above(p) : disk.host[a] # "file"
        /\ \A x \in ToSet(TombstoneTrail(disk, p)) :
             x \in Disks /\ Beside(disk, x, p) /\ DiskOK(x)
    BY <1>2, <1>3, EraseTrailKeeps
  <2>2. e = Last(TombstoneTrail(disk, p))
    OBVIOUS
  <2> HIDE DEF e
  <2>3. /\ e \in ToSet(TombstoneTrail(disk, p)) /\ p \in e.tombs /\ e.host[p] # "file"
        /\ StoreOK(e, [entries EXCEPT ![p] = "tombstone"], [stored EXCEPT ![p] = 0],
                   used - stored[p] + 0)
    BY <1>2, <1>3, <2>2, EraseKeeps
  <2> QED
    BY <2>1, <2>3
<1> HIDE DEF e
<1>5. Durable(e)[p] = None
  BY <1>4 DEF Durable
<1>6. \A q \in Paths \ {p} : Durable(e)[q] = Durable(disk)[q]
  BY <1>2, <1>4, DurableBeside
<1>7. hidden \cup {p} \subseteq e.tombs
  BY <1>2, <1>4 DEF Beside
<1>8. entries' \in [Paths -> Kinds]
  BY <1>1, <1>2 DEF Kinds
<1> QED
  BY <1>1, <1>4, <1>5, <1>6, <1>7, <1>8

LEMMA RemoveDirectoryKeeps ==
  ASSUME SInv, NEW p \in Paths, RemoveDirectory(p)
  PROVE  SInv'
<1>1. /\ up /\ up' /\ IsEmptyDirectory(p) /\ Erase(p) /\ dirs' = dirs \ {p}
      /\ UNCHANGED <<names, nodeVars, open, delta, resurfaces>> /\ Overlook
      /\ hidden' = hidden \cup {p}
  BY DEF RemoveDirectory, Erase
<1>2. /\ TypeOK
      /\ \A q \in Paths : q \in hidden => names[q] = None
      /\ hidden \subseteq Paths
  BY <1>1, InSession DEF TypeOK
<1>3. /\ dirs' \subseteq Paths /\ resurfaces' \in BOOLEAN /\ overlooked' \in BOOLEAN
      /\ names[p] = None
  BY <1>1, <1>2 DEF TypeOK, Overlook, IsEmptyDirectory
<1>4. /\ DiskOK(disk') /\ StoreOK(disk', entries', stored', used')
      /\ entries' \in [Paths -> Kinds]
      /\ \A q \in Paths \ {p} : Durable(disk')[q] = Durable(disk)[q]
      /\ hidden' \subseteq disk'.tombs
  BY <1>1, EraseDoes
<1>5. /\ \A q \in hidden' : names[q] = None
      /\ \A q \in Paths : names[q] # None => Durable(disk')[q] = Durable(disk)[q]
  BY <1>1, <1>2, <1>3, <1>4
<1> QED
  BY <1>1, <1>3, <1>4, <1>5, DirectoryMove

LEMMA OrphanType ==
  ASSUME TypeOK, NEW n \in Nodes
  PROVE  /\ Orphan(n) \in FileNodes /\ Orphan(n).overlay = None /\ Orphan(n).dirty = FALSE
<1>1. Node(n) \in FileNodes
  BY NodeFields
<1> QED
  BY <1>1 DEF Orphan, FileNodes

LEMMA RemoveFileKeeps ==
  ASSUME SInv, NEW p \in Paths, RemoveFile(p)
  PROVE  /\ SInv'
         /\ \A q \in Paths \ {p} : names[q] # None => size'[names[q]] = size[names[q]]
<1> DEFINE n == names[p]
           f == [k \in {n} |-> Orphan(n)]
<1>1. /\ up /\ up' /\ n # None /\ Erase(p) /\ names' = [names EXCEPT ![p] = None]
      /\ dirs' = dirs /\ open' = open /\ resurfaces' = resurfaces /\ Overlook
      /\ hidden' = hidden \cup {p} /\ SetNodes(f)
  BY DEF RemoveFile, Erase, SetNode
<1>2. /\ TypeOK /\ NodeInv /\ DeltaInv
      /\ \A q \in Paths : q \in hidden => names[q] = None
      /\ None \notin Nodes /\ None \notin Paths
  BY <1>1, InSession
<1>3. /\ names \in [Paths -> Nodes \cup {None}] /\ open \subseteq Nodes /\ n \in Nodes
      /\ hidden \subseteq Paths
  BY <1>1, <1>2 DEF TypeOK
<1>4. /\ dirs' \subseteq Paths /\ resurfaces' \in BOOLEAN /\ overlooked' \in BOOLEAN
  BY <1>1, <1>2 DEF TypeOK, Overlook
<1>5. /\ DiskOK(disk') /\ StoreOK(disk', entries', stored', used')
      /\ entries' \in [Paths -> Kinds]
      /\ \A q \in Paths \ {p} : Durable(disk')[q] = Durable(disk)[q]
      /\ hidden' \subseteq disk'.tombs
  BY <1>1, EraseDoes
<1>6. /\ names' \in [Paths -> Nodes \cup {None}] /\ names'[p] = None
      /\ \A q \in Paths \ {p} : names'[q] = names[q] /\ names[q] # n
  BY <1>1, <1>2, <1>3 DEF NodeInv
<1>7. DOMAIN f = {n} /\ f[n] = Orphan(n)
  OBVIOUS
<1>8. Orphan(n) \in FileNodes /\ Orphan(n).overlay = None /\ Orphan(n).dirty = FALSE
  BY <1>2, <1>3, OrphanType
<1> HIDE DEF f, n
<1>9. \A a, b \in Paths : names'[a] # None /\ names'[a] = names'[b] => a = b
  BY <1>2, <1>6 DEF NodeInv
<1>10. \A q \in Paths : names'[q] # n
  BY <1>1, <1>6
<1>11. \A k \in DOMAIN f :
           /\ f[k] \in FileNodes
           /\ f[k].overlay # None => names'[f[k].overlay] = k
           /\ f[k].dirty => f[k].overlay # None
           /\ k \in open' => \A q \in Paths : names'[q] = k => f[k].overlay = q
  BY <1>7, <1>8, <1>10
<1>12. \A k \in Nodes \ DOMAIN f :
           /\ k \in open' => k \in open
           /\ \A q \in Paths : names'[q] = k <=> names[q] = k
  BY <1>1, <1>2, <1>6, <1>7 DEF n
<1>13. \A q \in Paths : names'[q] # None =>
           IF names'[q] \in DOMAIN f
             THEN ~f[names'[q]].dirty => Durable(disk')[q] = f[names'[q]].size
             ELSE Durable(disk')[q] = Durable(disk)[q]
  BY <1>5, <1>6, <1>7, <1>10
<1>14. /\ \A q \in hidden' : names'[q] = None
       /\ DOMAIN f \subseteq Nodes /\ open' \subseteq Nodes
  BY <1>1, <1>2, <1>3, <1>6, <1>7
<1>15. SInv'
  BY <1>1, <1>4, <1>5, <1>6, <1>9, <1>11, <1>12, <1>13, <1>14, SessionMove
<1>16. \A q \in Paths : names'[q] # None => size'[names'[q]] = After(f, names'[q]).size
  BY <1>1, <1>2, <1>6, <1>9, <1>11, <1>12, <1>14, NamesMove
<1>17. ASSUME NEW q \in Paths \ {p}, names[q] # None PROVE size'[names[q]] = size[names[q]]
  BY <1>6, <1>7, <1>16, <1>17 DEF After, Node
<1> QED
  BY <1>15, <1>17

LEMMA TwoExcept ==
  ASSUME NEW S, NEW T, NEW f \in [S -> T], NEW a \in S, NEW b \in S, a # b, NEW x, NEW y
  PROVE  /\ [f EXCEPT ![a] = x, ![b] = y] = [[f EXCEPT ![a] = x] EXCEPT ![b] = y]
         /\ [f EXCEPT ![a] = x, ![b] = f[b]] = [f EXCEPT ![a] = x]
OBVIOUS

\* The node of `p` is `moved` and has the name `q`; what had it is an orphan.
LEMMA MoveKeeps ==
  ASSUME SInv, up, up', NEW p \in Paths, NEW q \in Paths, CanRename(p, q),
         NEW moved \in FileNodes, Move(p, q, moved), moved.overlay = q,
         DiskOK(disk'), StoreOK(disk', entries', stored', used'), entries' \in [Paths -> Kinds],
         resurfaces' \in BOOLEAN, overlooked' \in BOOLEAN,
         hidden' \subseteq disk'.tombs, hidden' \subseteq (hidden \ {q}) \cup {p},
         ~moved.dirty => Durable(disk')[q] = moved.size,
         \A x \in Paths \ {p, q} : Durable(disk')[x] = Durable(disk)[x]
  PROVE  /\ SInv'
         /\ size'[names[p]] = moved.size
         /\ \A x \in Paths \ {p, q} : names[x] # None => size'[names[x]] = size[names[x]]
<1> DEFINE n == names[p]
           o == names[q]
           f == [m \in {n} \cup ({o} \ {None}) |-> IF m = n THEN moved ELSE Orphan(m)]
<1>1. /\ names' = [names EXCEPT ![p] = None, ![q] = n]
      /\ dirs' = dirs /\ open' = open /\ SetNodes(f)
  BY DEF Move
<1>2. n # None /\ p # q
  BY DEF CanRename
<1>3. /\ TypeOK /\ NodeInv /\ DeltaInv
      /\ \A x \in Paths : x \in hidden => names[x] = None
      /\ None \notin Nodes /\ None \notin Paths
  BY InSession
<1>4. /\ names \in [Paths -> Nodes \cup {None}] /\ open \subseteq Nodes /\ n \in Nodes
      /\ o \in Nodes \cup {None} /\ hidden \subseteq Paths /\ dirs' \subseteq Paths
  BY <1>1, <1>2, <1>3 DEF TypeOK
<1>5. \A x, y \in Paths : names[x] # None /\ names[x] = names[y] => x = y
  BY <1>3 DEF NodeInv
<1>6. /\ names' \in [Paths -> Nodes \cup {None}] /\ names'[p] = None /\ names'[q] = n
      /\ \A x \in Paths \ {p, q} : names'[x] = names[x] /\ names[x] # n /\ (names[x] # None => names[x] # o)
      /\ o # n
  BY <1>1, <1>2, <1>4, <1>5
<1>7. DOMAIN f = {n} \cup ({o} \ {None}) /\ f[n] = moved /\ (o # None => f[o] = Orphan(o))
  BY <1>6
<1>8. o # None => Orphan(o) \in FileNodes /\ Orphan(o).overlay = None /\ Orphan(o).dirty = FALSE
  BY <1>3, <1>4, OrphanType
<1> HIDE DEF f, n, o
<1>9. \A a, b \in Paths : names'[a] # None /\ names'[a] = names'[b] => a = b
  BY <1>5, <1>6
<1>10. \A x \in Paths : o # None => names'[x] # o
  BY <1>2, <1>6
<1>11. \A x \in Paths : names'[x] = n => x = q
  BY <1>2, <1>6
<1>12. \A k \in DOMAIN f :
           /\ f[k] \in FileNodes
           /\ f[k].overlay # None => names'[f[k].overlay] = k
           /\ f[k].dirty => f[k].overlay # None
           /\ k \in open' => \A x \in Paths : names'[x] = k => f[k].overlay = x
  <2> TAKE k \in DOMAIN f
  <2>1. CASE k = n
    BY <1>3, <1>6, <1>7, <1>11, <2>1
  <2>2. CASE k # n
    <3>1. k = o /\ o # None
      BY <1>7, <2>2
    <3> QED
      BY <1>7, <1>8, <1>10, <3>1
  <2> QED
    BY <2>1, <2>2
<1>13. \A k \in Nodes \ DOMAIN f :
           /\ k \in open' => k \in open
           /\ \A x \in Paths : names'[x] = k <=> names[x] = k
  <2> TAKE k \in Nodes \ DOMAIN f
  <2>1. k # n /\ k # None /\ k # o
    BY <1>3, <1>7
  <2>2. names[p] = n /\ names[q] = o
    BY DEF n, o
  <2> QED
    BY <1>1, <1>6, <2>1, <2>2
<1>14. \A x \in Paths : names'[x] # None =>
           IF names'[x] \in DOMAIN f
             THEN ~f[names'[x]].dirty => Durable(disk')[x] = f[names'[x]].size
             ELSE Durable(disk')[x] = Durable(disk)[x]
  <2> TAKE x \in Paths
  <2>1. CASE x = q
    BY <1>6, <1>7, <2>1
  <2>2. CASE x = p
    BY <1>6, <2>2
  <2>3. CASE x \in Paths \ {p, q}
    BY <1>6, <1>7, <2>3
  <2> QED
    BY <2>1, <2>2, <2>3
<1>15. /\ \A x \in hidden' : names'[x] = None
       /\ DOMAIN f \subseteq Nodes /\ open' \subseteq Nodes
  BY <1>1, <1>3, <1>4, <1>6, <1>7
<1>16. SInv'
  BY <1>1, <1>4, <1>6, <1>9, <1>12, <1>13, <1>14, <1>15, SessionMove
<1>17. \A x \in Paths : names'[x] # None => size'[names'[x]] = After(f, names'[x]).size
  <2>1. /\ SetNodes(f) /\ TypeOK /\ NodeInv /\ DeltaInv /\ DOMAIN f \subseteq Nodes
        /\ names' \in [Paths -> Nodes \cup {None}] /\ open' \subseteq Nodes
    BY <1>1, <1>3, <1>6, <1>15
  <2> QED
    BY <1>9, <1>12, <1>13, <2>1, NamesMove
<1>18. size'[n] = moved.size
  BY <1>2, <1>6, <1>7, <1>17 DEF After, n
<1>19. ASSUME NEW x \in Paths \ {p, q}, names[x] # None PROVE size'[names[x]] = size[names[x]]
  <2>1. names'[x] = names[x] /\ names[x] \notin DOMAIN f
    BY <1>6, <1>7, <1>19
  <2> QED
    BY <1>17, <1>19, <2>1 DEF After, Node
<1> QED
  BY <1>16, <1>18, <1>19 DEF n

\* The target of a rename is no directory, so it is not above the source.
LEMMA RenameApart ==
  ASSUME SInv, up, NEW p \in Paths, NEW q \in Paths, CanRename(p, q)
  PROVE  q \notin Above(p) /\ Above(p) \subseteq Directories /\ Above(q) \subseteq Directories
<1>1. TypeOK
  BY InSession
<1>2. Above(p) \subseteq Directories
  BY <1>1, AboveNamed DEF CanRename
<1>3. Above(q) \subseteq Directories
  BY <1>1, InDirectory DEF CanRename
<1> QED
  BY <1>2, <1>3 DEF CanRename, IsDirectory

\* The removal of the source of a rename, on the host `w` with the saved target.
LEMMA LeaveFinds ==
  ASSUME NEW p \in Paths, NEW q \in Paths, q \notin Above(p), p # q, CanLeave(p, q),
         NEW w, Beside(disk, w, q), NEW en, \A c \in Paths \ {q} : en[c] = entries[c]
  PROVE  /\ \A c \in Below(p) \cup {p} : en[c] = entries[c]
         /\ entries[p] = "tombstone" \/ \A a \in Above(p) : w.host[a] # "file"
<1>1. q \notin Below(p) /\ CanErase(p)
  BY DEF CanLeave
<1>2. \A c \in Below(p) \cup {p} : en[c] = entries[c]
  BY <1>1, AboveBelow
<1>3. entries[p] = "tombstone" \/ \A a \in Above(p) : w.host[a] # "file"
  <2> SUFFICES ASSUME CanPlace(p), NEW a \in Above(p) PROVE w.host[a] # "file"
    BY <1>1 DEF CanErase
  <2>1. a \in Paths \ {q} /\ disk.host[a] # "file"
    BY AboveHolds DEF CanPlace
  <2> QED
    BY <2>1 DEF Beside
<1> QED
  BY <1>2, <1>3

LEMMA RenameKeeps ==
  ASSUME SInv, NEW p \in Paths, NEW q \in Paths, Rename(p, q)
  PROVE  /\ SInv' /\ up /\ up' /\ CanRename(p, q) /\ CanWrite(q, size[names[p]])
         /\ size'[names[p]] = size[names[p]]
         /\ \A x \in Paths \ {p, q} : names[x] # None => size'[names[x]] = size[names[x]]
         /\ Durable(disk')[q] = size[names[p]]
         /\ Durable(disk')[p] = IF CanLeave(p, q) THEN None ELSE Durable(disk)[p]
         /\ \A x \in Paths \ {p, q} : Durable(disk')[x] = Durable(disk)[x]
<1> DEFINE n == names[p]
           s == size[n]
           w == Last(WriteTrail(disk, q, s))
           left == CanLeave(p, q)
           moved == [Saved(n) EXCEPT !.overlay = q]
           en == [entries EXCEPT ![q] = "file"]
           st == [stored EXCEPT ![q] = s]
           u == used - stored[q] + s
<1>1. /\ up /\ up' /\ CanRename(p, q) /\ CanWrite(q, s) /\ Move(p, q, moved)
      /\ disk' = IF left THEN Last(TombstoneTrail(w, p)) ELSE w
      /\ entries' = [entries EXCEPT ![q] = "file", ![p] = IF left THEN "tombstone" ELSE @]
      /\ stored' = [stored EXCEPT ![q] = s, ![p] = IF left THEN 0 ELSE @]
      /\ used' = used - stored[q] + s - (IF left THEN stored[p] ELSE 0)
      /\ hidden' = (hidden \ {q}) \cup (IF left THEN {p} ELSE {})
      /\ resurfaces' \in BOOLEAN /\ overlooked' \in BOOLEAN
  BY DEF Rename, Move, Overlook
<1>2. /\ TypeOK /\ NodeInv
      /\ disk \in Disks /\ StoreOK(disk, entries, stored, used)
      /\ entries \in [Paths -> Kinds] /\ stored \in [Paths -> Sizes]
      /\ hidden \subseteq disk.tombs
  BY <1>1, InSession DEF TypeOK
<1>3. p # q /\ n \in Nodes /\ s \in Sizes /\ hidden \subseteq Paths /\ used \in Int
  BY <1>1, <1>2, SandboxAssumption DEF TypeOK, CanRename
<1>4. Node(n) \in FileNodes /\ Node(n).size = s
  BY <1>2, <1>3, NodeFields
<1>5. Saved(n) \in FileNodes /\ Saved(n).size = s /\ Saved(n).dirty = FALSE
  BY <1>3, <1>4 DEF Saved, FileNodes
<1>6. moved \in FileNodes /\ moved.overlay = q /\ moved.dirty = FALSE /\ moved.size = s
  BY <1>5 DEF FileNodes
<1> HIDE DEF moved, s
<1>7. /\ \A a \in Above(q) : disk.host[a] # "file"
      /\ w \in ToSet(WriteTrail(disk, q, s)) /\ Written(disk, w, q, s) /\ q \notin w.tombs
      /\ w \in Disks /\ Beside(disk, w, q) /\ DiskOK(w)
      /\ StoreOK(w, en, st, u)
  BY <1>1, <1>3, WriteKeeps
<1>8. /\ Durable(w)[q] = s
      /\ \A x \in Paths \ {q} : Durable(w)[x] = Durable(disk)[x]
      /\ hidden \ {q} \subseteq w.tombs
  BY <1>2, <1>3, <1>7, DurableAt, DurableBeside DEF Beside
<1>9. w = Last(WriteTrail(disk, q, s))
  OBVIOUS
<1> HIDE DEF w, left
<1>10. stored[p] \in Int /\ stored[q] \in Int /\ s \in Int /\ st[p] = stored[p]
  <2>1. Sizes \subseteq Int
    BY SandboxAssumption DEF Sizes
  <2> QED
    BY <1>2, <1>3, <2>1
<1>11. /\ DiskOK(disk') /\ StoreOK(disk', entries', stored', used')
       /\ Durable(disk')[q] = s
       /\ Durable(disk')[p] = IF left THEN None ELSE Durable(disk)[p]
       /\ \A x \in Paths \ {p, q} : Durable(disk')[x] = Durable(disk)[x]
       /\ hidden' \subseteq disk'.tombs
  <2>1. CASE left
    <3> DEFINE e == Last(TombstoneTrail(w, p))
    <3>1. CanLeave(p, q)
      BY <2>1 DEF left
    <3>3. en = [entries EXCEPT ![q] = "file"] /\ st = [stored EXCEPT ![q] = s] /\ u = used - stored[q] + s
          /\ e = Last(TombstoneTrail(w, p)) /\ disk' = e
      BY <1>1, <2>1
    <3> HIDE DEF e, en, st, u
    <3>2. /\ \A a \in Above(p) : w.host[a] # "file"
          /\ e \in ToSet(TombstoneTrail(w, p)) /\ p \in e.tombs /\ e.host[p] # "file"
          /\ e \in Disks /\ Beside(w, e, p) /\ DiskOK(e)
          /\ StoreOK(e, [en EXCEPT ![p] = "tombstone"], [st EXCEPT ![p] = 0], u - st[p] + 0)
      <4>1. q \notin Above(p)
        BY <1>1, RenameApart
      <4>2. en \in [Paths -> Kinds] /\ \A c \in Paths \ {q} : en[c] = entries[c]
        BY <1>2, <1>3 DEF en, Kinds
      <4>3. w \in Disks /\ Beside(disk, w, q) /\ DiskOK(w) /\ StoreOK(w, en, st, u)
        BY <1>7
      <4>4. e = Last(TombstoneTrail(w, p))
        BY <3>3
      <4>5. /\ \A c \in Below(p) \cup {p} : en[c] = entries[c]
            /\ entries[p] = "tombstone" \/ \A a \in Above(p) : w.host[a] # "file"
        BY <1>3, <3>1, <4>1, <4>2, <4>3, LeaveFinds
      <4>6. /\ \A a \in Above(p) : w.host[a] # "file"
            /\ \A x \in ToSet(TombstoneTrail(w, p)) : x \in Disks /\ Beside(w, x, p) /\ DiskOK(x)
        BY <4>3, <4>5, EraseTrailKeeps
      <4>7. /\ e \in ToSet(TombstoneTrail(w, p)) /\ p \in e.tombs /\ e.host[p] # "file"
            /\ StoreOK(e, [en EXCEPT ![p] = "tombstone"], [st EXCEPT ![p] = 0], u - st[p] + 0)
        BY <4>2, <4>3, <4>4, <4>5, EraseKeeps
      <4> QED
        BY <4>6, <4>7
    <3>4. /\ entries' = [entries EXCEPT ![q] = "file", ![p] = "tombstone"]
          /\ stored' = [stored EXCEPT ![q] = s, ![p] = 0]
      BY <1>1, <2>1
    <3>5. entries' = [en EXCEPT ![p] = "tombstone"] /\ stored' = [st EXCEPT ![p] = 0]
      <4>1. entries' = [en EXCEPT ![p] = "tombstone"]
        BY <1>2, <1>3, <3>4, TwoExcept DEF en
      <4>2. stored' = [st EXCEPT ![p] = 0]
        BY <1>2, <1>3, <3>4, TwoExcept DEF st
      <4> QED
        BY <4>1, <4>2
    <3>6. used' = u - st[p] + 0
      BY <1>1, <1>3, <1>10, <2>1 DEF u
    <3>7. StoreOK(disk', entries', stored', used')
      BY <3>2, <3>5, <3>6, <3>3
    <3>8. Durable(e)[p] = None
      BY <3>2 DEF Durable
    <3>9. \A x \in Paths \ {p} : Durable(e)[x] = Durable(w)[x]
      BY <1>7, <3>2, DurableBeside
    <3>10. hidden' \subseteq e.tombs
      BY <1>1, <1>3, <1>8, <2>1, <3>2 DEF Beside
    <3> QED
      BY <1>3, <1>8, <2>1, <3>2, <3>3, <3>7, <3>8, <3>9, <3>10
  <2>2. CASE ~left
    <3>1. /\ entries' = [entries EXCEPT ![q] = "file", ![p] = entries[p]]
          /\ stored' = [stored EXCEPT ![q] = s, ![p] = stored[p]]
          /\ disk' = w /\ hidden' = hidden \ {q}
      BY <1>1, <2>2, <1>2, <1>3
    <3>2. entries' = en /\ stored' = st
      <4>1. entries' = en
        BY <1>2, <1>3, <3>1, TwoExcept
      <4>2. stored' = st
        BY <1>2, <1>3, <3>1, TwoExcept
      <4> QED
        BY <4>1, <4>2
    <3>3. used' = u
      BY <1>1, <1>3, <1>10, <2>2
    <3> QED
      BY <1>3, <1>7, <1>8, <2>2, <3>1, <3>2, <3>3
  <2> QED
    BY <2>1, <2>2
<1>12. entries' \in [Paths -> Kinds]
  BY <1>1, <1>2 DEF Kinds
<1>13. hidden' \subseteq (hidden \ {q}) \cup {p}
  BY <1>1
<1>14. /\ SInv' /\ size'[names[p]] = moved.size
       /\ \A x \in Paths \ {p, q} : names[x] # None => size'[names[x]] = size[names[x]]
  <2> HIDE DEF n, en, st, u
  <2>1. ~moved.dirty => Durable(disk')[q] = moved.size
    BY <1>6, <1>11
  <2>3. /\ moved.overlay = q /\ DiskOK(disk') /\ StoreOK(disk', entries', stored', used')
        /\ resurfaces' \in BOOLEAN /\ overlooked' \in BOOLEAN
        /\ hidden' \subseteq disk'.tombs
        /\ \A x \in Paths \ {p, q} : Durable(disk')[x] = Durable(disk)[x]
    BY <1>1, <1>6, <1>11
  <2>2. SInv /\ up /\ up' /\ CanRename(p, q) /\ Move(p, q, moved) /\ moved \in FileNodes
    BY <1>1, <1>6
  <2> QED
    BY <1>12, <1>13, <2>1, <2>2, <2>3, MoveKeeps
<1> QED
  BY <1>1, <1>6, <1>11, <1>14 DEF left, s

LEMMA RenameUnsavedKeeps ==
  ASSUME SInv, NEW p \in Paths, NEW q \in Paths, RenameUnsaved(p, q)
  PROVE  /\ SInv' /\ up /\ up' /\ CanRename(p, q) /\ disk' = disk
         /\ size'[names[p]] = size[names[p]]
         /\ \A x \in Paths \ {p, q} : names[x] # None => size'[names[x]] = size[names[x]]
<1> DEFINE n == names[p]
           moved == [Node(n) EXCEPT !.overlay = q, !.dirty = TRUE]
<1>1. /\ up /\ up' /\ CanRename(p, q) /\ Move(p, q, moved)
      /\ hidden' = hidden \ {q}
      /\ UNCHANGED <<disk, entries, stored, used, overlooked>> /\ resurfaces' \in BOOLEAN
  BY DEF RenameUnsaved, Move, storeVars
<1>2. TypeOK /\ hidden \subseteq disk.tombs
  BY <1>1, InSession
<1>3. n \in Nodes /\ overlooked' \in BOOLEAN
  BY <1>1, <1>2 DEF TypeOK, CanRename
<1>4. Node(n) \in FileNodes /\ Node(n).size = size[n]
  BY <1>2, <1>3, NodeFields
<1>5. moved \in FileNodes /\ moved.overlay = q /\ moved.dirty = TRUE /\ moved.size = size[n]
  BY <1>4 DEF FileNodes
<1> HIDE DEF moved
<1>6. /\ DiskOK(disk') /\ StoreOK(disk', entries', stored', used')
      /\ entries' \in [Paths -> Kinds] /\ disk' = disk
  BY <1>1, StoreSame
<1>7. hidden' \subseteq disk'.tombs /\ hidden' \subseteq (hidden \ {q}) \cup {p}
  BY <1>1, <1>2
<1>8. /\ SInv' /\ size'[names[p]] = moved.size
      /\ \A x \in Paths \ {p, q} : names[x] # None => size'[names[x]] = size[names[x]]
  BY <1>1, <1>3, <1>5, <1>6, <1>7, MoveKeeps
<1> QED
  BY <1>1, <1>5, <1>8

-----------------------------------------------------------------------------
(* The start and the end of a session.                                     *)

\* There are nodes enough for the files a session starts with.
LEMMA EnoughNodes ==
  ASSUME NEW files \in SUBSET Paths,
         NEW node, node = CHOOSE f \in [files -> Nodes] : IsInjective(f)
  PROVE  /\ node \in [files -> Nodes]
         /\ \A a, b \in files : node[a] = node[b] => a = b
<1>1. PICK g \in [Paths -> Nodes] : IsInjective(g)
  BY SandboxAssumption DEF ExistsInjection, Injection
<1>2. \A a, b \in Paths : g[a] = g[b] => a = b
  BY <1>1 DEF IsInjective
<1> DEFINE h == [p \in files |-> g[p]]
<1>3. h \in [files -> Nodes]
  BY <1>1
<1>4. DOMAIN h = files /\ \A a \in files : h[a] = g[a]
  OBVIOUS
<1>5. IsInjective(h)
  BY <1>2, <1>4 DEF IsInjective
<1> HIDE DEF h
<1>6. \E f \in [files -> Nodes] : IsInjective(f)
  BY <1>3, <1>5
<1>7. node \in [files -> Nodes] /\ IsInjective(node)
  BY <1>6, Zenon
<1> QED
  BY <1>7 DEF IsInjective

\* A session starts with what is durable, every node clean.
LEMMA AttachKeeps ==
  ASSUME SInv, Attach
  PROVE  /\ SInv' /\ ~up /\ up' /\ Openable(disk)
         /\ \A p \in Paths :
              /\ Durable(disk')[p] = Durable(disk)[p]
              /\ names'[p] = None => Durable(disk)[p] = None
              /\ names'[p] # None => size'[names'[p]] = Durable(disk)[p]
         /\ dirs' = {p \in Paths : disk.host[p] = "dir"} \ disk.tombs
         /\ disk'.host = disk.host /\ disk'.tombs = disk.tombs
         /\ \A p \in Paths :
              names'[p] # None <=> disk.host[p] = "file" \/ (p \in Base /\ p \notin disk.tombs)
         /\ resurfaces' = resurfaces /\ ~overlooked'
<1> DEFINE onDisk(p) == disk.host[p] = "file"
           files == {p \in Paths : onDisk(p) \/ (p \in Base /\ p \notin disk.tombs)}
           node == CHOOSE f \in [files -> Nodes] : IsInjective(f)
           saved == {node[p] : p \in {q \in files : onDisk(q)}}
           path(n) == CHOOSE p \in files : node[p] = n
<1>1. /\ ~up /\ up' = TRUE /\ Openable(disk)
      /\ disk' = [disk EXCEPT !.temps = {}]
      /\ entries' = [p \in Paths |-> IF p \in disk.tombs THEN "tombstone" ELSE disk.host[p]]
      /\ stored' = disk.bytes
      /\ used' = SumFunction(disk.bytes)
      /\ names' = [p \in Paths |-> IF p \in files THEN node[p] ELSE None]
      /\ dirs' = {p \in Paths : disk.host[p] = "dir"} \ disk.tombs
      /\ hidden' = disk.tombs
      /\ overlay' = [n \in Nodes |-> IF n \in saved THEN path(n) ELSE None]
      /\ size' = [n \in Nodes |-> IF n \notin Range(node) THEN 0
                                  ELSE IF n \in saved THEN disk.bytes[path(n)] ELSE BaseSize]
      /\ persisted' = [n \in Nodes |-> IF n \in saved THEN disk.bytes[path(n)] ELSE 0]
      /\ overlooked' = FALSE
      /\ dirty' = dirty /\ open' = open /\ delta' = delta /\ resurfaces' = resurfaces
  BY DEF Attach
<1>2. /\ node \in [files -> Nodes]
      /\ \A a, b \in files : node[a] = node[b] => a = b
  <2>1. files \in SUBSET Paths /\ node = CHOOSE f \in [files -> Nodes] : IsInjective(f)
    OBVIOUS
  <2> HIDE DEF files, node
  <2> QED
    BY <2>1, EnoughNodes
<1>3. files \subseteq Paths
  OBVIOUS
<1>4. \A n : n \in saved <=> \E p \in files : onDisk(p) /\ node[p] = n
  OBVIOUS
<1>5. \A p \in Paths : p \in files <=> onDisk(p) \/ (p \in Base /\ p \notin disk.tombs)
  OBVIOUS
<1> HIDE DEF node, files, saved
<1>6. \A p \in files : path(node[p]) = p
  BY <1>2
<1>7. \A n \in saved : n \in Nodes /\ path(n) \in files /\ onDisk(path(n)) /\ node[path(n)] = n
  BY <1>2, <1>4, <1>6
<1>8. \A p \in files : node[p] \in Nodes /\ node[p] \in Range(node) /\ (node[p] \in saved <=> onDisk(p))
  BY <1>2, <1>4 DEF Range
<1> HIDE DEF path
<1>9. /\ disk \in Disks /\ DiskOK(disk) /\ TypeOK
      /\ None \notin Nodes /\ None \notin Paths /\ 0 \in Sizes /\ BaseSize \in Sizes /\ MaxSize \in Nat
      /\ Base \subseteq Paths
      /\ open = {} /\ delta = 0 /\ \A n \in Nodes : ~dirty[n]
  BY <1>1, SandboxAssumption DEF SInv, TypeOK, DownInv, DiskOK, Sizes, BaseSize
<1>10. /\ disk.host \in [Paths -> {"none", "file", "dir"}] /\ disk.bytes \in [Paths -> Sizes]
       /\ disk.tombs \subseteq Paths /\ SumFunction(disk.bytes) \in Nat
  BY <1>9, DiskTypes
<1>11. /\ disk' \in Disks /\ disk'.host = disk.host /\ disk'.bytes = disk.bytes
       /\ disk'.tombs = disk.tombs
  BY <1>1, <1>9 DEF Disks
<1>12. /\ Durable(disk') = Durable(disk)
       /\ ~Torn(disk) /\ ~Torn(disk')
  BY <1>1, <1>11 DEF Durable, Torn, Openable
<1>13. DiskOK(disk')
  BY <1>9, <1>11 DEF DiskOK, Rooted, OnlyFilesTakeBytes
<1>14. StoreOK(disk', entries', stored', used')
  BY <1>1, <1>10, <1>11, <1>12 DEF StoreOK, Indexes, ParentsHold
<1>15. /\ \A p \in Paths : names'[p] = IF p \in files THEN node[p] ELSE None
       /\ \A p \in Paths : names'[p] # None <=> p \in files
  BY <1>1, <1>8, <1>9
<1>16. TypeOK'
  <2>1. entries' \in [Paths -> {"none", "file", "dir", "tombstone"}]
    BY <1>1, <1>10
  <2>2. stored' \in [Paths -> Sizes] /\ used' \in 0 .. Quota
    BY <1>1, <1>9, <1>10, SandboxAssumption DEF DiskOK
  <2>3. names' \in [Paths -> Nodes \cup {None}]
    BY <1>1, <1>8
  <2>4. \A n \in Nodes : n \in saved => path(n) \in Paths /\ disk.bytes[path(n)] \in Sizes
    BY <1>3, <1>7, <1>10
  <2>5. overlay' \in [Nodes -> Paths \cup {None}]
    BY <1>1, <2>4
  <2>6. size' \in [Nodes -> Sizes] /\ persisted' \in [Nodes -> Sizes]
    BY <1>1, <1>9, <2>4
  <2>7. up' \in BOOLEAN /\ overlooked' \in BOOLEAN /\ resurfaces' \in BOOLEAN
    BY <1>1, <1>9 DEF TypeOK
  <2>8. dirty' \in [Nodes -> BOOLEAN] /\ open' \subseteq Nodes /\ delta' \in Int
    BY <1>1, <1>9 DEF TypeOK
  <2> QED
    BY <1>1, <1>10, <1>11, <2>1, <2>2, <2>3, <2>5, <2>6, <2>7, <2>8 DEF TypeOK
<1>17. NodeInv'
  <2>1. \A p, q \in Paths : names'[p] # None /\ names'[p] = names'[q] => p = q
    BY <1>2, <1>15
  <2>2. \A n \in Nodes : overlay'[n] # None => names'[overlay'[n]] = n
    BY <1>1, <1>3, <1>7, <1>15
  <2>3. \A n \in Nodes : ~dirty'[n]
    BY <1>1, <1>9
  <2>4. open' = {}
    BY <1>1, <1>9
  <2> QED
    BY <2>1, <2>2, <2>3, <2>4 DEF NodeInv
<1>18. DeltaInv'
  <2>1. \A n \in Nodes : (Contribution(Node(n)))' = 0
    BY <1>1, <1>9 DEF Contribution, Node
  <2>2. DOMAIN Contributions' = Nodes /\ \A n \in Nodes : Contributions'[n] = 0
    BY <2>1 DEF Contributions
  <2>3. SumFunctionOnSet(Contributions', Nodes) = 0
    BY <2>2, SumZero, SandboxAssumption
  <2> QED
    BY <1>1, <1>9, <2>2, <2>3 DEF DeltaInv, SumFunction
<1>19. \A p \in files : size'[names'[p]] = Durable(disk)[p]
  <2> TAKE p \in files
  <2>1. p \in Paths /\ names'[p] = node[p] /\ node[p] \in Nodes /\ node[p] \in Range(node)
        /\ (node[p] \in saved <=> onDisk(p))
    BY <1>3, <1>8, <1>15
  <2>2. size'[names'[p]] = IF onDisk(p) THEN disk.bytes[p] ELSE BaseSize
    BY <1>1, <1>6, <2>1
  <2> QED
    BY <1>5, <2>1, <2>2 DEF Durable
<1>20. \A p \in Paths \ files : Durable(disk)[p] = None
  BY <1>5 DEF Durable
<1>21. CleanInv'
  <2>1. \A p \in disk.tombs : p \notin files
    BY <1>5, <1>10, <1>12 DEF Torn
  <2> QED
    BY <1>1, <1>10, <1>11, <1>12, <1>15, <1>19, <2>1 DEF CleanInv
<1>22. SInv'
  BY <1>1, <1>13, <1>14, <1>16, <1>17, <1>18, <1>21 DEF SInv, StoreInv, DownInv
<1> QED
  BY <1>1, <1>5, <1>11, <1>12, <1>15, <1>19, <1>20, <1>22

\* What a session forgets is what there is before it.
LEMMA ForgetKeeps ==
  ASSUME TypeOK, Forget, ~up', up' \in BOOLEAN, DiskOK(disk'),
         resurfaces' \in BOOLEAN, overlooked' \in BOOLEAN
  PROVE  SInv' /\ \A p \in Paths : names'[p] = None
<1>1. /\ entries' = [p \in Paths |-> "none"] /\ stored' = [p \in Paths |-> 0] /\ used' = 0
      /\ names' = [p \in Paths |-> None]
      /\ dirs' = {} /\ hidden' = {} /\ open' = {}
      /\ overlay' = [n \in Nodes |-> None] /\ dirty' = [n \in Nodes |-> FALSE]
      /\ size' = [n \in Nodes |-> 0] /\ persisted' = [n \in Nodes |-> 0] /\ delta' = 0
  BY DEF Forget
<1>2. 0 \in Sizes /\ None \notin Nodes /\ 0 \in 0 .. Quota /\ disk' \in Disks
  BY SandboxAssumption DEF Sizes, DiskOK
<1>3. TypeOK'
  BY <1>1, <1>2 DEF TypeOK
<1>4. NodeInv'
  BY <1>1 DEF NodeInv
<1>5. DeltaInv'
  <2>1. \A n \in Nodes : (Contribution(Node(n)))' = 0
    BY <1>1 DEF Contribution, Node
  <2>2. DOMAIN Contributions' = Nodes /\ \A n \in Nodes : Contributions'[n] = 0
    BY <2>1 DEF Contributions
  <2>3. SumFunctionOnSet(Contributions', Nodes) = 0
    BY <2>2, SumZero, SandboxAssumption
  <2> QED
    BY <1>1, <2>2, <2>3 DEF DeltaInv, SumFunction
<1>6. DownInv' /\ StoreInv' /\ CleanInv'
  BY <1>1 DEF DownInv, StoreInv, CleanInv
<1> QED
  BY <1>1, <1>3, <1>4, <1>5, <1>6 DEF SInv

LEMMA EmptyDiskOK ==
  DiskOK(EmptyDisk)
<1>1. 0 \in Sizes /\ Quota \in Nat
  BY SandboxAssumption DEF Sizes
<1>2. EmptyDisk \in Disks
  BY <1>1 DEF EmptyDisk, Disks
<1>3. /\ \A p \in Paths : EmptyDisk.host[p] = "none" /\ EmptyDisk.bytes[p] = 0
      /\ EmptyDisk.tombs = {}
  BY DEF EmptyDisk
<1>4. SumFunctionOnSet(EmptyDisk.bytes, Paths) = 0
  BY <1>3, SumZero, SandboxAssumption
<1>5. SumFunction(EmptyDisk.bytes) = 0
  BY <1>2, <1>4, DiskTypes
<1> QED
  BY <1>1, <1>2, <1>3, <1>5 DEF DiskOK, Rooted, OnlyFilesTakeBytes

\* Where a crash can leave the host: as it is, or in one of the states of a write, of
\* a new directory, of a removal, of the write of a rename or of its removal.
LEMMA CrashCases ==
  ASSUME NEW e
  PROVE  e \in CrashPoints <=>
         \/ e = disk
         \/ \E n \in Nodes : /\ Unsaved(n) /\ CanSave(n)
                             /\ e \in ToSet(WriteTrail(disk, overlay[n], size[n]))
         \/ \E p \in Paths : CanMakeDirectory(p) /\ e \in ToSet(DirectoryTrail(disk, p))
         \/ \E p \in Paths : /\ (names[p] # None \/ IsEmptyDirectory(p)) /\ CanErase(p)
                             /\ e \in ToSet(TombstoneTrail(disk, p))
         \/ \E p, q \in Paths :
              /\ CanRename(p, q) /\ CanWrite(q, size[names[p]])
              /\ \/ e \in ToSet(WriteTrail(disk, q, size[names[p]]))
                 \/ /\ CanLeave(p, q)
                    /\ e \in ToSet(TombstoneTrail(Last(WriteTrail(disk, q, size[names[p]])), p))
<1> DEFINE writes == {ToSet(WriteTrail(disk, overlay[n], size[n])) :
                        n \in {m \in Nodes : Unsaved(m) /\ CanSave(m)}}
           makes == {ToSet(DirectoryTrail(disk, p)) : p \in {q \in Paths : CanMakeDirectory(q)}}
           erases == {ToSet(TombstoneTrail(disk, p)) :
                        p \in {q \in Paths : (names[q] # None \/ IsEmptyDirectory(q)) /\ CanErase(q)}}
           renames == {r \in Paths \X Paths :
                         CanRename(r[1], r[2]) /\ CanWrite(r[2], size[names[r[1]]])}
           target(r) == WriteTrail(disk, r[2], size[names[r[1]]])
           targets == {ToSet(target(r)) : r \in renames}
           sources == {ToSet(TombstoneTrail(Last(target(r)), r[1])) :
                         r \in {s \in renames : CanLeave(s[1], s[2])}}
<1>1. e \in CrashPoints <=>
        e = disk \/ \E t \in writes \cup makes \cup erases \cup targets \cup sources : e \in t
  <2>1. CrashPoints = {disk} \cup UNION (writes \cup makes \cup erases \cup targets \cup sources)
    BY Zenon DEF CrashPoints
  <2> HIDE DEF writes, makes, erases, targets, sources
  <2> QED
    BY <2>1
<1>2. (\E t \in writes : e \in t) <=>
        \E n \in Nodes : /\ Unsaved(n) /\ CanSave(n)
                         /\ e \in ToSet(WriteTrail(disk, overlay[n], size[n]))
  OBVIOUS
<1>3. (\E t \in makes : e \in t) <=>
        \E p \in Paths : CanMakeDirectory(p) /\ e \in ToSet(DirectoryTrail(disk, p))
  OBVIOUS
<1>4. (\E t \in erases : e \in t) <=>
        \E p \in Paths : /\ (names[p] # None \/ IsEmptyDirectory(p)) /\ CanErase(p)
                         /\ e \in ToSet(TombstoneTrail(disk, p))
  OBVIOUS
<1>5. /\ \A r \in renames : /\ r[1] \in Paths /\ r[2] \in Paths
                            /\ CanRename(r[1], r[2]) /\ CanWrite(r[2], size[names[r[1]]])
      /\ \A p, q \in Paths : CanRename(p, q) /\ CanWrite(q, size[names[p]]) => <<p, q>> \in renames
  OBVIOUS
<1>6. (\E t \in targets : e \in t) <=>
        \E p, q \in Paths : /\ CanRename(p, q) /\ CanWrite(q, size[names[p]])
                            /\ e \in ToSet(WriteTrail(disk, q, size[names[p]]))
  <2>1. ASSUME NEW t \in targets, e \in t
        PROVE  \E p, q \in Paths : /\ CanRename(p, q) /\ CanWrite(q, size[names[p]])
                                   /\ e \in ToSet(WriteTrail(disk, q, size[names[p]]))
    <3>1. PICK r \in renames : t = ToSet(target(r))
      BY <2>1
    <3> QED
      BY <1>5, <2>1, <3>1
  <2>2. ASSUME NEW p \in Paths, NEW q \in Paths, CanRename(p, q), CanWrite(q, size[names[p]]),
               e \in ToSet(WriteTrail(disk, q, size[names[p]]))
        PROVE  \E t \in targets : e \in t
    <3>1. <<p, q>> \in renames /\ target(<<p, q>>) = WriteTrail(disk, q, size[names[p]])
      BY <1>5, <2>2
    <3> HIDE DEF renames, target
    <3> QED
      BY <2>2, <3>1
  <2> QED
    BY <2>1, <2>2
<1>7. (\E t \in sources : e \in t) <=>
        \E p, q \in Paths :
               /\ CanRename(p, q) /\ CanWrite(q, size[names[p]]) /\ CanLeave(p, q)
               /\ e \in ToSet(TombstoneTrail(Last(WriteTrail(disk, q, size[names[p]])), p))
  <2>1. ASSUME NEW t \in sources, e \in t
        PROVE  \E p, q \in Paths :
                 /\ CanRename(p, q) /\ CanWrite(q, size[names[p]]) /\ CanLeave(p, q)
                 /\ e \in ToSet(TombstoneTrail(Last(WriteTrail(disk, q, size[names[p]])), p))
    <3>1. PICK r \in renames : CanLeave(r[1], r[2]) /\ t = ToSet(TombstoneTrail(Last(target(r)), r[1]))
      BY <2>1
    <3> QED
      BY <1>5, <2>1, <3>1
  <2>2. ASSUME NEW p \in Paths, NEW q \in Paths, CanRename(p, q), CanWrite(q, size[names[p]]), CanLeave(p, q),
               e \in ToSet(TombstoneTrail(Last(WriteTrail(disk, q, size[names[p]])), p))
        PROVE  \E t \in sources : e \in t
    <3> DEFINE r == <<p, q>>
    <3>1. /\ r \in renames /\ r[1] = p /\ r[2] = q
          /\ target(r) = WriteTrail(disk, q, size[names[p]])
      BY <1>5, <2>2
    <3> HIDE DEF renames, target, r
    <3>2. ToSet(TombstoneTrail(Last(target(r)), r[1])) \in sources
      BY <2>2, <3>1
    <3> QED
      BY <2>2, <3>1, <3>2
  <2> QED
    BY <2>1, <2>2
<1>8. (\E t \in writes \cup makes \cup erases \cup targets \cup sources : e \in t) <=>
        \/ \E t \in writes : e \in t
        \/ \E t \in makes : e \in t
        \/ \E t \in erases : e \in t
        \/ \E t \in targets : e \in t
        \/ \E t \in sources : e \in t
  <2> HIDE DEF writes, makes, erases, targets, sources
  <2> QED
    OBVIOUS
<1> HIDE DEF writes, makes, erases, renames, target, targets, sources
<1> QED
  BY <1>1, <1>2, <1>3, <1>4, <1>6, <1>7, <1>8

\* What the removal of the source of a rename finds on the host `w`, where the target
\* has been saved.
LEMMA LeaveStates ==
  ASSUME SInv, up, NEW p \in Paths, NEW q \in Paths, NEW n \in Sizes,
         CanRename(p, q), CanWrite(q, n), CanLeave(p, q),
         NEW w, w = Last(WriteTrail(disk, q, n))
  PROVE  /\ w \in Disks /\ Beside(disk, w, q) /\ Written(disk, w, q, n) /\ q \notin w.tombs
         /\ DiskOK(w) /\ w \in ToSet(WriteTrail(disk, q, n))
         /\ \A a \in Above(p) : w.host[a] # "file"
         /\ \A x \in ToSet(TombstoneTrail(w, p)) :
              /\ x \in Disks /\ Beside(w, x, p) /\ DiskOK(x)
              /\ Marked(w, x, p) \/ Removed(x, p)
              /\ Removed(x, p) => \A c \in Below(p) : w.host[c] = "none" /\ c \notin w.tombs
<1> DEFINE en == [entries EXCEPT ![q] = "file"]
           st == [stored EXCEPT ![q] = n]
           u == used - stored[q] + n
<1>1. entries \in [Paths -> Kinds] /\ p # q /\ q \notin Above(p)
  BY InSession, RenameApart DEF CanRename
<1>2. /\ w \in ToSet(WriteTrail(disk, q, n)) /\ StoreOK(w, en, st, u)
      /\ w \in Disks /\ Beside(disk, w, q) /\ DiskOK(w) /\ Written(disk, w, q, n) /\ q \notin w.tombs
  BY WriteKeeps
<1>3. \A c \in Paths \ {q} : en[c] = entries[c]
  BY <1>1
<1> HIDE DEF en, st, u
<1>4. /\ \A c \in Below(p) \cup {p} : en[c] = entries[c]
      /\ entries[p] = "tombstone" \/ \A a \in Above(p) : w.host[a] # "file"
  BY <1>1, <1>2, <1>3, LeaveFinds
<1>5. /\ \A a \in Above(p) : w.host[a] # "file"
      /\ \A x \in ToSet(TombstoneTrail(w, p)) :
              /\ x \in Disks /\ Beside(w, x, p) /\ DiskOK(x)
              /\ Marked(w, x, p) \/ Removed(x, p)
              /\ Removed(x, p) => \A c \in Below(p) : w.host[c] = "none" /\ c \notin w.tombs
  BY <1>2, <1>4, EraseTrailKeeps
<1> QED
  BY <1>2, <1>5

\* The same for the removals of a session.
LEMMA EraseStates ==
  ASSUME SInv, up, NEW p \in Paths, CanErase(p)
  PROVE  /\ \A a \in Above(p) : disk.host[a] # "file"
         /\ \A e \in ToSet(TombstoneTrail(disk, p)) :
              /\ e \in Disks /\ Beside(disk, e, p) /\ DiskOK(e)
              /\ Marked(disk, e, p) \/ Removed(e, p)
              /\ Removed(e, p) => \A c \in Below(p) : disk.host[c] = "none" /\ c \notin disk.tombs
<1>1. DiskOK(disk) /\ StoreOK(disk, entries, stored, used)
  BY InSession
<1>2. entries[p] = "tombstone" \/ \A a \in Above(p) : disk.host[a] # "file"
  BY DEF CanErase, CanPlace
<1> QED
  BY <1>1, <1>2, EraseTrailKeeps

LEMMA CrashPointsOK ==
  ASSUME SInv, up, NEW e \in CrashPoints
  PROVE  DiskOK(e)
<1>1. TypeOK /\ DiskOK(disk)
  BY InSession
<1>2. ASSUME NEW n \in Nodes, Unsaved(n), CanSave(n), e \in ToSet(WriteTrail(disk, overlay[n], size[n]))
      PROVE  DiskOK(e)
  <2>1. overlay[n] \in Paths /\ size[n] \in Sizes /\ CanWrite(overlay[n], size[n])
    BY <1>1, <1>2 DEF Unsaved, CanSave, TypeOK
  <2> QED
    BY <1>2, <2>1, WriteKeeps
<1>3. ASSUME NEW p \in Paths, CanMakeDirectory(p), e \in ToSet(DirectoryTrail(disk, p))
      PROVE  DiskOK(e)
  BY <1>3, MakeKeeps
<1>4. ASSUME NEW p \in Paths, CanErase(p), e \in ToSet(TombstoneTrail(disk, p))
      PROVE  DiskOK(e)
  BY <1>4, EraseStates
<1>5. ASSUME NEW p \in Paths, NEW q \in Paths, CanRename(p, q), CanWrite(q, size[names[p]])
      PROVE  /\ e \in ToSet(WriteTrail(disk, q, size[names[p]])) => DiskOK(e)
             /\ CanLeave(p, q) /\ e \in ToSet(TombstoneTrail(Last(WriteTrail(disk, q, size[names[p]])), p)) => DiskOK(e)
  <2> DEFINE w == Last(WriteTrail(disk, q, size[names[p]]))
  <2>1. size[names[p]] \in Sizes
    BY <1>1, <1>5 DEF CanRename, TypeOK
  <2>2. w = Last(WriteTrail(disk, q, size[names[p]]))
    OBVIOUS
  <2> HIDE DEF w
  <2>3. CanLeave(p, q) => \A x \in ToSet(TombstoneTrail(w, p)) : DiskOK(x)
    BY <1>5, <2>1, <2>2, LeaveStates
  <2>4. \A x \in ToSet(WriteTrail(disk, q, size[names[p]])) : DiskOK(x)
    BY <1>5, <2>1, WriteKeeps
  <2> QED
    BY <2>3, <2>4 DEF w
<1> QED
  BY <1>1, <1>2, <1>3, <1>4, <1>5, CrashCases

LEMMA CrashKeeps ==
  ASSUME SInv, Crash
  PROVE  SInv' /\ \A p \in Paths : names'[p] = None
<1>1. /\ up /\ ~up' /\ up' \in BOOLEAN /\ disk' \in CrashPoints /\ Forget
      /\ resurfaces' = resurfaces /\ Overlook
  BY DEF Crash
<1>2. TypeOK /\ DiskOK(disk')
  BY <1>1, InSession, CrashPointsOK
<1>3. resurfaces' \in BOOLEAN /\ overlooked' \in BOOLEAN
  BY <1>1, <1>2 DEF TypeOK, Overlook
<1> QED
  BY <1>1, <1>2, <1>3, ForgetKeeps

LEMMA ClearKeeps ==
  ASSUME SInv, Clear
  PROVE  SInv'
<1>1. /\ ~up /\ up' = up /\ disk' = EmptyDisk /\ resurfaces' = FALSE /\ overlooked' = FALSE
      /\ UNCHANGED <<entries, stored, used, names, dirs, hidden, overlay, dirty, size, persisted, open, delta>>
  BY DEF Clear, storeVars, nodeVars
<1>2. DiskOK(disk') /\ disk' \in Disks
  BY <1>1, EmptyDiskOK DEF DiskOK
<1>3. TypeOK /\ NodeInv /\ DeltaInv /\ DownInv
  BY DEF SInv
<1>4. TypeOK'
  BY <1>1, <1>2, <1>3 DEF TypeOK
<1>5. NodeInv' /\ DownInv' /\ StoreInv' /\ CleanInv'
  BY <1>1, <1>3 DEF NodeInv, DownInv, StoreInv, CleanInv
<1>6. DeltaInv'
  BY <1>1, <1>3 DEF DeltaInv, Contributions, Node
<1> QED
  BY <1>2, <1>4, <1>5, <1>6 DEF SInv

LEMMA InitSInv ==
  ASSUME Init
  PROVE  SInv
<1>1. /\ disk = EmptyDisk /\ up = FALSE
      /\ entries = [p \in Paths |-> "none"] /\ stored = [p \in Paths |-> 0] /\ used = 0
      /\ names = [p \in Paths |-> None]
      /\ dirs = {} /\ hidden = {} /\ open = {}
      /\ overlay = [n \in Nodes |-> None] /\ dirty = [n \in Nodes |-> FALSE]
      /\ size = [n \in Nodes |-> 0] /\ persisted = [n \in Nodes |-> 0] /\ delta = 0
      /\ resurfaces = FALSE /\ overlooked = FALSE
  BY DEF Init
<1>2. 0 \in Sizes /\ 0 \in 0 .. Quota /\ DiskOK(disk) /\ disk \in Disks
  BY <1>1, EmptyDiskOK, SandboxAssumption DEF Sizes, DiskOK
<1>3. TypeOK
  <2>1. dirty \in [Nodes -> BOOLEAN] /\ up \in BOOLEAN /\ resurfaces \in BOOLEAN /\ overlooked \in BOOLEAN
    BY <1>1
  <2> QED
    BY <1>1, <1>2, <2>1 DEF TypeOK
<1>4. NodeInv /\ DownInv /\ StoreInv /\ CleanInv
  BY <1>1 DEF NodeInv, DownInv, StoreInv, CleanInv
<1>5. DeltaInv
  <2>1. \A n \in Nodes : Contribution(Node(n)) = 0
    BY <1>1 DEF Contribution, Node
  <2>2. DOMAIN Contributions = Nodes /\ \A n \in Nodes : Contributions[n] = 0
    BY <2>1 DEF Contributions
  <2>3. SumFunctionOnSet(Contributions, Nodes) = 0
    BY <2>2, SumZero, SandboxAssumption
  <2> QED
    BY <1>1, <2>2, <2>3 DEF DeltaInv, SumFunction
<1> QED
  BY <1>2, <1>3, <1>4, <1>5 DEF SInv

LEMMA StutterSInv ==
  ASSUME SInv, UNCHANGED vars
  PROVE  SInv'
<1>1. UNCHANGED <<disk, up, entries, stored, used, names, dirs, hidden, overlay, dirty, size,
                  persisted, open, delta, resurfaces, overlooked>>
  BY DEF vars, storeVars, nodeVars, auxVars
<1>2. TypeOK' /\ NodeInv' /\ DownInv' /\ DiskOK(disk')
  BY <1>1 DEF SInv, TypeOK, NodeInv, DownInv
<1>3. StoreInv' /\ CleanInv'
  BY <1>1 DEF SInv, StoreInv, CleanInv
<1>4. DeltaInv'
  BY <1>1 DEF SInv, DeltaInv, Contributions, Node
<1> QED
  BY <1>2, <1>3, <1>4 DEF SInv

LEMMA NextSInv ==
  ASSUME SInv, [Next]_vars
  PROVE  SInv'
<1>1. CASE Attach
  BY <1>1, AttachKeeps
<1>2. CASE Crash
  BY <1>2, CrashKeeps
<1>3. CASE Clear
  BY <1>3, ClearKeeps
<1>4. CASE UNCHANGED vars
  BY <1>4, StutterSInv
<1>5. ASSUME NEW p \in Paths
      PROVE  /\ CreateFile(p) => SInv'
             /\ OpenFile(p) => SInv'
             /\ RemoveFile(p) => SInv'
             /\ MakeDirectory(p) => SInv'
             /\ RemoveDirectory(p) => SInv'
  BY CreateFileKeeps, OpenFileKeeps, RemoveFileKeeps, MakeDirectoryKeeps, RemoveDirectoryKeeps
<1>6. ASSUME NEW p \in Paths, NEW q \in Paths
      PROVE  /\ Rename(p, q) => SInv'
             /\ RenameUnsaved(p, q) => SInv'
  BY RenameKeeps, RenameUnsavedKeeps
<1>7. ASSUME NEW n \in Nodes
      PROVE  /\ Flush(n) => SInv'
             /\ Close(n) => SInv'
             /\ \A s \in Sizes : WriteFile(n, s) => SInv'
  <2>1. Flush(n) => SInv'
    <3> SUFFICES ASSUME Flush(n) PROVE SInv'
      OBVIOUS
    <3>1. up /\ up' /\ open' \subseteq open /\ Save(n)
      BY DEF Flush, Save
    <3> QED
      BY <3>1, SaveKeeps
  <2>2. Close(n) => SInv'
    <3> SUFFICES ASSUME Close(n) PROVE SInv'
      OBVIOUS
    <3>1. CASE Save(n)
      <4>1. up /\ up' /\ open' \subseteq open
        BY <3>1 DEF Close, Save
      <4> QED
        BY <3>1, <4>1, SaveKeeps
    <3>2. CASE ~Save(n)
      BY <3>2, CloseKeeps
    <3> QED
      BY <3>1, <3>2
  <2> QED
    BY <2>1, <2>2, WriteFileKeeps
<1> QED
  BY <1>1, <1>2, <1>3, <1>4, <1>5, <1>6, <1>7 DEF Next, GameStep

\* The conjuncts above hold after every operation of the game and at every crash
\* point of the store (src/src/runtime/vfs/sandbox_store.cpp), whatever the game
\* does to the directories of the base layer.
THEOREM SInvHolds == Spec => []SInv
<1>1. Init => SInv
  BY InitSInv
<1>2. SInv /\ [Next]_vars => SInv'
  BY NextSInv
<1> QED
  BY <1>1, <1>2, PTL DEF Spec

\* Every variable has its type.
THEOREM TypeCorrect == Spec => []TypeOK
<1>1. SInv => TypeOK
  BY DEF SInv
<1> QED
  BY <1>1, SInvHolds, PTL

\* The store's entries (src/src/runtime/vfs/sandbox_store.cpp) are, after every
\* operation and every reload, what is on the host: the sizes to the byte, and
\* nothing is missing but directories that were made as parents.
THEOREM IndexIsTheHost == Spec => []IndexMatchesDisk
<1>1. SInv => IndexMatchesDisk
  BY DEF SInv, StoreInv, StoreOK, Indexes, IndexMatchesDisk
<1> QED
  BY <1>1, SInvHolds, PTL

\* used_bytes of the store is the sum of the files on the host, and the VFS's
\* dirty_overlay_delta (src/src/runtime/vfs/vfs_sandbox.cpp) is the sum of what the
\* unsaved nodes will add to it: no order of writes, renames, unlinks and crashes
\* makes the counters drift from what they count.
THEOREM QuotaIsExact == Spec => []QuotaAccounting
<1>1. SInv => QuotaAccounting
  BY DEF SInv, StoreInv, StoreOK, DeltaInv, Contributions, QuotaAccounting
<1> QED
  BY <1>1, SInvHolds, PTL

\* What the VFS shows as saved or deleted is so on the host: a crash loses nothing
\* of a node that is not dirty and undoes no unlink that was reported.
THEOREM CleanIsDurable == Spec => []CleanStateIsDurable
<1>1. ASSUME SInv PROVE CleanStateIsDurable
  <2> SUFFICES ASSUME up, NEW p \in Paths
               PROVE  /\ names[p] # None /\ ~dirty[names[p]] => Durable(disk)[p] = size[names[p]]
                      /\ p \in hidden => names[p] = None /\ Durable(disk)[p] = None
    BY DEF CleanStateIsDurable
  <2>1. p \in hidden => p \in disk.tombs /\ disk.host[p] # "file"
    BY <1>1 DEF SInv, StoreInv, StoreOK, Torn, CleanInv
  <2>2. p \in hidden => Durable(disk)[p] = None
    BY <2>1 DEF Durable
  <2> QED
    BY <1>1, <2>2, InSession
<1> QED
  BY <1>1, SInvHolds, PTL

-----------------------------------------------------------------------------
(* What a tombstone, or a file, has below it.                              *)

\* Something is made or written at a path that is no directory.
LEMMA PlaceCovers ==
  ASSUME SInv, up, LiveDirectories, BaseSeen, CoversBase(disk),
         NEW x \in Paths, Above(x) \subseteq Directories, x \notin Directories,
         NEW e \in Disks, Beside(disk, e, x),
         x \in e.tombs => x \in disk.tombs, e.host[x] = "file" => disk.host[x] # "dir"
  PROVE  /\ CoversBase(e)
         /\ CoversHost(disk) => CoversHost(e)
<1>1. /\ TypeOK /\ DiskOK(disk) /\ disk \in Disks /\ Rooted(disk)
      /\ Base \subseteq Paths
  BY InSession, SandboxAssumption DEF DiskOK
<1>2. disk.tombs \subseteq Paths /\ e.tombs \subseteq Paths
  BY <1>1, DiskTypes
<1>3. \A a \in Above(x) : a \in Paths /\ a \notin disk.tombs /\ disk.host[a] # "file"
  BY AboveHolds DEF LiveDirectories
<1>4. \A a \in Paths : x \in Below(a) => a \in Above(x)
  BY AboveBelow
<1>5. CoversBase(e)
  <2> SUFFICES ASSUME NEW a \in Paths, a \in e.tombs \/ e.host[a] = "file",
                      NEW c \in Below(a), c \in Base
               PROVE  c \in e.tombs
    BY DEF CoversBase
  <2>1. c \in Paths /\ a \in Above(c) /\ c # a
    BY <1>1, AboveBelow
  <2>2. CASE a # x
    <3>1. a \in disk.tombs \/ disk.host[a] = "file"
      BY <2>2 DEF Beside
    <3>2. c \in disk.tombs
      BY <3>1 DEF CoversBase
    <3>3. c # x
      BY <1>3, <1>4, <3>1
    <3> QED
      BY <2>1, <3>2, <3>3 DEF Beside
  <2>3. CASE a = x
    <3> SUFFICES c \in disk.tombs
      BY <2>1, <2>3 DEF Beside
    <3>1. CASE x \in disk.tombs \/ disk.host[x] = "file"
      BY <2>3, <3>1 DEF CoversBase
    <3>2. CASE ~(x \in disk.tombs \/ disk.host[x] = "file")
      <4>1. disk.host[x] # "dir"
        BY <2>3, <3>2
      <4>2. disk.host[c] = "none"
        BY <1>1, <2>1, <2>3, <4>1 DEF Rooted
      <4>3. names[c] = None
        BY <1>1, <2>1, <2>3, AboveNamed
      <4> QED
        BY <4>2, <4>3 DEF BaseSeen
    <3> QED
      BY <3>1, <3>2
  <2> QED
    BY <2>2, <2>3
<1>6. ASSUME CoversHost(disk) PROVE CoversHost(e)
  <2> SUFFICES ASSUME NEW a \in e.tombs, NEW c \in Below(a), e.host[c] # "none"
               PROVE  c \in e.tombs
    BY DEF CoversHost
  <2>1. a \in Paths /\ a \in disk.tombs
    BY <1>2 DEF Beside
  <2>2. c \in Paths /\ a \in Above(c)
    BY <2>1, AboveBelow
  <2>3. c # x
    BY <1>3, <2>1, <2>2
  <2>4. c \notin Above(x)
    BY <1>3, <2>1, <2>2, AboveTransitive
  <2>5. disk.host[c] # "none"
    BY <2>2, <2>3, <2>4 DEF Beside
  <2>6. c \in disk.tombs
    BY <1>6, <2>1, <2>5 DEF CoversHost
  <2> QED
    BY <2>2, <2>3, <2>6 DEF Beside
<1> QED
  BY <1>5, <1>6

\* A tombstone that is new on the host, with a live directory that the index does
\* not know below it.
Overlooks(e) ==
  \E a \in e.tombs \ disk.tombs, c \in Paths :
     c \in Below(a) /\ disk.host[c] = "dir" /\ entries[c] = "none"

\* Something is deleted, on the session's host or on `d` with a rename's target.
LEMMA EraseCovers ==
  ASSUME SInv, up, LiveDirectories, BaseSeen, CoversBase(disk),
         NEW x \in Paths, names[x] # None \/ IsEmptyDirectory(x), CanErase(x),
         NEW d \in Disks, CoversBase(d),
         \A c \in Below(x) : d.host[c] = disk.host[c],
         \A c \in Below(x) \cup {x} : c \in d.tombs <=> c \in disk.tombs,
         \A a \in Above(x) : a \notin d.tombs,
         NEW e \in Disks, Beside(d, e, x),
         x \in e.tombs, e.host[x] = "file" => d.host[x] = "file"
  PROVE  /\ CoversBase(e)
         /\ CoversHost(d) /\ ~Overlooks(e) => CoversHost(e)
<1>1. /\ TypeOK /\ DiskOK(disk) /\ StoreOK(disk, entries, stored, used)
      /\ disk \in Disks /\ Base \subseteq Paths
  BY InSession, SandboxAssumption
<1>2. disk.tombs \subseteq Paths /\ e.tombs \subseteq Paths /\ d.tombs \subseteq Paths
      /\ disk.host \in [Paths -> {"none", "file", "dir"}]
  BY <1>1, DiskTypes
<1>3. x \notin disk.tombs => \A c \in Below(x) : entries[c] \notin {"file", "dir"}
  <2>1. entries[x] = "tombstone" <=> x \in disk.tombs
    BY <1>1, EntriesSay
  <2> QED
    BY <2>1 DEF CanErase, LiveDescendant
<1>4. CoversBase(e)
  <2> SUFFICES ASSUME NEW a \in Paths, a \in e.tombs \/ e.host[a] = "file",
                      NEW c \in Below(a), c \in Base
               PROVE  c \in e.tombs
    BY DEF CoversBase
  <2>1. c \in Paths /\ a \in Above(c) /\ c # a
    BY <1>1, AboveBelow
  <2> SUFFICES ASSUME c # x PROVE c \in d.tombs
    BY <2>1 DEF Beside
  <2>2. CASE a # x
    BY <2>2 DEF Beside, CoversBase
  <2>3. CASE a = x /\ x \in disk.tombs
    BY <2>3 DEF CoversBase
  <2>4. CASE a = x /\ x \notin disk.tombs
    <3>1. disk.host[c] # "file"
      BY <1>1, <1>3, <2>1, <2>4, EntriesSay
    <3>2. names[c] = None
      <4>1. CASE names[x] # None
        <5>1. x \notin Directories
          BY <4>1 DEF LiveDirectories
        <5> QED
          BY <1>1, <2>1, <2>4, <5>1, AboveNamed
      <4>2. CASE IsEmptyDirectory(x)
        BY <2>4, <4>2 DEF IsEmptyDirectory
      <4> QED
        BY <4>1, <4>2
    <3> QED
      BY <2>4, <3>1, <3>2 DEF BaseSeen
  <2> QED
    BY <2>2, <2>3, <2>4
<1>5. ASSUME CoversHost(d), ~Overlooks(e) PROVE CoversHost(e)
  <2> SUFFICES ASSUME NEW a \in e.tombs, NEW c \in Below(a), e.host[c] # "none", c # x
               PROVE  c \in d.tombs
    <3>1. \A a \in e.tombs : \A c \in Below(a) : c \in Paths
      BY <1>2, AboveBelow
    <3> QED
      BY <3>1 DEF CoversHost, Beside
  <2>1. a \in Paths /\ c \in Paths /\ a \in Above(c)
    BY <1>2, AboveBelow
  <2>2. CASE a # x
    <3>1. a \in d.tombs
      BY <2>1, <2>2 DEF Beside
    <3>2. c \notin Above(x)
      BY <2>1, <3>1, AboveTransitive
    <3>3. d.host[c] # "none"
      BY <2>1, <3>2 DEF Beside
    <3> QED
      BY <1>5, <3>1, <3>3 DEF CoversHost
  <2>3. CASE a = x
    <3>1. c \notin Above(x)
      BY <2>1, <2>3, AboveBelow
    <3>2. d.host[c] # "none" /\ d.host[c] = disk.host[c]
      BY <2>1, <2>3, <3>1 DEF Beside
    <3>3. CASE x \in disk.tombs
      BY <1>5, <2>3, <3>2, <3>3 DEF CoversHost
    <3>4. CASE x \notin disk.tombs
      <4>1. entries[c] \notin {"file", "dir"}
        BY <1>3, <2>3, <3>4
      <4>2. ~(disk.host[c] = "dir" /\ entries[c] = "none")
        BY <1>5, <2>1, <2>3, <3>4 DEF Overlooks
      <4>3. c \in disk.tombs
        BY <1>1, <1>2, <2>1, <3>2, <4>1, <4>2 DEF StoreOK, Indexes
      <4> QED
        BY <2>3, <4>3
    <3> QED
      BY <3>3, <3>4
  <2> QED
    BY <2>2, <2>3
<1> QED
  BY <1>4, <1>5

\* What holds of each host a crash could leave, or an operation leaves.
Covered(e) ==
  /\ \A c \in Base : e.host[c] # "dir"
  /\ ~resurfaces => CoversBase(e)
  /\ ~resurfaces /\ ~overlooked /\ ~Overlooks(e) => CoversHost(e)

LEMMA PlaceCovered ==
  ASSUME SInv, BaseIsFile, ShadowInv, up,
         NEW x \in Paths, Above(x) \subseteq Directories, names[x] # None \/ x \notin Directories,
         NEW e \in Disks, Beside(disk, e, x),
         x \in e.tombs => x \in disk.tombs, e.host[x] = "file" => disk.host[x] # "dir",
         e.host[x] = "dir" => x \notin Base \/ disk.host[x] = "dir"
  PROVE  Covered(e)
<1>1. \A c \in Base : e.host[c] # "dir"
  <2> SUFFICES ASSUME NEW c \in Base, e.host[c] = "dir" PROVE FALSE
    OBVIOUS
  <2>1. c \in Paths /\ disk.host[c] # "dir" /\ c \notin Directories
    BY SandboxAssumption DEF BaseIsFile
  <2> QED
    BY <2>1 DEF Beside
<1>2. ASSUME ~resurfaces
      PROVE  CoversBase(e) /\ (CoversHost(disk) => CoversHost(e))
  <2>1. LiveDirectories /\ BaseSeen /\ CoversBase(disk)
    BY <1>2 DEF ShadowInv
  <2>2. x \notin Directories
    BY <2>1 DEF LiveDirectories
  <2> QED
    BY <2>1, <2>2, PlaceCovers
<1> QED
  BY <1>1, <1>2 DEF Covered, ShadowInv

LEMMA EraseCovered ==
  ASSUME SInv, BaseIsFile, ShadowInv, up,
         NEW x \in Paths, names[x] # None \/ IsEmptyDirectory(x), CanErase(x),
         NEW d \in Disks, \A c \in Base : d.host[c] # "dir",
         ~resurfaces => CoversBase(d),
         ~resurfaces /\ ~overlooked => CoversHost(d),
         \A c \in Below(x) : d.host[c] = disk.host[c],
         \A c \in Below(x) \cup {x} : c \in d.tombs <=> c \in disk.tombs,
         \A a \in Above(x) : a \in d.tombs => a \in disk.tombs,
         NEW e \in Disks, Beside(d, e, x),
         x \in e.tombs, e.host[x] = "none" \/ e.host[x] = d.host[x]
  PROVE  Covered(e)
<1>0. TypeOK /\ Base \subseteq Paths /\ Above(x) \subseteq Paths
  BY InSession, SandboxAssumption, AboveHolds
<1>1. Above(x) \subseteq Directories
  BY <1>0, AboveNamed DEF IsEmptyDirectory
<1>2. \A c \in Base : e.host[c] # "dir"
  <2> SUFFICES ASSUME NEW c \in Base, e.host[c] = "dir" PROVE FALSE
    OBVIOUS
  <2>1. c \in Paths /\ d.host[c] # "dir" /\ c \notin Directories
    BY <1>0 DEF BaseIsFile
  <2> QED
    BY <1>1, <2>1 DEF Beside
<1>3. ASSUME ~resurfaces
      PROVE  CoversBase(e) /\ (CoversHost(d) /\ ~Overlooks(e) => CoversHost(e))
  <2>1. LiveDirectories /\ BaseSeen /\ CoversBase(disk) /\ CoversBase(d)
    BY <1>3 DEF ShadowInv
  <2>2. \A a \in Above(x) : a \notin d.tombs
    BY <1>0, <1>1, <2>1 DEF LiveDirectories
  <2>3. e.host[x] = "file" => d.host[x] = "file"
    OBVIOUS
  <2> QED
    BY <2>1, <2>2, <2>3, EraseCovers
<1> QED
  BY <1>2, <1>3 DEF Covered

\* The saved node, or the target of a rename.
LEMMA WriteCovered ==
  ASSUME SInv, BaseIsFile, ShadowInv, up, NEW x \in Paths, NEW n \in Sizes, CanWrite(x, n),
         Above(x) \subseteq Directories, names[x] # None \/ x \notin Directories,
         NEW e \in ToSet(WriteTrail(disk, x, n))
  PROVE  Covered(e)
<1>1. e \in Disks /\ Beside(disk, e, x) /\ (Same(disk, e, x) \/ Written(disk, e, x, n))
  BY WriteKeeps
<1>2. disk.host[x] # "dir"
  BY DEF CanWrite
<1> QED
  BY <1>1, <1>2, PlaceCovered DEF Same, Written

LEMMA CrashPointsCover ==
  ASSUME ~Careless, SInv, BaseIsFile, ShadowInv, up, NEW e \in CrashPoints
  PROVE  Covered(e)
<1>1. TypeOK /\ disk \in Disks /\ NodeInv
  BY InSession
<1>2. CASE e = disk
  BY <1>2 DEF Covered, BaseIsFile, ShadowInv
<1>3. ASSUME NEW n \in Nodes, Unsaved(n), CanSave(n), e \in ToSet(WriteTrail(disk, overlay[n], size[n]))
      PROVE  Covered(e)
  <2> DEFINE x == overlay[n]
  <2>1. x \in Paths /\ size[n] \in Sizes /\ CanWrite(x, size[n]) /\ names[x] = n /\ n # None
    BY <1>1, <1>3, SandboxAssumption DEF Unsaved, CanSave, TypeOK, NodeInv
  <2>2. Above(x) \subseteq Directories
    BY <1>1, <2>1, AboveNamed
  <2> QED
    BY <1>3, <2>1, <2>2, WriteCovered
<1>4. ASSUME NEW p \in Paths, CanMakeDirectory(p), e \in ToSet(DirectoryTrail(disk, p))
      PROVE  Covered(e)
  <2>1. e \in Disks /\ Beside(disk, e, p) /\ Made(disk, e, p)
    BY <1>4, MakeKeeps
  <2>2. Above(p) \subseteq Directories /\ p \notin Directories /\ p \notin Base
    BY <1>1, <1>4, InDirectory DEF CanMakeDirectory, IsDirectory
  <2> QED
    BY <2>1, <2>2, PlaceCovered DEF Made
<1>5. ASSUME NEW p \in Paths, names[p] # None \/ IsEmptyDirectory(p), CanErase(p),
             e \in ToSet(TombstoneTrail(disk, p))
      PROVE  Covered(e)
  <2>1. e \in Disks /\ Beside(disk, e, p) /\ (Marked(disk, e, p) \/ Removed(e, p))
    BY <1>5, EraseStates
  <2>2. /\ \A c \in Base : disk.host[c] # "dir"
        /\ ~resurfaces => CoversBase(disk)
        /\ ~resurfaces /\ ~overlooked => CoversHost(disk)
    BY DEF BaseIsFile, ShadowInv
  <2>3. p \in e.tombs /\ (e.host[p] = "none" \/ e.host[p] = disk.host[p])
    BY <2>1 DEF Marked, Removed
  <2> QED
    BY <1>1, <1>5, <2>1, <2>2, <2>3, EraseCovered
<1>6. ASSUME NEW p \in Paths, NEW q \in Paths, CanRename(p, q), CanWrite(q, size[names[p]])
      PROVE  /\ e \in ToSet(WriteTrail(disk, q, size[names[p]])) => Covered(e)
             /\ CanLeave(p, q) /\ e \in ToSet(TombstoneTrail(Last(WriteTrail(disk, q, size[names[p]])), p)) => Covered(e)
  <2> DEFINE s == size[names[p]]
             w == Last(WriteTrail(disk, q, s))
  <2>1. s \in Sizes /\ names[p] # None /\ p # q /\ q \notin Directories
    BY <1>1, <1>6 DEF CanRename, TypeOK, IsDirectory
  <2>2. Above(q) \subseteq Directories /\ q \notin Above(p)
    BY <1>6, RenameApart
  <2>3. CanWrite(q, s)
    BY <1>6
  <2> HIDE DEF s
  <2>4. \A x \in ToSet(WriteTrail(disk, q, s)) : Covered(x)
    BY <2>1, <2>2, <2>3, WriteCovered
  <2>5. w = Last(WriteTrail(disk, q, s))
    OBVIOUS
  <2> HIDE DEF w
  <2>6. ASSUME CanLeave(p, q), e \in ToSet(TombstoneTrail(w, p)) PROVE Covered(e)
    <3>1. /\ w \in Disks /\ Beside(disk, w, q) /\ q \notin w.tombs
          /\ w \in ToSet(WriteTrail(disk, q, s)) /\ Written(disk, w, q, s)
      BY <1>6, <2>1, <2>3, <2>5, <2>6, LeaveStates
    <3>2. e \in Disks /\ Beside(w, e, p) /\ (Marked(w, e, p) \/ Removed(e, p))
      BY <1>6, <2>1, <2>3, <2>5, <2>6, LeaveStates
    <3>3. Covered(w) /\ w.tombs \subseteq Paths
      BY <2>4, <3>1, DiskTypes
    <3>4. ~Overlooks(w)
      BY <3>1, <3>3 DEF Overlooks, Beside
    <3>5. q \notin Below(p) /\ CanErase(p)
      BY <2>6 DEF CanLeave
    <3>6. Above(p) \subseteq Paths /\ Below(p) \subseteq Paths /\ \A c \in Below(p) : p \in Above(c)
      BY AboveHolds, AboveBelow
    <3>7. \A c \in Below(p) : c # q /\ c \notin Above(q)
      BY <3>5, <3>6, AboveTransitive, AboveBelow
    <3>8. /\ \A c \in Below(p) : w.host[c] = disk.host[c]
          /\ \A c \in Below(p) \cup {p} : c \in w.tombs <=> c \in disk.tombs
          /\ \A a \in Above(p) : a \in w.tombs => a \in disk.tombs
      BY <2>1, <3>1, <3>6, <3>7 DEF Beside
    <3>9. /\ \A c \in Base : w.host[c] # "dir"
          /\ ~resurfaces => CoversBase(w)
          /\ ~resurfaces /\ ~overlooked => CoversHost(w)
      BY <3>3, <3>4 DEF Covered
    <3>10. p \in e.tombs /\ (e.host[p] = "none" \/ e.host[p] = w.host[p])
      BY <3>2 DEF Marked, Removed
    <3> QED
      BY <2>1, <3>1, <3>2, <3>5, <3>8, <3>9, <3>10, EraseCovered
  <2> QED
    BY <2>4, <2>6 DEF w, s
<1> QED
  BY <1>2, <1>3, <1>4, <1>5, <1>6, CrashCases

\* Away from the paths of X the host only gets directories, and no file's place.
Around(d, e, X) ==
  \A a \in Paths \ X :
    /\ a \in e.tombs <=> a \in d.tombs
    /\ e.host[a] = d.host[a] \/ (e.host[a] = "dir" /\ d.host[a] # "file")

LEMMA AroundBeside ==
  ASSUME NEW d, NEW e, NEW x \in Paths, Beside(d, e, x), \A a \in Above(x) : d.host[a] # "file"
  PROVE  Around(d, e, {x})
BY DEF Around, Beside

LEMMA AroundTwice ==
  ASSUME NEW d, NEW w, NEW e, NEW X, NEW Y, Around(d, w, X), Around(w, e, Y)
  PROVE  Around(d, e, X \cup Y)
BY DEF Around

LEMMA DirectoriesMove ==
  ASSUME TypeOK', NEW Y, dirs' \subseteq Directories \cup Y,
         \A c \in Paths : c \in dirs' \/ names'[c] # None => Above(c) \subseteq Directories
  PROVE  Directories' \subseteq Directories \cup Y
<1>1. dirs' \subseteq Paths
  BY DEF TypeOK
<1>2. Top \in Directories
  BY DEF Directories
<1>3. \A a : a \in Directories' =>
            \/ a = Top
            \/ a \in dirs'
            \/ \E c \in Paths : a \in Above(c) /\ (c \in dirs' \/ names'[c] # None)
  BY <1>1 DEF Directories
<1> QED
  BY <1>2, <1>3

\* A step of a session that changes names, directories and the host at X, and adds
\* the directories Y.
LEMMA SessionCovers ==
  ASSUME ~Careless, SInv, BaseIsFile, ShadowInv, up, up', TypeOK', disk' \in CrashPoints,
         resurfaces => resurfaces', overlooked \/ Overlooks(disk') => overlooked',
         NEW X, NEW Y, Y \cap Base = {}, Y \subseteq X, Around(disk, disk', X),
         \A a \in Paths \ X : names'[a] = names[a],
         dirs' \subseteq dirs \cup Y,
         \A c \in Paths : c \in dirs' \/ names'[c] # None => Above(c) \subseteq Directories,
         \A a \in X \cap dirs' : disk'.host[a] = "dir" /\ names'[a] = None,
         ~resurfaces' =>
           /\ \A a \in X \cap (Directories \cup Y) :
                a \in Directories' => a \notin disk'.tombs /\ names'[a] = None /\ disk'.host[a] # "file"
           /\ \A c \in X \cap Base : c \notin disk'.tombs /\ disk'.host[c] # "file" => names'[c] # None
  PROVE  BaseIsFile' /\ ShadowInv'
<1>1. Covered(disk')
  BY CrashPointsCover
<1>2. TypeOK /\ dirs \subseteq Directories /\ Base \subseteq Paths /\ dirs \subseteq Paths
  BY InSession, SandboxAssumption DEF Directories, TypeOK
<1>3. Directories' \subseteq Directories \cup Y
  BY <1>2, DirectoriesMove
<1>4. BaseIsFile'
  <2>1. \A c \in Base : disk'.host[c] # "dir"
    BY <1>1 DEF Covered
  <2>2. Directories' \cap Base = {}
    BY <1>3 DEF BaseIsFile
  <2>3. ASSUME NEW a \in dirs' PROVE disk'.host[a] = "dir" /\ names'[a] = None
    <3>1. CASE a \in X
      BY <3>1
    <3>2. CASE a \notin X
      <4>1. a \in dirs /\ a \in Paths
        BY <1>2, <3>2
      <4> QED
        BY <3>2, <4>1 DEF Around, BaseIsFile
    <3> QED
      BY <3>1, <3>2
  <2> QED
    BY <2>1, <2>2, <2>3 DEF BaseIsFile
<1>5. ASSUME ~resurfaces' PROVE CoversBase(disk') /\ LiveDirectories' /\ BaseSeen'
  <2>1. ~resurfaces /\ LiveDirectories /\ BaseSeen
    BY <1>5 DEF ShadowInv
  <2>2. CoversBase(disk')
    BY <1>1, <2>1 DEF Covered
  <2>3. ASSUME NEW a \in Directories' \cap Paths
        PROVE  a \notin disk'.tombs /\ names'[a] = None /\ disk'.host[a] # "file"
    <3>1. CASE a \in X
      BY <1>3, <1>5, <3>1
    <3>2. CASE a \notin X
      <4>1. a \in Directories
        BY <1>3, <3>2
      <4> QED
        BY <2>1, <3>2, <4>1 DEF LiveDirectories, Around
    <3> QED
      BY <3>1, <3>2
  <2>4. ASSUME NEW c \in Base, c \notin disk'.tombs, disk'.host[c] # "file" PROVE names'[c] # None
    <3>1. CASE c \in X
      BY <1>5, <2>4, <3>1
    <3>2. CASE c \notin X
      BY <1>2, <2>1, <2>4, <3>2 DEF Around, BaseSeen
    <3> QED
      BY <3>1, <3>2
  <2> QED
    BY <2>2, <2>3, <2>4 DEF LiveDirectories, BaseSeen
<1>6. ASSUME ~resurfaces', ~overlooked' PROVE CoversHost(disk')
  BY <1>1, <1>6 DEF Covered
<1>7. ShadowInv'
  BY <1>5, <1>6 DEF ShadowInv, CoversBase, CoversHost
<1> QED
  BY <1>4, <1>7

\* A step that changes none of it.
LEMMA QuietCovers ==
  ASSUME ~Careless, SInv, BaseIsFile, ShadowInv, up, up', TypeOK',
         UNCHANGED <<disk, names, dirs, resurfaces, overlooked>>
  PROVE  BaseIsFile' /\ ShadowInv'
<1>1. TypeOK /\ disk' \in CrashPoints
  BY InSession, CrashCases
<1>2. Around(disk, disk', {}) /\ ~Overlooks(disk')
  BY DEF Around, Overlooks
<1>3. \A c \in Paths : c \in dirs' \/ names'[c] # None => Above(c) \subseteq Directories
  BY <1>1, AboveNamed
<1> QED
  BY <1>1, <1>2, <1>3, SessionCovers

LEMMA CreateFileCovers ==
  ASSUME ~Careless, SInv, BaseIsFile, ShadowInv, NEW p \in Paths, CreateFile(p)
  PROVE  BaseIsFile' /\ ShadowInv'
<1>1. /\ up /\ up' /\ UNCHANGED <<disk, dirs, resurfaces, overlooked>>
      /\ ~IsDirectory(p) /\ IsDirectory(Parent[p])
      /\ names' = [names EXCEPT ![p] = Min(Free)]
  BY DEF CreateFile, auxVars
<1>2. SInv' /\ Min(Free) \in Nodes
  BY CreateFileKeeps
<1>3. /\ TypeOK /\ TypeOK' /\ names \in [Paths -> Nodes \cup {None}] /\ None \notin Nodes
      /\ disk' \in CrashPoints /\ dirs \subseteq Directories
  BY <1>1, <1>2, InSession, CrashCases DEF SInv, TypeOK, Directories
<1>4. names'[p] # None /\ \A a \in Paths \ {p} : names'[a] = names[a]
  BY <1>1, <1>2, <1>3
<1>5. Around(disk, disk', {p}) /\ ~Overlooks(disk')
  BY <1>1 DEF Around, Overlooks
<1>6. \A c \in Paths : c \in dirs' \/ names'[c] # None => Above(c) \subseteq Directories
  BY <1>1, <1>3, <1>4, AboveNamed, InDirectory
<1>7. p \notin Directories /\ p \notin dirs'
  BY <1>1, <1>3 DEF IsDirectory
<1> QED
  <2> DEFINE X == {p}
             Y == {}
  <2>1. X = {p} /\ Y = {}
    OBVIOUS
  <2> HIDE DEF X, Y
  <2>2. Y \cap Base = {} /\ Y \subseteq X /\ Around(disk, disk', X) /\ dirs' \subseteq dirs \cup Y
    BY <1>1, <1>5, <2>1
  <2>3. \A a \in X : a = p
    BY <2>1
  <2>4. /\ \A a \in X \cap dirs' : disk'.host[a] = "dir" /\ names'[a] = None
        /\ X \cap (Directories \cup Y) = {}
        /\ \A c \in X \cap Base : names'[c] # None
        /\ \A a \in Paths \ X : names'[a] = names[a]
    BY <1>4, <1>7, <2>1
  <2> QED
    BY <1>1, <1>3, <1>5, <1>6, <2>2, <2>4, SessionCovers

LEMMA SaveCovers ==
  ASSUME ~Careless, SInv, BaseIsFile, ShadowInv, up, up', NEW n \in Nodes, open' \subseteq open, Save(n)
  PROVE  BaseIsFile' /\ ShadowInv'
<1> DEFINE p == overlay[n]
           X == {p}
           Y == {}
<1>1. /\ UNCHANGED <<names, dirs, resurfaces, overlooked>> /\ Unsaved(n) /\ CanSave(n)
      /\ disk' = Last(WriteTrail(disk, p, size[n]))
  BY DEF Save, auxVars
<1>2. /\ SInv' /\ p \in Paths /\ names[p] = n /\ disk' \in ToSet(WriteTrail(disk, p, size[n]))
  BY SaveKeeps
<1>3. /\ TypeOK /\ TypeOK' /\ size[n] \in Sizes /\ n # None /\ CanWrite(p, size[n])
      /\ disk' \in CrashPoints
  BY <1>1, <1>2, InSession, CrashCases DEF SInv, TypeOK, CanSave
<1>4. X = {p} /\ Y = {}
  OBVIOUS
<1> HIDE DEF p, X, Y
<1>5. Beside(disk, disk', p) /\ \A a \in Above(p) : disk.host[a] # "file"
  BY <1>2, <1>3, WriteKeeps
<1>6. disk'.host[p] = "file" \/ Same(disk, disk', p)
  BY <1>2, <1>3, WriteKeeps DEF Written
<1>7. p \in disk'.tombs => p \in disk.tombs
  BY <1>2, <1>3, WriteKeeps DEF Written, Same
<1>8. ~Overlooks(disk')
  <2>1. disk'.tombs \subseteq Paths
    BY <1>3, DiskTypes DEF TypeOK
  <2> QED
    BY <1>5, <1>7, <2>1 DEF Overlooks, Beside
<1>9. Around(disk, disk', X)
  BY <1>2, <1>4, <1>5, AroundBeside
<1>10. \A c \in Paths : c \in dirs' \/ names'[c] # None => Above(c) \subseteq Directories
  BY <1>1, <1>3, AboveNamed
<1>11. /\ \A a \in X \cap dirs' : disk'.host[a] = "dir" /\ names'[a] = None
       /\ ~resurfaces' =>
           /\ X \cap (Directories \cup Y) = {}
           /\ \A c \in X \cap Base : disk'.host[c] # "file" => names'[c] # None
  BY <1>1, <1>2, <1>3, <1>4 DEF BaseIsFile, ShadowInv, LiveDirectories
<1>12. /\ Y \cap Base = {} /\ Y \subseteq X /\ dirs' \subseteq dirs \cup Y
       /\ \A a \in Paths \ X : names'[a] = names[a]
       /\ resurfaces => resurfaces'
       /\ overlooked \/ Overlooks(disk') => overlooked'
  BY <1>1, <1>4, <1>8
<1> QED
  BY <1>3, <1>9, <1>10, <1>11, <1>12, SessionCovers

LEMMA MakeDirectoryCovers ==
  ASSUME ~Careless, SInv, BaseIsFile, ShadowInv, NEW p \in Paths, MakeDirectory(p)
  PROVE  BaseIsFile' /\ ShadowInv'
<1> DEFINE X == {p}
<1>1. /\ SInv' /\ up /\ up' /\ CanMakeDirectory(p)
      /\ disk' = disk \/ disk' \in ToSet(DirectoryTrail(disk, p))
      /\ disk'.host[p] = "dir" /\ p \notin disk'.tombs
      /\ UNCHANGED <<names, resurfaces, overlooked>> /\ dirs' = dirs \cup {p}
  BY MakeDirectoryKeeps
<1>2. /\ TypeOK /\ TypeOK' /\ disk' \in CrashPoints
      /\ disk' \in Disks /\ disk \in Disks
  BY <1>1, InSession, CrashCases DEF SInv, TypeOK
<1>3. /\ names[p] = None /\ p \notin Directories /\ Above(p) \subseteq Directories /\ p \notin Base
  BY <1>1, <1>2, InDirectory DEF CanMakeDirectory, IsDirectory
<1>4. X = {p}
  OBVIOUS
<1> HIDE DEF X
<1>5. Around(disk, disk', X) /\ ~Overlooks(disk')
  <2>1. CASE disk' = disk
    BY <2>1 DEF Around, Overlooks
  <2>2. CASE disk' \in ToSet(DirectoryTrail(disk, p))
    <3>1. Beside(disk, disk', p) /\ \A a \in Above(p) : disk.host[a] # "file"
      BY <1>1, <2>2, MakeKeeps
    <3>2. disk'.tombs \subseteq Paths
      BY <1>2, DiskTypes
    <3> QED
      BY <1>1, <1>4, <3>1, <3>2, AroundBeside DEF Overlooks, Beside
  <2> QED
    BY <1>1, <2>1, <2>2
<1>6. \A c \in Paths : c \in dirs' \/ names'[c] # None => Above(c) \subseteq Directories
  BY <1>1, <1>2, <1>3, AboveNamed
<1>7. /\ \A a \in X : disk'.host[a] = "dir" /\ names'[a] = None /\ a \notin disk'.tombs /\ disk'.host[a] # "file"
      /\ X \cap Base = {} /\ dirs' \subseteq dirs \cup X
      /\ \A a \in Paths \ X : names'[a] = names[a]
  BY <1>1, <1>3, <1>4
<1> QED
  BY <1>1, <1>2, <1>5, <1>6, <1>7, SessionCovers

\* Both removals: what is deleted is away.
LEMMA EraseLeaves ==
  ASSUME ~Careless, SInv, BaseIsFile, ShadowInv, up, up', TypeOK', NEW p \in Paths,
         names[p] # None \/ IsEmptyDirectory(p), Erase(p), Overlook,
         names'[p] = None, \A a \in Paths \ {p} : names'[a] = names[a],
         dirs' \subseteq dirs \ {p}, resurfaces' = resurfaces,
         ~resurfaces => p \notin Directories'
  PROVE  BaseIsFile' /\ ShadowInv'
<1> DEFINE X == {p}
           Y == {}
<1>1. /\ TypeOK /\ CanErase(p) /\ disk' \in ToSet(TombstoneTrail(disk, p))
      /\ hidden \cup {p} \subseteq disk'.tombs
  BY InSession, EraseDoes DEF Erase
<1>2. disk' \in CrashPoints
  BY <1>1, CrashCases
<1>3. Beside(disk, disk', p) /\ \A a \in Above(p) : disk.host[a] # "file"
  BY <1>1, EraseStates
<1>4. X = {p} /\ Y = {}
  OBVIOUS
<1> HIDE DEF X, Y
<1>5. Around(disk, disk', X)
  BY <1>3, <1>4, AroundBeside
<1>6. overlooked \/ Overlooks(disk') => overlooked'
  BY DEF Overlook, Overlooks
<1>7. \A c \in Paths : c \in dirs' \/ names'[c] # None => Above(c) \subseteq Directories
  BY <1>1, AboveNamed
<1>8. /\ X \cap dirs' = {}
      /\ ~resurfaces' => X \cap Directories' = {}
      /\ \A c \in X : c \in disk'.tombs
  BY <1>1, <1>4
<1>9. /\ Y \cap Base = {} /\ Y \subseteq X /\ dirs' \subseteq dirs \cup Y
      /\ \A a \in Paths \ X : names'[a] = names[a]
      /\ resurfaces => resurfaces'
  BY <1>4
<1> QED
  BY <1>2, <1>5, <1>6, <1>7, <1>8, <1>9, SessionCovers

LEMMA RemoveFileCovers ==
  ASSUME ~Careless, SInv, BaseIsFile, ShadowInv, NEW p \in Paths, RemoveFile(p)
  PROVE  BaseIsFile' /\ ShadowInv'
<1>1. /\ up /\ up' /\ names[p] # None /\ Erase(p) /\ names' = [names EXCEPT ![p] = None]
      /\ dirs' = dirs /\ resurfaces' = resurfaces /\ Overlook
  BY DEF RemoveFile
<1>2. TypeOK /\ TypeOK'
  BY <1>1, InSession, RemoveFileKeeps DEF SInv
<1>3. /\ names'[p] = None /\ \A a \in Paths \ {p} : names'[a] = names[a]
      /\ dirs' \subseteq dirs \ {p}
  BY <1>1, <1>2 DEF TypeOK, BaseIsFile
<1>4. ASSUME ~resurfaces PROVE p \notin Directories'
  <2>1. p \notin Directories
    BY <1>1, <1>4 DEF ShadowInv, LiveDirectories
  <2>2. \A c \in Paths : c \in dirs' \/ names'[c] # None => Above(c) \subseteq Directories
    BY <1>1, <1>2, <1>3, AboveNamed
  <2>3. dirs' \subseteq Directories \cup {}
    BY <1>1 DEF Directories
  <2> QED
    BY <1>2, <2>1, <2>2, <2>3, DirectoriesMove
<1> QED
  BY <1>1, <1>2, <1>3, <1>4, EraseLeaves

LEMMA RemoveDirectoryCovers ==
  ASSUME ~Careless, SInv, BaseIsFile, ShadowInv, NEW p \in Paths, RemoveDirectory(p)
  PROVE  BaseIsFile' /\ ShadowInv'
<1>1. /\ up /\ up' /\ IsEmptyDirectory(p) /\ Erase(p) /\ dirs' = dirs \ {p}
      /\ names' = names /\ resurfaces' = resurfaces /\ Overlook
  BY DEF RemoveDirectory
<1>2. TypeOK /\ TypeOK'
  BY <1>1, InSession, RemoveDirectoryKeeps DEF SInv
<1>3. names'[p] = None /\ \A a \in Paths \ {p} : names'[a] = names[a]
  BY <1>1 DEF IsEmptyDirectory
<1>4. p \notin Directories'
  <2>1. \A c \in Below(p) : names'[c] = None /\ c \notin dirs'
    BY <1>1 DEF IsEmptyDirectory
  <2>2. \A c \in Paths : p \in Above(c) => names'[c] = None /\ c \notin dirs'
    BY <2>1, AboveBelow
  <2>3. p # Top /\ p \notin dirs' /\ dirs' \subseteq Paths
    BY <1>1, <1>2, SandboxAssumption DEF TypeOK
  <2> QED
    BY <2>2, <2>3 DEF Directories
<1> QED
  BY <1>1, <1>2, <1>3, <1>4, EraseLeaves

\* What both renames do: the target is named and no directory, and without the
\* source's removal a base file is back.
LEMMA MoveCovers ==
  ASSUME ~Careless, SInv, BaseIsFile, ShadowInv, up, up', TypeOK', disk' \in CrashPoints,
         NEW p \in Paths, NEW q \in Paths, CanRename(p, q),
         names' = [names EXCEPT ![p] = None, ![q] = names[p]], dirs' = dirs,
         Around(disk, disk', {p, q}),
         resurfaces => resurfaces', overlooked \/ Overlooks(disk') => overlooked',
         p \in disk'.tombs \/ disk'.host[p] = "file" \/ p \notin Base \/ resurfaces'
  PROVE  BaseIsFile' /\ ShadowInv'
<1> DEFINE X == {p, q}
           Y == {}
<1>1. /\ TypeOK /\ names \in [Paths -> Nodes \cup {None}] /\ dirs \subseteq Directories
  BY InSession DEF TypeOK, Directories
<1>2. names[p] # None /\ p # q /\ q \notin Directories /\ Above(q) \subseteq Directories
  BY RenameApart DEF CanRename, IsDirectory
<1>3. /\ names'[p] = None /\ names'[q] # None /\ \A a \in Paths \ {p, q} : names'[a] = names[a]
  BY <1>1, <1>2
<1>4. p \notin dirs /\ q \notin dirs
  BY <1>1, <1>2 DEF BaseIsFile
<1>5. ~resurfaces' => p \notin Directories
  BY <1>2 DEF ShadowInv, LiveDirectories
<1>6. \A c \in Paths : c \in dirs' \/ names'[c] # None => Above(c) \subseteq Directories
  BY <1>1, <1>2, <1>3, AboveNamed
<1>7. X = {p, q} /\ Y = {}
  OBVIOUS
<1> HIDE DEF X, Y
<1>8. /\ X \cap dirs' = {}
      /\ ~resurfaces' => X \cap (Directories \cup Y) = {}
      /\ ~resurfaces' => \A c \in X \cap Base :
                           c \notin disk'.tombs /\ disk'.host[c] # "file" => names'[c] # None
  BY <1>2, <1>3, <1>4, <1>5, <1>7
<1>9. /\ Y \cap Base = {} /\ Y \subseteq X /\ dirs' \subseteq dirs \cup Y
      /\ \A a \in Paths \ X : names'[a] = names[a]
      /\ Around(disk, disk', X)
  BY <1>3, <1>7
<1> QED
  BY <1>6, <1>8, <1>9, SessionCovers

LEMMA RenameUnsavedCovers ==
  ASSUME ~Careless, SInv, BaseIsFile, ShadowInv, NEW p \in Paths, NEW q \in Paths, RenameUnsaved(p, q)
  PROVE  BaseIsFile' /\ ShadowInv'
<1>1. /\ up /\ up' /\ CanRename(p, q) /\ UNCHANGED <<disk, dirs, overlooked>>
      /\ names' = [names EXCEPT ![p] = None, ![q] = names[p]]
      /\ resurfaces' = (resurfaces \/ Resurfaces(p))
  BY DEF RenameUnsaved, Move
<1>2. SInv' /\ disk' \in CrashPoints /\ Around(disk, disk', {p, q}) /\ ~Overlooks(disk')
  BY <1>1, RenameUnsavedKeeps, CrashCases DEF Around, Overlooks
<1>3. disk'.host[p] = "file" \/ p \notin Base \/ resurfaces'
  BY <1>1 DEF Resurfaces
<1> QED
  BY <1>1, <1>2, <1>3, MoveCovers DEF SInv

LEMMA RenameCovers ==
  ASSUME ~Careless, SInv, BaseIsFile, ShadowInv, NEW p \in Paths, NEW q \in Paths, Rename(p, q)
  PROVE  BaseIsFile' /\ ShadowInv'
<1> DEFINE s == size[names[p]]
           w == Last(WriteTrail(disk, q, s))
           left == CanLeave(p, q)
<1>1. /\ up /\ up' /\ CanRename(p, q) /\ CanWrite(q, s)
      /\ names' = [names EXCEPT ![p] = None, ![q] = names[p]] /\ dirs' = dirs
      /\ disk' = IF left THEN Last(TombstoneTrail(w, p)) ELSE w
      /\ resurfaces' = (resurfaces \/ (~left /\ Resurfaces(p)))
      /\ Overlook
  BY DEF Rename, Move
<1>2. SInv' /\ TypeOK /\ disk \in Disks
  BY <1>1, RenameKeeps, InSession
<1>3. s \in Sizes /\ p # q
  BY <1>1, <1>2 DEF TypeOK, CanRename
<1>4. s = size[names[p]] /\ w = Last(WriteTrail(disk, q, s))
  OBVIOUS
<1> HIDE DEF s, left
<1>5. /\ w \in ToSet(WriteTrail(disk, q, s)) /\ w \in Disks /\ Beside(disk, w, q)
      /\ \A a \in Above(q) : disk.host[a] # "file"
  BY <1>1, <1>3, WriteKeeps
<1> HIDE DEF w
<1>6. Around(disk, w, {q})
  BY <1>5, AroundBeside
<1>7. overlooked \/ Overlooks(disk') => overlooked'
  BY <1>1 DEF Overlook, Overlooks
<1>8. CASE left
  <2>1. CanLeave(p, q) /\ disk' = Last(TombstoneTrail(w, p))
    BY <1>1, <1>8 DEF left
  <2>2. /\ \A a \in Above(p) : w.host[a] # "file"
        /\ \A x \in ToSet(TombstoneTrail(w, p)) : Beside(w, x, p) /\ (Marked(w, x, p) \/ Removed(x, p))
    BY <1>1, <1>3, <1>4, <2>1, LeaveStates
  <2>3. disk' \in ToSet(TombstoneTrail(w, p))
    <3>1. Rooted(w) /\ w \in Disks
      BY <1>1, <1>3, <1>4, <2>1, LeaveStates DEF DiskOK
    <3>2. entries[p] = "tombstone" => p \in w.tombs
      <4>1. entries[p] = "tombstone" => p \in disk.tombs
        BY <1>1, InSession, EntriesSay
      <4> QED
        BY <1>3, <1>5, <4>1 DEF Beside
    <3> QED
      BY <2>1, <3>1, <3>2, TombstoneTrailStates
  <2>4. Beside(w, disk', p) /\ p \in disk'.tombs
    BY <2>2, <2>3 DEF Marked, Removed
  <2>5. Around(disk, disk', {q} \cup {p})
    BY <1>6, <2>2, <2>4, AroundBeside, AroundTwice
  <2>6. {q} \cup {p} = {p, q}
    OBVIOUS
  <2>7. disk' \in CrashPoints
    BY <1>1, <1>4, <2>1, <2>3, CrashCases
  <2>8. resurfaces => resurfaces'
    BY <1>1
  <2> QED
    BY <1>1, <1>2, <1>7, <2>4, <2>5, <2>6, <2>7, <2>8, MoveCovers DEF SInv
<1>9. CASE ~left
  <2>1. disk' = w /\ resurfaces' = (resurfaces \/ Resurfaces(p))
    BY <1>1, <1>9
  <2>2. disk' \in CrashPoints
    BY <1>1, <1>4, <1>5, <2>1, CrashCases
  <2>3. Around(disk, disk', {p, q})
    BY <1>6, <2>1 DEF Around
  <2>4. disk.host[p] = "file" => disk'.host[p] = "file"
    BY <1>3, <1>5, <2>1 DEF Beside
  <2>5. disk'.host[p] = "file" \/ p \notin Base \/ resurfaces'
    BY <2>1, <2>4 DEF Resurfaces
  <2>6. resurfaces => resurfaces'
    BY <2>1
  <2> QED
    BY <1>1, <1>2, <1>7, <2>2, <2>3, <2>5, <2>6, MoveCovers DEF SInv
<1> QED
  BY <1>8, <1>9

\* An openable host has nothing live below a tombstone, and a session starts with
\* directories that are live.
LEMMA OpenableCovers ==
  ASSUME DiskOK(disk), Openable(disk)
  PROVE  CoversHost(disk)
<1>1. /\ disk.tombs \subseteq Paths /\ disk.host \in [Paths -> {"none", "file", "dir"}] /\ Rooted(disk)
  BY DiskTypes DEF DiskOK
<1> SUFFICES ASSUME NEW a \in disk.tombs, NEW c \in Below(a), disk.host[c] # "none"
             PROVE  c \in disk.tombs
  BY DEF CoversHost
<1>2. a \in Paths /\ c \in Paths /\ a \in Above(c)
  BY <1>1, AboveBelow
<1>3. disk.host[a] = "dir"
  BY <1>1, <1>2 DEF Rooted
<1> QED
  BY <1>3 DEF Openable

LEMMA AttachCovers ==
  ASSUME SInv, BaseIsFile, ShadowInv, Attach
  PROVE  BaseIsFile' /\ ShadowInv'
<1>1. /\ SInv' /\ up' /\ Openable(disk)
      /\ dirs' = {p \in Paths : disk.host[p] = "dir"} \ disk.tombs
      /\ disk'.host = disk.host /\ disk'.tombs = disk.tombs
      /\ \A p \in Paths :
           names'[p] # None <=> disk.host[p] = "file" \/ (p \in Base /\ p \notin disk.tombs)
      /\ resurfaces' = resurfaces
  BY AttachKeeps
<1>2. /\ DiskOK(disk) /\ Rooted(disk) /\ TypeOK' /\ Base \subseteq Paths
      /\ \A p \in Base : Above(p) \cap Base = {}
      /\ Top \notin Paths
  BY <1>1, SandboxAssumption DEF SInv, DiskOK, Above
<1>3. CoversHost(disk)
  BY <1>1, <1>2, OpenableCovers
<1>4. \A c \in Base : disk.host[c] # "dir"
  BY DEF BaseIsFile
<1>5. ASSUME NEW a \in Directories', a # Top
      PROVE  \/ a \in Paths /\ disk.host[a] = "dir" /\ a \notin disk.tombs
             \/ \E c \in Paths : a \in Above(c) /\ c \notin disk.tombs /\ (disk.host[c] # "none" \/ c \in Base)
  <2>1. \/ a \in dirs'
        \/ \E c \in Paths : a \in Above(c) /\ (c \in dirs' \/ names'[c] # None)
    <3>1. dirs' \subseteq Paths
      BY <1>2 DEF TypeOK
    <3> QED
      BY <1>5, <3>1 DEF Directories
  <2>2. CASE a \in dirs'
    BY <1>1, <2>2
  <2>3. ASSUME NEW c \in Paths, a \in Above(c), c \in dirs' \/ names'[c] # None
        PROVE  c \notin disk.tombs /\ (disk.host[c] # "none" \/ c \in Base)
    BY <1>1, <2>3 DEF Openable, Torn
  <2> QED
    BY <2>1, <2>2, <2>3
<1>6. ASSUME NEW a \in Directories', a # Top
      PROVE  a \in Paths /\ a \notin Base /\ (disk.host[a] = "dir" \/ \E c \in Base : a \in Above(c) /\ c \notin disk.tombs)
  <2>1. CASE a \in Paths /\ disk.host[a] = "dir"
    BY <1>4, <2>1
  <2>2. ASSUME NEW c \in Paths, a \in Above(c), disk.host[c] # "none" PROVE disk.host[a] = "dir" /\ a \in Paths
    BY <1>2, <2>2, AboveHolds DEF Rooted
  <2>3. ASSUME NEW c \in Base, a \in Above(c) PROVE a \in Paths /\ a \notin Base
    BY <1>2, <2>3, AboveHolds
  <2> QED
    BY <1>4, <1>5, <1>6, <2>1, <2>2, <2>3
<1>7. BaseIsFile'
  <2>1. Directories' \cap Base = {}
    BY <1>2, <1>6
  <2>2. \A p \in dirs' : disk'.host[p] = "dir" /\ names'[p] = None
    BY <1>1, <1>4
  <2> QED
    BY <1>1, <1>4, <2>1, <2>2 DEF BaseIsFile
<1>8. ASSUME ~resurfaces PROVE LiveDirectories' /\ BaseSeen' /\ CoversBase(disk')
  <2>1. CoversBase(disk)
    BY <1>8 DEF ShadowInv
  <2>2. ASSUME NEW a \in Directories' \cap Paths
        PROVE  a \notin disk.tombs /\ disk.host[a] # "file"
    <3>1. a # Top /\ a \in Directories'
      BY <1>2
    <3>2. CASE disk.host[a] = "dir" /\ a \notin disk.tombs
      BY <3>2
    <3>3. ASSUME NEW c \in Paths, a \in Above(c), c \notin disk.tombs, disk.host[c] # "none"
          PROVE  disk.host[a] = "dir" /\ a \notin disk.tombs
      BY <1>2, <1>3, <3>3, AboveBelow DEF Rooted, CoversHost
    <3>4. ASSUME NEW c \in Base, a \in Above(c), c \notin disk.tombs
          PROVE  a \notin disk.tombs /\ disk.host[a] # "file"
      BY <1>2, <2>1, <3>4, AboveBelow DEF CoversBase
    <3> QED
      BY <1>5, <3>1, <3>2, <3>3, <3>4
  <2>3. LiveDirectories'
    <3> SUFFICES ASSUME NEW a \in Directories' \cap Paths
                 PROVE  a \notin disk'.tombs /\ names'[a] = None /\ disk'.host[a] # "file"
      BY DEF LiveDirectories
    <3>1. a # Top /\ a \notin Base
      BY <1>2, <1>6
    <3> QED
      BY <1>1, <2>2, <3>1
  <2>4. BaseSeen'
    BY <1>1, <1>2 DEF BaseSeen
  <2>5. CoversBase(disk')
    BY <1>1, <2>1 DEF CoversBase
  <2> QED
    BY <2>3, <2>4, <2>5
<1>9. CoversHost(disk')
  BY <1>1, <1>3 DEF CoversHost
<1> QED
  BY <1>1, <1>7, <1>8, <1>9 DEF ShadowInv, CoversBase, CoversHost

LEMMA CrashCovers ==
  ASSUME ~Careless, SInv, BaseIsFile, ShadowInv, Crash
  PROVE  BaseIsFile' /\ ShadowInv'
<1>1. /\ up /\ ~up' /\ disk' \in CrashPoints /\ Forget /\ resurfaces' = resurfaces /\ Overlook
  BY DEF Crash
<1>2. names' = [p \in Paths |-> None] /\ dirs' = {}
  BY <1>1 DEF Forget
<1>3. Directories' = {Top}
  BY <1>2 DEF Directories
<1>4. Covered(disk')
  BY <1>1, CrashPointsCover
<1>5. overlooked \/ Overlooks(disk') => overlooked'
  BY <1>1 DEF Overlook, Overlooks
<1>6. Top \notin Base
  BY SandboxAssumption
<1>7. BaseIsFile'
  BY <1>2, <1>3, <1>4, <1>6 DEF BaseIsFile, Covered
<1> QED
  BY <1>1, <1>4, <1>5, <1>7 DEF Covered, ShadowInv, CoversBase, CoversHost

LEMMA EmptyCovers ==
  ASSUME disk' = EmptyDisk, ~up', \A p \in Paths : names'[p] = None, dirs' = {}
  PROVE  BaseIsFile' /\ ShadowInv'
<1>1. disk'.tombs = {} /\ \A p \in Paths : disk'.host[p] = "none"
  BY DEF EmptyDisk
<1>2. Directories' = {Top}
  BY DEF Directories
<1>3. BaseIsFile'
  BY <1>1, <1>2, SandboxAssumption DEF BaseIsFile
<1>4. CoversBase(disk') /\ CoversHost(disk')
  BY <1>1 DEF CoversBase, CoversHost
<1> QED
  BY <1>3, <1>4 DEF ShadowInv, CoversBase, CoversHost

LEMMA InitCovers ==
  ASSUME Init
  PROVE  BaseIsFile /\ ShadowInv
<1>1. disk = EmptyDisk /\ ~up /\ names = [p \in Paths |-> None] /\ dirs = {}
  BY DEF Init
<1>2. disk.tombs = {} /\ \A p \in Paths : disk.host[p] = "none"
  BY <1>1 DEF EmptyDisk
<1>3. Directories = {Top}
  BY <1>1 DEF Directories
<1>4. BaseIsFile
  BY <1>1, <1>2, <1>3, SandboxAssumption DEF BaseIsFile
<1>5. CoversBase(disk) /\ CoversHost(disk)
  BY <1>2 DEF CoversBase, CoversHost
<1> QED
  BY <1>1, <1>4, <1>5 DEF ShadowInv

LEMMA NextCInv ==
  ASSUME ~Careless, CInv, [Next]_vars
  PROVE  CInv'
<1>1. SInv /\ BaseIsFile /\ ShadowInv /\ SInv' /\ TypeOK'
  BY NextSInv DEF CInv, SInv
<1> SUFFICES BaseIsFile' /\ ShadowInv'
  BY <1>1 DEF CInv
<1>2. CASE Attach
  BY <1>1, <1>2, AttachCovers
<1>3. CASE Crash
  BY <1>1, <1>3, CrashCovers
<1>4. CASE Clear
  <2>1. disk' = EmptyDisk /\ ~up' /\ names' = names /\ dirs' = dirs /\ ~up
    BY <1>4 DEF Clear
  <2>2. dirs = {} /\ \A p \in Paths : names[p] = None
    BY <1>1, <2>1 DEF SInv, DownInv
  <2> QED
    BY <2>1, <2>2, EmptyCovers
<1>5. CASE UNCHANGED vars
  <2>1. UNCHANGED <<disk, up, names, dirs, resurfaces, overlooked>>
    BY <1>5 DEF vars, auxVars
  <2> QED
    BY <1>1, <2>1 DEF BaseIsFile, ShadowInv, Directories, LiveDirectories, BaseSeen, CoversBase, CoversHost
<1>6. ASSUME NEW p \in Paths
      PROVE  /\ CreateFile(p) => BaseIsFile' /\ ShadowInv'
             /\ OpenFile(p) => BaseIsFile' /\ ShadowInv'
             /\ RemoveFile(p) => BaseIsFile' /\ ShadowInv'
             /\ MakeDirectory(p) => BaseIsFile' /\ ShadowInv'
             /\ RemoveDirectory(p) => BaseIsFile' /\ ShadowInv'
  <2>1. OpenFile(p) => up /\ up' /\ UNCHANGED <<disk, names, dirs, resurfaces, overlooked>>
    BY DEF OpenFile, auxVars
  <2> QED
    BY <1>1, <2>1, QuietCovers, CreateFileCovers, RemoveFileCovers, MakeDirectoryCovers, RemoveDirectoryCovers
<1>7. ASSUME NEW p \in Paths, NEW q \in Paths
      PROVE  /\ Rename(p, q) => BaseIsFile' /\ ShadowInv'
             /\ RenameUnsaved(p, q) => BaseIsFile' /\ ShadowInv'
  BY <1>1, RenameCovers, RenameUnsavedCovers
<1>8. ASSUME NEW n \in Nodes
      PROVE  /\ Flush(n) => BaseIsFile' /\ ShadowInv'
             /\ Close(n) => BaseIsFile' /\ ShadowInv'
             /\ \A s \in Sizes : WriteFile(n, s) => BaseIsFile' /\ ShadowInv'
  <2>1. \A s \in Sizes : WriteFile(n, s) => up /\ up' /\ UNCHANGED <<disk, names, dirs, resurfaces, overlooked>>
    BY DEF WriteFile, auxVars
  <2>2. Flush(n) => up /\ up' /\ open' \subseteq open /\ Save(n)
    BY DEF Flush, Save
  <2>3. Close(n) /\ Save(n) => up /\ up' /\ open' \subseteq open
    BY DEF Close, Save
  <2>4. Close(n) /\ ~Save(n) => up /\ up' /\ UNCHANGED <<disk, names, dirs, resurfaces, overlooked>>
    BY DEF Close, auxVars
  <2> QED
    BY <1>1, <2>1, <2>2, <2>3, <2>4, QuietCovers, SaveCovers
<1> QED
  BY <1>2, <1>3, <1>4, <1>5, <1>6, <1>7, <1>8 DEF Next, GameStep

\* With a game that leaves the directories of the base layer alone, tombstones also
\* hide all that is below them, but for the two cases in which the code lets a
\* name come back.
THEOREM CInvHolds == ~Careless => (Spec => []CInv)
<1> SUFFICES ASSUME ~Careless PROVE Spec => []CInv
  OBVIOUS
<1>1. Init => CInv
  BY InitSInv, InitCovers DEF CInv
<1>2. CInv /\ [Next]_vars => CInv'
  BY NextCInv
<1> QED
  BY <1>1, <1>2, PTL DEF Spec

\* Wherever a session ends, also between two steps of one store operation, the next
\* Open of the store accepts what it finds, unless it is torn, or a rename that
\* could not be saved or a parent directory without an entry came before.
THEOREM NextSessionCanStart == ~Careless => (Spec => []NextSessionStarts)
<1>1. CInv => NextSessionStarts
  BY DEF CInv, ShadowInv, CoversHost, NextSessionStarts, Openable
<1> QED
  BY <1>1, CInvHolds, PTL

-----------------------------------------------------------------------------
(* What the game is promised.                                              *)

\* The content of each file for the running game.
Seen == [p \in Paths |-> IF names[p] = None THEN None ELSE size[names[p]]]

LEMMA ExceptIs ==
  ASSUME NEW S, NEW f, NEW g, f = [s \in S |-> f[s]], g = [s \in S |-> g[s]],
         NEW p \in S, \A s \in S \ {p} : g[s] = f[s]
  PROVE  g = [f EXCEPT ![p] = g[p]]
<1>1. [f EXCEPT ![p] = g[p]] = [s \in S |-> IF s = p THEN g[p] ELSE f[s]]
  OBVIOUS
<1>2. \A s \in S : g[s] = IF s = p THEN g[p] ELSE f[s]
  OBVIOUS
<1> QED
  BY <1>1, <1>2

LEMMA ExceptTwice ==
  ASSUME NEW S, NEW f, NEW g, f = [s \in S |-> f[s]], g = [s \in S |-> g[s]],
         NEW p \in S, NEW q \in S, p # q, \A s \in S \ {p, q} : g[s] = f[s]
  PROVE  g = [f EXCEPT ![p] = g[p], ![q] = g[q]]
<1> DEFINE h == [f EXCEPT ![p] = g[p], ![q] = g[q]]
<1>1. h = [s \in S |-> IF s = q THEN g[q] ELSE IF s = p THEN g[p] ELSE f[s]]
  OBVIOUS
<1>2. \A s \in S : g[s] = h[s]
  BY <1>1
<1> QED
  BY <1>1, <1>2

LEMMA FunctionsSame ==
  ASSUME NEW S, NEW f, NEW g, f = [s \in S |-> f[s]], g = [s \in S |-> g[s]], \A s \in S : f[s] = g[s]
  PROVE  f = g
OBVIOUS

\* What the game and the next session find are functions on the paths.
LEMMA Finds ==
  ASSUME SInv
  PROVE  /\ Seen = [p \in Paths |-> Seen[p]] /\ Durable(disk) = [p \in Paths |-> Durable(disk)[p]]
         /\ \A p \in Paths : Seen[p] = IF names[p] = None THEN None ELSE size[names[p]]
         /\ \A p \in Paths : names[p] # None => names[p] \in Nodes /\ Seen[p] \in Sizes /\ Seen[p] # None
         /\ Durable(disk) \in [Paths -> Sizes \cup {None}]
<1>1. /\ TypeOK /\ disk \in Disks /\ None \notin Sizes /\ BaseSize \in Sizes
  BY SandboxAssumption DEF SInv, DiskOK, BaseSize, Sizes
<1>2. \A p \in Paths : Seen[p] = IF names[p] = None THEN None ELSE size[names[p]]
  BY DEF Seen
<1>3. Seen = [p \in Paths |-> Seen[p]] /\ Durable(disk) = [p \in Paths |-> Durable(disk)[p]]
  BY DEF Seen, Durable
<1>4. \A p \in Paths : names[p] # None => names[p] \in Nodes /\ Seen[p] \in Sizes /\ Seen[p] # None
  BY <1>1, <1>2 DEF TypeOK
<1>5. Durable(disk) \in [Paths -> Sizes \cup {None}]
  BY <1>1, DiskTypes DEF Durable
<1> QED
  BY <1>2, <1>3, <1>4, <1>5

LEMMA FindsNext ==
         /\ Seen' = [p \in Paths |-> Seen'[p]] /\ Durable(disk') = [p \in Paths |-> Durable(disk')[p]]
         /\ \A p \in Paths : Seen'[p] = IF names'[p] = None THEN None ELSE size'[names'[p]]
BY DEF Seen, Durable

\* A step of a session in which the game sees one content change, or none.
LEMMA WriteMaps ==
  ASSUME SInv, up, up', up' = up, disk' = disk, NEW p \in Paths, NEW c \in Sizes, Seen'[p] = c,
         \A q \in Paths \ {p} : Seen'[q] = Seen[q]
  PROVE  Promise!Write(p, c)
<1>1. Seen' = [Seen EXCEPT ![p] = c]
  BY Finds, FindsNext, ExceptIs
<1> QED
  BY <1>1 DEF Promise!Write, Seen

LEMMA QuietMaps ==
  ASSUME SInv, up' = up, \A q \in Paths : Durable(disk')[q] = Durable(disk)[q],
         \A q \in Paths : Seen'[q] = Seen[q]
  PROVE  UNCHANGED Promise!vars
<1>1. Seen' = Seen /\ Durable(disk') = Durable(disk)
  <2> DEFINE s == Seen
             t == Seen'
             d == Durable(disk)
             e == Durable(disk')
  <2>1. /\ s = [p \in Paths |-> s[p]] /\ t = [p \in Paths |-> t[p]] /\ \A p \in Paths : t[p] = s[p]
        /\ d = [p \in Paths |-> d[p]] /\ e = [p \in Paths |-> e[p]] /\ \A p \in Paths : e[p] = d[p]
    BY Finds, FindsNext
  <2> HIDE DEF s, t, d, e
  <2>2. t = s
    BY <2>1, FunctionsSame
  <2>3. e = d
    BY <2>1, FunctionsSame
  <2> QED
    BY <2>2, <2>3 DEF s, t, d, e
<1> QED
  BY <1>1 DEF Promise!vars, Seen

LEMMA CreateFileMaps ==
  ASSUME SInv, NEW p \in Paths, CreateFile(p)
  PROVE  Promise!Write(p, 0)
<1>1. /\ up /\ up' /\ up' = up /\ disk' = disk
      /\ names' = [names EXCEPT ![p] = Min(Free)]
  BY DEF CreateFile
<1>2. /\ Min(Free) \in Nodes /\ size'[Min(Free)] = 0
      /\ \A q \in Paths : names[q] # None => size'[names[q]] = size[names[q]]
  BY CreateFileKeeps
<1>3. names \in [Paths -> Nodes \cup {None}] /\ None \notin Nodes /\ 0 \in Sizes
  BY <1>1, InSession DEF TypeOK
<1>4. names'[p] = Min(Free) /\ \A q \in Paths \ {p} : names'[q] = names[q]
  BY <1>1, <1>3
<1>5. Seen'[p] = 0 /\ \A q \in Paths \ {p} : Seen'[q] = Seen[q]
  BY <1>2, <1>3, <1>4, Finds, FindsNext
<1> QED
  BY <1>1, <1>3, <1>5, WriteMaps

LEMMA OpenFileMaps ==
  ASSUME SInv, NEW p \in Paths, OpenFile(p)
  PROVE  Promise!Write(p, 0) \/ UNCHANGED Promise!vars
<1>1. up /\ up' /\ up' = up /\ disk' = disk /\ names' = names /\ 0 \in Sizes
  BY InSession DEF OpenFile
<1>2. CASE \A q \in Paths : names[q] # None => size'[names[q]] = size[names[q]]
  <2>1. \A q \in Paths : Seen'[q] = Seen[q]
    BY <1>1, <1>2, Finds, FindsNext
  <2> QED
    BY <1>1, <2>1, QuietMaps
<1>3. CASE /\ names[p] # None /\ size'[names[p]] = 0
           /\ \A q \in Paths \ {p} : names[q] # None => size'[names[q]] = size[names[q]]
  <2>1. Seen'[p] = 0 /\ \A q \in Paths \ {p} : Seen'[q] = Seen[q]
    BY <1>1, <1>3, Finds, FindsNext
  <2> QED
    BY <1>1, <2>1, WriteMaps
<1> QED
  BY <1>2, <1>3, OpenFileKeeps

LEMMA WriteFileMaps ==
  ASSUME SInv, NEW n \in Nodes, NEW s \in Sizes, WriteFile(n, s)
  PROVE  (\E p \in Paths : Promise!Write(p, s)) \/ UNCHANGED Promise!vars
<1>1. /\ up /\ up' /\ up' = up /\ disk' = disk /\ names' = names /\ n # None
  BY InSession DEF WriteFile
<1>2. \A p \in Paths : names[p] # None =>
              size'[names[p]] = IF names[p] = n THEN s ELSE size[names[p]]
  BY WriteFileKeeps
<1>3. ASSUME NEW p \in Paths, names[p] = n PROVE Promise!Write(p, s)
  <2>1. \A q \in Paths \ {p} : names[q] # n
    BY <1>1, <1>3, InSession DEF NodeInv
  <2>2. Seen'[p] = s /\ \A q \in Paths \ {p} : Seen'[q] = Seen[q]
    BY <1>1, <1>2, <1>3, <2>1, Finds, FindsNext
  <2> QED
    BY <1>1, <2>2, WriteMaps
<1>4. ASSUME \A p \in Paths : names[p] # n PROVE UNCHANGED Promise!vars
  <2>1. \A q \in Paths : Seen'[q] = Seen[q]
    BY <1>1, <1>2, <1>4, Finds, FindsNext
  <2> QED
    BY <1>1, <2>1, QuietMaps
<1> QED
  BY <1>3, <1>4

\* A step, with `e` left on the host, after which the content of one path is durable.
LEMMA DurableMoves ==
  ASSUME NEW d, NEW e, NEW p \in Paths, \A q \in Paths \ {p} : Durable(e)[q] = Durable(d)[q]
  PROVE  Durable(e) = [Durable(d) EXCEPT ![p] = Durable(e)[p]]
<1>1. Durable(d) = [x \in Paths |-> Durable(d)[x]] /\ Durable(e) = [x \in Paths |-> Durable(e)[x]]
  BY DEF Durable
<1> QED
  BY <1>1, ExceptIs

LEMMA DurableMovesTwo ==
  ASSUME NEW d, NEW e, NEW p \in Paths, NEW q \in Paths, p # q,
         \A x \in Paths \ {p, q} : Durable(e)[x] = Durable(d)[x]
  PROVE  Durable(e) = [Durable(d) EXCEPT ![p] = Durable(e)[p], ![q] = Durable(e)[q]]
<1>1. Durable(d) = [x \in Paths |-> Durable(d)[x]] /\ Durable(e) = [x \in Paths |-> Durable(e)[x]]
  BY DEF Durable
<1> QED
  BY <1>1, ExceptTwice

LEMMA DurableSame ==
  ASSUME NEW d, NEW e, \A q \in Paths : Durable(e)[q] = Durable(d)[q]
  PROVE  Durable(e) = Durable(d)
<1>1. Durable(d) = [x \in Paths |-> Durable(d)[x]] /\ Durable(e) = [x \in Paths |-> Durable(e)[x]]
  BY DEF Durable
<1> QED
  BY <1>1, FunctionsSame

LEMMA SeenSame ==
  ASSUME \A q \in Paths : Seen'[q] = Seen[q]
  PROVE  Seen' = Seen
<1>1. Seen = [x \in Paths |-> Seen[x]] /\ Seen' = [x \in Paths |-> Seen'[x]]
  BY DEF Seen
<1> QED
  BY <1>1, FunctionsSame

LEMMA SaveMaps ==
  ASSUME SInv, up, up', up' = up, NEW n \in Nodes, open' \subseteq open, Save(n)
  PROVE  Promise!Flush(overlay[n])
<1> DEFINE p == overlay[n]
<1>1. /\ p \in Paths /\ names[p] = n /\ names' = names
      /\ \A q \in Paths : names[q] # None => size'[names[q]] = size[names[q]]
      /\ Durable(disk')[p] = size[n]
      /\ \A q \in Paths \ {p} : Durable(disk')[q] = Durable(disk)[q]
  BY SaveKeeps DEF Save
<1> HIDE DEF p
<1>2. n # None
  BY InSession
<1>3. Seen[p] = size[n] /\ Seen[p] # None
  BY <1>1, <1>2, Finds
<1>4. \A q \in Paths : Seen'[q] = Seen[q]
  BY <1>1, Finds, FindsNext
<1>5. Seen' = Seen
  BY <1>4, SeenSame
<1>6. Durable(disk') = [Durable(disk) EXCEPT ![p] = Seen[p]]
  BY <1>1, <1>3, DurableMoves
<1> QED
  BY <1>3, <1>5, <1>6 DEF Promise!Flush, Seen, p

LEMMA MakeDirectoryMaps ==
  ASSUME ~Careless, SInv, NEW p \in Paths, MakeDirectory(p)
  PROVE  UNCHANGED Promise!vars
<1>1. /\ up /\ up' /\ CanMakeDirectory(p)
      /\ disk' = disk \/ disk' \in ToSet(DirectoryTrail(disk, p))
      /\ UNCHANGED <<names, size>> /\ up' = up
  BY MakeDirectoryKeeps DEF MakeDirectory
<1>2. \A q \in Paths : Durable(disk')[q] = Durable(disk)[q]
  <2>1. CASE disk' = disk
    BY <2>1
  <2>2. CASE disk' \in ToSet(DirectoryTrail(disk, p))
    <3>1. /\ disk' \in Disks /\ Beside(disk, disk', p) /\ Made(disk, disk', p)
          /\ disk.host[p] # "file" /\ \A a \in Above(p) : disk.host[a] # "file"
          /\ disk \in Disks /\ p \notin Base
      BY <1>1, <2>2, MakeKeeps, InSession DEF CanMakeDirectory
    <3>2. Durable(disk')[p] = None
      BY <3>1, DurableAt
    <3>3. Durable(disk)[p] = None
      BY <3>1 DEF Durable
    <3>4. \A q \in Paths \ {p} : Durable(disk')[q] = Durable(disk)[q]
      BY <3>1, DurableBeside
    <3> QED
      BY <3>2, <3>3, <3>4
  <2> QED
    BY <1>1, <2>1, <2>2
<1>3. \A q \in Paths : Seen'[q] = Seen[q]
  BY <1>1, Finds, FindsNext
<1> QED
  BY <1>1, <1>2, <1>3, QuietMaps

LEMMA RemoveDirectoryMaps ==
  ASSUME SInv, BaseIsFile, NEW p \in Paths, RemoveDirectory(p)
  PROVE  UNCHANGED Promise!vars
<1>1. /\ up /\ up' = up /\ IsEmptyDirectory(p) /\ Erase(p) /\ UNCHANGED <<names, size>>
  BY DEF RemoveDirectory, nodeVars
<1>2. Durable(disk')[p] = None /\ \A q \in Paths \ {p} : Durable(disk')[q] = Durable(disk)[q]
  BY <1>1, EraseDoes
<1>3. p \in dirs /\ p \in Directories /\ p \notin Base /\ disk.host[p] = "dir"
  BY <1>1 DEF IsEmptyDirectory, Directories, BaseIsFile
<1>4. Durable(disk)[p] = None
  BY <1>3 DEF Durable
<1>5. \A q \in Paths : Seen'[q] = Seen[q]
  BY <1>1, Finds, FindsNext
<1>6. \A q \in Paths : Durable(disk')[q] = Durable(disk)[q]
  BY <1>2, <1>4
<1> QED
  BY <1>1, <1>5, <1>6, QuietMaps

LEMMA RemoveFileMaps ==
  ASSUME SInv, NEW p \in Paths, RemoveFile(p)
  PROVE  Promise!Remove(p)
<1>1. /\ up /\ up' = up /\ names[p] # None /\ Erase(p) /\ names' = [names EXCEPT ![p] = None]
  BY DEF RemoveFile
<1>2. \A q \in Paths \ {p} : names[q] # None => size'[names[q]] = size[names[q]]
  BY RemoveFileKeeps
<1>3. Durable(disk')[p] = None /\ \A q \in Paths \ {p} : Durable(disk')[q] = Durable(disk)[q]
  BY <1>1, EraseDoes
<1>4. names'[p] = None /\ \A q \in Paths \ {p} : names'[q] = names[q]
  BY <1>1, InSession DEF TypeOK
<1>5. Seen'[p] = None /\ \A q \in Paths \ {p} : Seen'[q] = Seen[q]
  BY <1>2, <1>4, Finds, FindsNext
<1>6. Seen' = [Seen EXCEPT ![p] = None]
  BY <1>5, Finds, FindsNext, ExceptIs
<1>7. Durable(disk') = [Durable(disk) EXCEPT ![p] = None]
  BY <1>3, DurableMoves
<1>8. Seen[p] # None
  BY <1>1, Finds
<1> QED
  BY <1>1, <1>6, <1>7, <1>8 DEF Promise!Remove, Seen

\* What a rename does to the names for the running game.
LEMMA MoveMaps ==
  ASSUME SInv, up, up' = up, NEW p \in Paths, NEW q \in Paths, CanRename(p, q),
         names' = [names EXCEPT ![p] = None, ![q] = names[p]],
         size'[names[p]] = size[names[p]],
         \A x \in Paths \ {p, q} : names[x] # None => size'[names[x]] = size[names[x]]
  PROVE  /\ p # q /\ Seen[p] # None /\ Seen[p] = size[names[p]]
         /\ Seen' = [Seen EXCEPT ![p] = None, ![q] = Seen[p]]
<1>1. names[p] # None /\ p # q /\ names \in [Paths -> Nodes \cup {None}]
  BY InSession DEF CanRename, TypeOK
<1>2. names'[p] = None /\ names'[q] = names[p] /\ \A x \in Paths \ {p, q} : names'[x] = names[x]
  BY <1>1
<1>3. Seen'[p] = None /\ Seen'[q] = Seen[p] /\ \A x \in Paths \ {p, q} : Seen'[x] = Seen[x]
  BY <1>1, <1>2, Finds, FindsNext
<1>4. Seen' = [Seen EXCEPT ![p] = None, ![q] = Seen[p]]
  BY <1>1, <1>3, Finds, FindsNext, ExceptTwice
<1> QED
  BY <1>1, <1>4, Finds

LEMMA RenameMaps ==
  ASSUME SInv, NEW p \in Paths, NEW q \in Paths, Rename(p, q)
  PROVE  Promise!Rename(p, q)
<1>1. /\ up /\ CanRename(p, q)
      /\ size'[names[p]] = size[names[p]]
      /\ \A x \in Paths \ {p, q} : names[x] # None => size'[names[x]] = size[names[x]]
      /\ Durable(disk')[q] = size[names[p]]
      /\ Durable(disk')[p] = IF CanLeave(p, q) THEN None ELSE Durable(disk)[p]
      /\ \A x \in Paths \ {p, q} : Durable(disk')[x] = Durable(disk)[x]
  BY RenameKeeps
<1>2. up' = up /\ names' = [names EXCEPT ![p] = None, ![q] = names[p]]
  BY DEF Rename, Move
<1>3. /\ p # q /\ Seen[p] # None /\ Seen[p] = size[names[p]]
      /\ Seen' = [Seen EXCEPT ![p] = None, ![q] = Seen[p]]
  BY <1>1, <1>2, MoveMaps
<1>4. \/ Durable(disk') = [Durable(disk) EXCEPT ![p] = None, ![q] = Seen[p]]
      \/ Durable(disk') = [Durable(disk) EXCEPT ![q] = Seen[p]]
  <2>1. CASE CanLeave(p, q)
    BY <1>1, <1>3, <2>1, DurableMovesTwo
  <2>2. CASE ~CanLeave(p, q)
    <3>1. \A x \in Paths \ {q} : Durable(disk')[x] = Durable(disk)[x]
      BY <1>1, <2>2
    <3> QED
      BY <1>1, <1>3, <3>1, DurableMoves
  <2> QED
    BY <2>1, <2>2
<1> QED
  BY <1>1, <1>2, <1>3, <1>4 DEF Promise!Rename, Seen

LEMMA RenameUnsavedMaps ==
  ASSUME SInv, NEW p \in Paths, NEW q \in Paths, RenameUnsaved(p, q)
  PROVE  Promise!Rename(p, q)
<1>1. /\ up /\ CanRename(p, q) /\ disk' = disk
      /\ size'[names[p]] = size[names[p]]
      /\ \A x \in Paths \ {p, q} : names[x] # None => size'[names[x]] = size[names[x]]
  BY RenameUnsavedKeeps
<1>2. up' = up /\ names' = [names EXCEPT ![p] = None, ![q] = names[p]]
  BY DEF RenameUnsaved, Move
<1>3. /\ p # q /\ Seen[p] # None /\ Seen[p] = size[names[p]]
      /\ Seen' = [Seen EXCEPT ![p] = None, ![q] = Seen[p]]
  BY <1>1, <1>2, MoveMaps
<1> QED
  BY <1>1, <1>2, <1>3 DEF Promise!Rename, Seen

LEMMA AttachMaps ==
  ASSUME SInv, Attach
  PROVE  Promise!Start
<1>1. /\ ~up /\ up'
      /\ \A p \in Paths :
              /\ Durable(disk')[p] = Durable(disk)[p]
              /\ names'[p] = None => Durable(disk)[p] = None
              /\ names'[p] # None => size'[names'[p]] = Durable(disk)[p]
  BY AttachKeeps
<1>2. Durable(disk') = Durable(disk)
  BY <1>1, DurableSame
<1>3. \A p \in Paths : Seen'[p] = Durable(disk)[p]
  BY <1>1, FindsNext
<1>4. Seen' = Durable(disk)
  BY <1>3, Finds, FindsNext, FunctionsSame
<1> QED
  BY <1>1, <1>2, <1>4 DEF Promise!Start, Seen

\* A crash loses at most what an operation under way was about to change: a file
\* deleted, a content saved under its name or a new one, or both.
LEMMA CrashLoses ==
  ASSUME ~Careless, SInv, BaseIsFile, up, NEW e \in CrashPoints
  PROVE  \/ Durable(e) = Durable(disk)
         \/ \E p \in Paths : Durable(e) = [Durable(disk) EXCEPT ![p] = None]
         \/ \E p, q \in Paths : Seen[p] # None /\ Durable(e) = [Durable(disk) EXCEPT ![q] = Seen[p]]
         \/ \E p, q \in Paths :
              Seen[p] # None /\ Durable(e) = [Durable(disk) EXCEPT ![p] = None, ![q] = Seen[p]]
<1> DEFINE Lost == \/ Durable(e) = Durable(disk)
                   \/ \E p \in Paths : Durable(e) = [Durable(disk) EXCEPT ![p] = None]
                   \/ \E p, q \in Paths : Seen[p] # None /\ Durable(e) = [Durable(disk) EXCEPT ![q] = Seen[p]]
                   \/ \E p, q \in Paths :
                        Seen[p] # None /\ Durable(e) = [Durable(disk) EXCEPT ![p] = None, ![q] = Seen[p]]
<1> SUFFICES Lost
  OBVIOUS
<1>1. TypeOK /\ disk \in Disks /\ NodeInv
  BY InSession
<1>2. CASE e = disk
  BY <1>2
<1>3. ASSUME NEW p \in Paths, NEW q \in Paths, names[p] # None, CanWrite(q, size[names[p]]),
             e \in ToSet(WriteTrail(disk, q, size[names[p]]))
      PROVE  Lost
  <2> DEFINE s == size[names[p]]
  <2>1. s \in Sizes /\ Seen[p] = s /\ Seen[p] # None /\ CanWrite(q, s) /\ e \in ToSet(WriteTrail(disk, q, s))
    BY <1>1, <1>3, Finds DEF TypeOK
  <2> HIDE DEF s
  <2>2. /\ e \in Disks /\ Beside(disk, e, q) /\ \A a \in Above(q) : disk.host[a] # "file"
        /\ Same(disk, e, q) \/ Written(disk, e, q, s)
    BY <2>1, WriteKeeps
  <2>3. \A x \in Paths \ {q} : Durable(e)[x] = Durable(disk)[x]
    BY <1>1, <2>2, DurableBeside
  <2>4. CASE Same(disk, e, q)
    <3>1. Durable(e)[q] = Durable(disk)[q]
      BY <1>1, <2>2, <2>4, DurableAt
    <3>2. Durable(e) = Durable(disk)
      BY <2>3, <3>1, DurableSame
    <3> QED
      BY <3>2
  <2>5. CASE Written(disk, e, q, s)
    <3>1. Durable(e)[q] = Seen[p]
      BY <1>1, <2>1, <2>2, <2>5, DurableAt
    <3>2. Durable(e) = [Durable(disk) EXCEPT ![q] = Seen[p]]
      BY <2>3, <3>1, DurableMoves
    <3> QED
      BY <2>1, <3>2
  <2> QED
    BY <2>2, <2>4, <2>5
<1>4. ASSUME NEW n \in Nodes, Unsaved(n), CanSave(n), e \in ToSet(WriteTrail(disk, overlay[n], size[n]))
      PROVE  Lost
  <2>1. overlay[n] \in Paths /\ names[overlay[n]] = n /\ n # None /\ CanWrite(overlay[n], size[n])
    BY <1>1, <1>4, InSession DEF Unsaved, CanSave, TypeOK, NodeInv
  <2> QED
    BY <1>3, <1>4, <2>1
<1>5. ASSUME NEW p \in Paths, CanMakeDirectory(p), e \in ToSet(DirectoryTrail(disk, p))
      PROVE  Lost
  <2>1. /\ e \in Disks /\ Beside(disk, e, p) /\ Made(disk, e, p) /\ p \notin Base
        /\ disk.host[p] # "file" /\ \A a \in Above(p) : disk.host[a] # "file"
    BY <1>5, MakeKeeps DEF CanMakeDirectory
  <2>2. Durable(e)[p] = None /\ Durable(disk)[p] = None
    BY <1>1, <2>1, DurableAt DEF Durable
  <2>3. \A x \in Paths \ {p} : Durable(e)[x] = Durable(disk)[x]
    BY <1>1, <2>1, DurableBeside
  <2>4. Durable(e) = Durable(disk)
    BY <2>2, <2>3, DurableSame
  <2> QED
    BY <2>4
\* The removal of `p` from `d`.
<1>6. ASSUME NEW d \in Disks, NEW p \in Paths, e \in Disks, Beside(d, e, p),
             Marked(d, e, p) \/ Removed(e, p), \A a \in Above(p) : d.host[a] # "file"
      PROVE  /\ Durable(e)[p] = None \/ Durable(e)[p] = Durable(d)[p]
             /\ \A x \in Paths \ {p} : Durable(e)[x] = Durable(d)[x]
  <2>1. Durable(e)[p] = None \/ Durable(e)[p] = Durable(d)[p]
    BY <1>6, DurableAt
  <2> QED
    BY <1>6, <2>1, DurableBeside
<1>7. ASSUME NEW p \in Paths, CanErase(p), e \in ToSet(TombstoneTrail(disk, p))
      PROVE  Lost
  <2>1. /\ e \in Disks /\ Beside(disk, e, p) /\ (Marked(disk, e, p) \/ Removed(e, p))
        /\ \A a \in Above(p) : disk.host[a] # "file"
    BY <1>7, EraseStates
  <2>2. /\ Durable(e)[p] = None \/ Durable(e)[p] = Durable(disk)[p]
        /\ \A x \in Paths \ {p} : Durable(e)[x] = Durable(disk)[x]
    BY <1>1, <1>6, <2>1
  <2>3. CASE Durable(e)[p] = None
    <3>1. Durable(e) = [Durable(disk) EXCEPT ![p] = None]
      BY <2>2, <2>3, DurableMoves
    <3> QED
      BY <3>1
  <2>4. CASE Durable(e)[p] = Durable(disk)[p]
    <3>1. Durable(e) = Durable(disk)
      BY <2>2, <2>4, DurableSame
    <3> QED
      BY <3>1
  <2> QED
    BY <2>2, <2>3, <2>4
<1>8. ASSUME NEW p \in Paths, NEW q \in Paths, CanRename(p, q), CanWrite(q, size[names[p]]), CanLeave(p, q),
             e \in ToSet(TombstoneTrail(Last(WriteTrail(disk, q, size[names[p]])), p))
      PROVE  Lost
  <2> DEFINE s == size[names[p]]
             w == Last(WriteTrail(disk, q, s))
  <2>1. s \in Sizes /\ p # q /\ names[p] # None /\ Seen[p] = s /\ Seen[p] # None
    BY <1>1, <1>8, Finds DEF CanRename, TypeOK
  <2>2. s = size[names[p]] /\ w = Last(WriteTrail(disk, q, s)) /\ e \in ToSet(TombstoneTrail(w, p))
        /\ CanWrite(q, s)
    BY <1>8
  <2> HIDE DEF s, w
  <2>3. /\ w \in Disks /\ Beside(disk, w, q) /\ Written(disk, w, q, s)
        /\ \A a \in Above(p) : w.host[a] # "file"
        /\ e \in Disks /\ Beside(w, e, p) /\ (Marked(w, e, p) \/ Removed(e, p))
    BY <1>8, <2>1, <2>2, LeaveStates
  <2>4. \A a \in Above(q) : disk.host[a] # "file"
    BY <2>1, <2>2, WriteKeeps
  <2>5. Durable(w)[q] = s /\ \A x \in Paths \ {q} : Durable(w)[x] = Durable(disk)[x]
    BY <1>1, <2>3, <2>4, DurableAt, DurableBeside
  <2>6. /\ Durable(e)[p] = None \/ Durable(e)[p] = Durable(w)[p]
        /\ \A x \in Paths \ {p} : Durable(e)[x] = Durable(w)[x]
    BY <1>6, <2>3
  <2>7. Durable(e)[q] = Seen[p] /\ \A x \in Paths \ {p, q} : Durable(e)[x] = Durable(disk)[x]
    BY <2>1, <2>5, <2>6
  <2>8. CASE Durable(e)[p] = None
    <3>1. Durable(e) = [Durable(disk) EXCEPT ![p] = None, ![q] = Seen[p]]
      <4>1. Durable(e) = [Durable(disk) EXCEPT ![p] = Durable(e)[p], ![q] = Durable(e)[q]]
        BY <2>1, <2>7, DurableMovesTwo
      <4> QED
        BY <2>7, <2>8, <4>1
    <3> QED
      BY <2>1, <3>1
  <2>9. CASE Durable(e)[p] = Durable(w)[p]
    <3>1. \A x \in Paths \ {q} : Durable(e)[x] = Durable(disk)[x]
      BY <2>1, <2>5, <2>7, <2>9
    <3>2. Durable(e) = [Durable(disk) EXCEPT ![q] = Seen[p]]
      BY <2>7, <3>1, DurableMoves
    <3> QED
      BY <2>1, <3>2
  <2> QED
    BY <2>6, <2>8, <2>9
<1> HIDE DEF Lost
<1>9. ASSUME NEW p \in Paths, NEW q \in Paths, CanRename(p, q) PROVE names[p] # None
  BY <1>9 DEF CanRename
<1> QED
  BY <1>2, <1>3, <1>4, <1>5, <1>7, <1>8, <1>9, CrashCases

LEMMA NoneSeen ==
  ASSUME \A p \in Paths : names'[p] = None
  PROVE  Seen' = [p \in Paths |-> None]
BY DEF Seen

LEMMA CrashMaps ==
  ASSUME ~Careless, SInv, BaseIsFile, Crash
  PROVE  Promise!Stop
<1>1. up /\ ~up' /\ disk' \in CrashPoints /\ Seen' = [p \in Paths |-> None]
  BY CrashKeeps, NoneSeen DEF Crash
<1>2. \/ Durable(disk') = Durable(disk)
      \/ \E p \in Paths : Durable(disk') = [Durable(disk) EXCEPT ![p] = None]
      \/ \E p, q \in Paths : Seen[p] # None /\ Durable(disk') = [Durable(disk) EXCEPT ![q] = Seen[p]]
      \/ \E p, q \in Paths :
           Seen[p] # None /\ Durable(disk') = [Durable(disk) EXCEPT ![p] = None, ![q] = Seen[p]]
  BY <1>1, CrashLoses
<1> QED
  BY <1>1, <1>2 DEF Promise!Stop, Promise!Nothing, Seen

LEMMA ClearMaps ==
  ASSUME SInv, SInv', Clear
  PROVE  Promise!Clear
<1>1. ~up /\ up' = up /\ names' = names /\ size' = size
  BY DEF Clear, nodeVars
<1>2. Seen' = Seen
  BY <1>1 DEF Seen
<1>3. Durable(disk') \in [Paths -> Sizes \cup {None}]
  <2>1. disk' \in Disks /\ BaseSize \in Sizes
    BY SandboxAssumption DEF SInv, DiskOK, BaseSize, Sizes
  <2> QED
    BY <2>1, DiskTypes DEF Durable
<1> QED
  BY <1>1, <1>2, <1>3 DEF Promise!Clear, Seen

LEMMA InitMaps ==
  ASSUME Init
  PROVE  Promise!Init
<1>1. SInv /\ ~up /\ names = [p \in Paths |-> None]
  BY InitSInv DEF Init
<1>2. Seen = [p \in Paths |-> None]
  BY <1>1 DEF Seen
<1>3. Durable(disk) \in [Paths -> Sizes \cup {None}]
  BY <1>1, Finds
<1> QED
  BY <1>1, <1>2, <1>3 DEF Promise!Init, Promise!Nothing, Seen

LEMMA NextMaps ==
  ASSUME ~Careless, CInv, CInv', [Next]_vars
  PROVE  [Promise!Next]_(Promise!vars)
<1>1. SInv /\ BaseIsFile /\ SInv'
  BY DEF CInv
<1> DEFINE Maps == Promise!Next \/ UNCHANGED Promise!vars
<1>2. CASE Attach
  BY <1>1, <1>2, AttachMaps DEF Promise!Next
<1>3. CASE Crash
  BY <1>1, <1>3, CrashMaps DEF Promise!Next
<1>4. CASE Clear
  BY <1>1, <1>4, ClearMaps DEF Promise!Next
<1>5. CASE UNCHANGED vars
  BY <1>5 DEF vars, nodeVars, Promise!vars, Durable
<1>6. 0 \in Sizes
  BY SandboxAssumption DEF Sizes
<1>7. ASSUME NEW p \in Paths
      PROVE  /\ CreateFile(p) => Maps
             /\ OpenFile(p) => Maps
             /\ RemoveFile(p) => Maps
             /\ MakeDirectory(p) => Maps
             /\ RemoveDirectory(p) => Maps
  BY <1>1, <1>6, CreateFileMaps, OpenFileMaps, RemoveFileMaps, MakeDirectoryMaps, RemoveDirectoryMaps
     DEF Promise!Next
<1>8. ASSUME NEW p \in Paths, NEW q \in Paths
      PROVE  /\ Rename(p, q) => Maps
             /\ RenameUnsaved(p, q) => Maps
  BY <1>1, RenameMaps, RenameUnsavedMaps DEF Promise!Next
<1>9. ASSUME NEW n \in Nodes, NEW s \in Sizes, WriteFile(n, s) PROVE Maps
  BY <1>1, <1>9, WriteFileMaps DEF Promise!Next
<1>10. ASSUME NEW n \in Nodes, Flush(n) \/ Close(n) PROVE Maps
  <2>1. CASE Save(n)
    <3>1. up /\ up' /\ up' = up /\ open' \subseteq open
      BY <1>10, <2>1 DEF Flush, Close, Save
    <3>2. Promise!Flush(overlay[n]) /\ overlay[n] \in Paths
      BY <1>1, <2>1, <3>1, SaveMaps, SaveKeeps
    <3> QED
      BY <3>2 DEF Promise!Next
  <2>2. CASE ~Save(n)
    <3>1. Close(n)
      BY <1>10, <2>2 DEF Flush
    <3>2. /\ UNCHANGED <<disk, up, names>>
          /\ \A p \in Paths : names[p] # None => size'[names[p]] = size[names[p]]
      BY <1>1, <2>2, <3>1, CloseKeeps
    <3>3. \A q \in Paths : Seen'[q] = Seen[q]
      BY <1>1, <3>2, Finds, FindsNext
    <3> QED
      BY <1>1, <3>2, <3>3, QuietMaps
  <2> QED
    BY <2>1, <2>2
<1> HIDE DEF Maps
<1>11. GameStep => Maps
  BY <1>7, <1>8, <1>9, <1>10 DEF GameStep
<1> QED
  BY <1>2, <1>3, <1>4, <1>5, <1>11 DEF Next, Maps

\* The VFS over the store does what AbstractSandbox promises the game: a file keeps
\* its contents across sessions once it is saved, and a crash loses the last
\* operation at most and nothing older.
THEOREM PromiseKept == ~Careless => (Spec => Implements)
<1> SUFFICES ASSUME ~Careless PROVE Spec => Promise!Spec
  BY DEF Implements
<1>1. Init => Promise!Init
  BY InitMaps
<1>2. CInv /\ CInv' /\ [Next]_vars => [Promise!Next]_(Promise!vars)
  BY NextMaps
<1>3. Spec => []CInv
  BY CInvHolds
<1> QED
  BY <1>1, <1>2, <1>3, PTL DEF Spec, Promise!Spec

=============================================================================
