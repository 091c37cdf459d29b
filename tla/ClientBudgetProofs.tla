------------------------- MODULE ClientBudgetProofs -------------------------
(***************************************************************************)
(* Proofs about the storage of ClientSession, for any finite set of        *)
(* requests, any limits and any charges: the global counter is exactly     *)
(* what the requests hold, the byte counters of the queues match their     *)
(* contents, and every variable has its type.                              *)
(*                                                                         *)
(* Sums.  The sum of a function over a finite set is the fold of Charge    *)
(* and of ChunkBytes, written as one recursive function on the subsets of  *)
(* the set.  Such a function exists and is unique; both are shown by a     *)
(* smallest counterexample, since the induction theorems of the library    *)
(* take an operator as a parameter.  From the recursion follows that any   *)
(* element can be taken out of a sum, and so that changing one value       *)
(* changes the sum by as much.                                             *)
(*                                                                         *)
(* Storage.  A method of State buffers n bytes more (Stores) or less       *)
(* (Frees) and keeps the byte counters right.  A step of an actor moves    *)
(* these bytes from or to its leases, the packet or the counter.  The      *)
(* invariant StorageInv needs one more fact: an actor with nothing left to *)
(* do holds no lease (Released), so that taking one overwrites nothing.    *)
(***************************************************************************)
EXTENDS ClientContractProofs, FiniteSetTheorems, WellFoundedInduction

-----------------------------------------------------------------------------
(* Sums over finite sets.  The folds of the community modules choose the   *)
(* elements of a set one after the other.                                  *)

Pick(s) == CHOOSE x \in s : TRUE

\* The recursion of the folds, for the sum of f over the subsets of S.
SumBody(f, S, g) ==
  [s \in SUBSET S |-> IF s = {} THEN 0 ELSE f[Pick(s)] + g[s \ {Pick(s)}]]

IsSum(f, S, g) == g = SumBody(f, S, g)

\* The sum of f over S.
Total(f, S) == (CHOOSE g : IsSum(f, S, g))[S]

\* A family of subsets of a finite set has a smallest member.
LEMMA MinimalSubset ==
  ASSUME NEW S, IsFiniteSet(S), NEW F \in SUBSET (SUBSET S), F # {}
  PROVE  \E T \in F : \A U \in SUBSET T : U # T => U \notin F
<1>1. IsWellFoundedOn(StrictSubsetOrdering(S), SUBSET S)
  BY FS_StrictSubsetOrderingWellFounded, FS_FiniteSubsetsOfFinite
<1>2. PICK T \in F : \A U \in F : ~ (<< U, T >> \in StrictSubsetOrdering(S))
  BY <1>1, WFMin
<1>3. ASSUME NEW U \in SUBSET T, U # T, U \in F PROVE FALSE
  BY <1>2, <1>3 DEF StrictSubsetOrdering
<1> QED BY <1>3

\* The fold picks one of the elements that are left.
LEMMA PickIn == \A s : s # {} => Pick(s) \in s
BY DEF Pick

\* Two solutions of the recursion agree where they are both defined.
LEMMA SumUnique ==
  ASSUME NEW S, NEW T, IsFiniteSet(T), T \subseteq S,
         NEW f, NEW e, \A x \in T : e[x] = f[x],
         NEW g, IsSum(f, S, g), NEW h, IsSum(e, T, h)
  PROVE  \A s \in SUBSET T : h[s] = g[s]
<1> DEFINE Bad == {s \in SUBSET T : h[s] # g[s]}
<1>1. SUFFICES ASSUME Bad # {} PROVE FALSE
  OBVIOUS
<1>0. Bad \in SUBSET (SUBSET T)
  OBVIOUS
<1> HIDE DEF Bad
<1>2. PICK s \in Bad : \A u \in SUBSET s : u # s => u \notin Bad
  BY <1>0, <1>1, MinimalSubset
<1> USE DEF Bad
<1>3. s \in SUBSET T /\ s \in SUBSET S /\ h[s] # g[s]
  BY <1>2
<1>4. /\ h[s] = IF s = {} THEN 0 ELSE e[Pick(s)] + h[s \ {Pick(s)}]
      /\ g[s] = IF s = {} THEN 0 ELSE f[Pick(s)] + g[s \ {Pick(s)}]
  BY <1>3 DEF IsSum, SumBody
<1>5. s # {}
  BY <1>3, <1>4
<1>6. Pick(s) \in s /\ e[Pick(s)] = f[Pick(s)]
  BY <1>3, <1>5, PickIn
<1>7. h[s \ {Pick(s)}] = g[s \ {Pick(s)}]
  BY <1>2, <1>3, <1>6
<1> QED BY <1>3, <1>4, <1>6, <1>7

\* The recursion has a solution.
LEMMA SumExists ==
  ASSUME NEW S, IsFiniteSet(S), NEW f
  PROVE  \E g : IsSum(f, S, g)
<1> DEFINE Bad == {T \in SUBSET S : ~ \E g : IsSum(f, T, g)}
<1>1. SUFFICES ASSUME Bad # {} PROVE FALSE
  BY DEF Bad
<1>0. Bad \in SUBSET (SUBSET S)
  OBVIOUS
<1> HIDE DEF Bad
<1>2. PICK T \in Bad : \A U \in SUBSET T : U # T => U \notin Bad
  BY <1>0, <1>1, MinimalSubset
<1> USE DEF Bad
<1>3. T \in SUBSET S /\ ~ \E g : IsSum(f, T, g)
  BY <1>2
<1>4. \A U \in SUBSET T : U # T => \E g : IsSum(f, U, g)
  BY <1>2, <1>3
<1> HIDE DEF Bad
<1> DEFINE V(U) == CHOOSE g : IsSum(f, U, g)
           k == [s \in SUBSET T |-> IF s # T THEN V(s)[s]
                                    ELSE IF s = {} THEN 0
                                    ELSE f[Pick(s)] + V(s \ {Pick(s)})[s \ {Pick(s)}]]
<1>5. \A U \in SUBSET T : U # T => IsSum(f, U, V(U))
  BY <1>4
<1> HIDE DEF V
<1>6. ASSUME NEW s \in SUBSET T
      PROVE  k[s] = IF s = {} THEN 0 ELSE f[Pick(s)] + k[s \ {Pick(s)}]
  <2>1. CASE s = {} /\ s = T
    BY <2>1
  <2>2. CASE s # {} /\ s = T
    <3>1. s \ {Pick(s)} # T /\ s \ {Pick(s)} \in SUBSET T
      BY <2>2, PickIn
    <3> QED BY <2>2, <3>1
  <2>3. CASE s # T
    <3>1. k[s] = V(s)[s] /\ IsSum(f, s, V(s))
      BY <2>3, <1>5
    <3>2. V(s)[s] = IF s = {} THEN 0 ELSE f[Pick(s)] + V(s)[s \ {Pick(s)}]
      BY <3>1 DEF IsSum, SumBody
    <3>3. ASSUME s # {} PROVE V(s)[s \ {Pick(s)}] = k[s \ {Pick(s)}]
      <4> DEFINE u == s \ {Pick(s)}
      <4>1. u \in SUBSET T /\ u # T /\ u \subseteq s /\ IsFiniteSet(u)
        BY <1>3, <2>3, <3>3, PickIn, FS_Subset
      <4>2. k[u] = V(u)[u] /\ IsSum(f, u, V(u))
        BY <4>1, <1>5
      <4> HIDE DEF u, k
      <4>3. V(u)[u] = V(s)[u]
        BY <3>1, <4>1, <4>2, SumUnique
      <4> QED BY <4>2, <4>3 DEF u
    <3> QED BY <3>1, <3>2, <3>3
  <2> QED BY <2>1, <2>2, <2>3
<1>7. k = [s \in SUBSET T |-> k[s]]
  OBVIOUS
<1> HIDE DEF k
<1>8. IsSum(f, T, k)
  BY <1>6, <1>7 DEF IsSum, SumBody
<1> QED BY <1>3, <1>8

\* What the folds compute is a solution.
LEMMA TotalOfSolution ==
  ASSUME NEW S, IsFiniteSet(S), NEW f, NEW g, IsSum(f, S, g)
  PROVE  \A s \in SUBSET S : g[s] = Total(f, s)
<1> SUFFICES ASSUME NEW s \in SUBSET S PROVE g[s] = Total(f, s)
  OBVIOUS
<1> DEFINE h == CHOOSE h : IsSum(f, s, h)
<1>1. IsFiniteSet(s)
  BY FS_Subset
<1>2. IsSum(f, s, h)
  BY <1>1, SumExists
<1> HIDE DEF h
<1>3. h[s] = g[s]
  BY <1>1, <1>2, SumUnique
<1> QED BY <1>3 DEF Total, h

\* A sum is the sum over a smaller set and the chosen element.
LEMMA TotalPick ==
  ASSUME NEW S, IsFiniteSet(S), NEW f
  PROVE  Total(f, S) = IF S = {} THEN 0 ELSE f[Pick(S)] + Total(f, S \ {Pick(S)})
<1>1. PICK g : IsSum(f, S, g)
  BY SumExists
<1>2. g[S] = IF S = {} THEN 0 ELSE f[Pick(S)] + g[S \ {Pick(S)}]
  BY <1>1 DEF IsSum, SumBody
<1>3. g[S] = Total(f, S) /\ g[S \ {Pick(S)}] = Total(f, S \ {Pick(S)})
  BY <1>1, TotalOfSolution
<1> QED BY <1>2, <1>3

\* Only the values on the set matter.
LEMMA TotalCongruence ==
  ASSUME NEW S, IsFiniteSet(S), NEW f, NEW e, \A x \in S : e[x] = f[x]
  PROVE  Total(e, S) = Total(f, S)
<1>1. PICK g : IsSum(f, S, g)
  BY SumExists
<1>2. PICK h : IsSum(e, S, h)
  BY SumExists
<1>3. \A s \in SUBSET S : h[s] = g[s]
  BY <1>1, <1>2, SumUnique
<1>4. h[S] = Total(e, S) /\ g[S] = Total(f, S)
  BY <1>1, <1>2, TotalOfSolution
<1> QED BY <1>3, <1>4

\* The sum of numbers is a number.
LEMMA TotalType ==
  ASSUME NEW S, IsFiniteSet(S), NEW f
  PROVE  /\ (\A x \in S : f[x] \in Int) => Total(f, S) \in Int
         /\ (\A x \in S : f[x] \in Nat) => Total(f, S) \in Nat
<1>1. ASSUME NEW N, N = Int \/ N = Nat, \A x \in S : f[x] \in N PROVE Total(f, S) \in N
  <2> DEFINE Bad == {T \in SUBSET S : Total(f, T) \notin N}
  <2>1. SUFFICES ASSUME Bad # {} PROVE FALSE
    BY DEF Bad
  <2>0. Bad \in SUBSET (SUBSET S)
    OBVIOUS
  <2> HIDE DEF Bad
  <2>2. PICK T \in Bad : \A U \in SUBSET T : U # T => U \notin Bad
    BY <2>0, <2>1, MinimalSubset
  <2> USE DEF Bad
  <2>3. T \in SUBSET S /\ Total(f, T) \notin N /\ IsFiniteSet(T)
    BY <2>2, FS_Subset
  <2>4. T # {} => Pick(T) \in T /\ Total(f, T \ {Pick(T)}) \in N
    BY <2>2, <2>3, PickIn
  <2> HIDE DEF Bad
  <2>5. Total(f, T) = IF T = {} THEN 0 ELSE f[Pick(T)] + Total(f, T \ {Pick(T)})
    BY <2>3, TotalPick
  <2> QED BY <1>1, <2>3, <2>4, <2>5
<1> QED BY <1>1

\* Any element can be taken out first.
LEMMA TotalRemove ==
  ASSUME NEW S, IsFiniteSet(S), NEW f, \A x \in S : f[x] \in Int, NEW x \in S
  PROVE  Total(f, S) = f[x] + Total(f, S \ {x})
<1> DEFINE Bad == {T \in SUBSET S : \E y \in T : Total(f, T) # f[y] + Total(f, T \ {y})}
<1>1. SUFFICES ASSUME Bad # {} PROVE FALSE
  BY DEF Bad
<1>0. Bad \in SUBSET (SUBSET S)
  OBVIOUS
<1> HIDE DEF Bad
<1>2. PICK T \in Bad : \A U \in SUBSET T : U # T => U \notin Bad
  BY <1>0, <1>1, MinimalSubset
<1> USE DEF Bad
<1>3. PICK y \in T : Total(f, T) # f[y] + Total(f, T \ {y})
  BY <1>2
<1>4. T \in SUBSET S
  BY <1>2
<1>5. \A U \in SUBSET T : U # T => \A z \in U : Total(f, U) = f[z] + Total(f, U \ {z})
  BY <1>2, <1>4
<1> HIDE DEF Bad
<1> DEFINE p == Pick(T)
<1>6. p \in T
  BY <1>3, PickIn
<1>7. Total(f, T) = f[p] + Total(f, T \ {p})
  BY <1>3, <1>4, FS_Subset, TotalPick
<1> HIDE DEF p
<1>8. p # y
  BY <1>3, <1>7
<1>9. Total(f, T \ {p}) = f[y] + Total(f, (T \ {p}) \ {y})
  BY <1>3, <1>5, <1>6, <1>8
<1>10. Total(f, T \ {y}) = f[p] + Total(f, (T \ {y}) \ {p})
  BY <1>3, <1>5, <1>6, <1>8
<1>11. (T \ {y}) \ {p} = (T \ {p}) \ {y}
  OBVIOUS
<1>12. Total(f, (T \ {p}) \ {y}) \in Int /\ f[p] \in Int /\ f[y] \in Int
  BY <1>3, <1>4, <1>6, FS_Subset, TotalType
<1> DEFINE rest == Total(f, (T \ {p}) \ {y})
<1>13. Total(f, T) = f[p] + (f[y] + rest) /\ f[y] + Total(f, T \ {y}) = f[y] + (f[p] + rest)
  BY <1>7, <1>9, <1>10, <1>11
<1> HIDE DEF rest
<1>14. f[p] + (f[y] + rest) = f[y] + (f[p] + rest)
  BY <1>12 DEF rest
<1> QED BY <1>3, <1>13, <1>14

\* Changing one value changes the sum by as much.
LEMMA TotalUpdate ==
  ASSUME NEW S, IsFiniteSet(S), NEW f, NEW e, NEW x \in S,
         \A y \in S : f[y] \in Int, e[x] \in Int, \A y \in S \ {x} : e[y] = f[y]
  PROVE  Total(e, S) = Total(f, S) - f[x] + e[x]
<1>1. Total(f, S) = f[x] + Total(f, S \ {x}) /\ Total(e, S) = e[x] + Total(e, S \ {x})
  BY TotalRemove
<1>2. IsFiniteSet(S \ {x})
  BY FS_RemoveElement
<1>3. Total(e, S \ {x}) = Total(f, S \ {x}) /\ Total(f, S \ {x}) \in Int
  BY <1>2, TotalCongruence, TotalType
<1> QED BY <1>1, <1>3

\* The sum over an interval, one element longer.
LEMMA TotalExtend ==
  ASSUME NEW n \in Nat, NEW f, NEW e, \A i \in 1 .. n : e[i] = f[i] /\ f[i] \in Int,
         e[n + 1] \in Int
  PROVE  Total(e, 1 .. n + 1) = Total(f, 1 .. n) + e[n + 1]
<1>1. IsFiniteSet(1 .. n) /\ IsFiniteSet(1 .. n + 1)
  BY FS_Interval
<1>2. (1 .. n + 1) \ {n + 1} = 1 .. n /\ n + 1 \in 1 .. n + 1
  OBVIOUS
<1>3. \A i \in 1 .. n + 1 : e[i] \in Int
  <2>1. \A i \in 1 .. n + 1 : i \in 1 .. n \/ i = n + 1
    OBVIOUS
  <2> QED BY <2>1
<1>4. Total(e, 1 .. n + 1) = e[n + 1] + Total(e, 1 .. n)
  BY <1>1, <1>2, <1>3, TotalRemove
<1>5. Total(e, 1 .. n) = Total(f, 1 .. n) /\ Total(f, 1 .. n) \in Int
  BY <1>1, TotalCongruence, TotalType
<1> QED BY <1>4, <1>5

\* The sum over an interval whose elements are moved by one.
LEMMA TotalShift ==
  ASSUME NEW n \in Nat, NEW f, NEW e, \A i \in 1 .. n : e[i] = f[i + 1] /\ f[i + 1] \in Int
  PROVE  Total(e, 1 .. n) = Total(f, 2 .. n + 1)
<1> DEFINE Bad == {U \in SUBSET (1 .. n) :
                     \E m \in 0 .. n : U = 1 .. m /\ Total(e, 1 .. m) # Total(f, 2 .. m + 1)}
<1>1. SUFFICES ASSUME Bad # {} PROVE FALSE
  BY DEF Bad
<1>2. Bad \in SUBSET (SUBSET (1 .. n)) /\ IsFiniteSet(1 .. n)
  BY FS_Interval
<1> HIDE DEF Bad
<1>3. PICK U \in Bad : \A V \in SUBSET U : V # U => V \notin Bad
  BY <1>1, <1>2, MinimalSubset
<1>4. PICK m \in 0 .. n : U = 1 .. m /\ Total(e, 1 .. m) # Total(f, 2 .. m + 1)
  BY <1>3 DEF Bad
<1>5. CASE m = 0
  <2>1. 1 .. m = {} /\ 2 .. m + 1 = {}
    BY <1>5
  <2>2. \A g : Total(g, {}) = 0
    BY TotalPick, FS_EmptySet
  <2> QED BY <1>4, <2>1, <2>2
<1>6. CASE m # 0
  <2>1. m - 1 \in 0 .. n /\ 1 .. m - 1 \in SUBSET U /\ 1 .. m - 1 # U
    <3>1. m \in 1 .. m /\ m \notin 1 .. m - 1
      BY <1>6
    <3> QED BY <1>4, <1>6, <3>1
  <2>2. 1 .. m - 1 \notin Bad
    BY <1>3, <2>1
  <2>3. 1 .. m - 1 \in SUBSET (1 .. n) /\ (m - 1) + 1 = m
    BY <1>6
  <2>4. Total(e, 1 .. m - 1) = Total(f, 2 .. m)
    BY <2>1, <2>2, <2>3 DEF Bad
  <2>5. IsFiniteSet(1 .. m) /\ m \in 1 .. m /\ (1 .. m) \ {m} = 1 .. m - 1
    <3>1. m \in Int /\ m - 1 \in Int /\ 1 \in Int
      OBVIOUS
    <3>2. IsFiniteSet(1 .. m)
      BY <3>1, FS_Interval
    <3>3. m \in 1 .. m /\ (1 .. m) \ {m} = 1 .. m - 1
      BY <1>6
    <3> QED BY <3>2, <3>3
  <2>10. IsFiniteSet(2 .. m + 1) /\ m + 1 \in 2 .. m + 1 /\ (2 .. m + 1) \ {m + 1} = 2 .. m
    <3>1. m + 1 \in Int /\ 2 \in Int
      OBVIOUS
    <3>2. IsFiniteSet(2 .. m + 1)
      BY <3>1, FS_Interval
    <3>3. m + 1 \in 2 .. m + 1
      BY <1>6
    <3>4. (2 .. m + 1) \ {m + 1} = 2 .. m
      BY <1>6
    <3> QED BY <3>2, <3>3, <3>4
  <2>6. /\ \A i \in 1 .. m : e[i] \in Int
        /\ \A i \in 2 .. m + 1 : f[i] \in Int
    <3>1. \A i \in 2 .. m + 1 : i - 1 \in 1 .. n /\ (i - 1) + 1 = i
      OBVIOUS
    <3>2. \A i \in 1 .. m : i \in 1 .. n
      OBVIOUS
    <3> QED BY <3>1, <3>2
  <2>7. Total(e, 1 .. m) = e[m] + Total(e, 1 .. m - 1)
    <3>1. Total(e, 1 .. m) = e[m] + Total(e, (1 .. m) \ {m})
      BY <2>5, <2>6, TotalRemove
    <3> QED BY <2>5, <3>1
  <2>8. Total(f, 2 .. m + 1) = f[m + 1] + Total(f, 2 .. m)
    <3>1. Total(f, 2 .. m + 1) = f[m + 1] + Total(f, (2 .. m + 1) \ {m + 1})
      BY <2>10, <2>6, TotalRemove
    <3> QED BY <2>10, <3>1
  <2>9. e[m] = f[m + 1]
    BY <1>6
  <2> QED BY <1>4, <2>4, <2>7, <2>8, <2>9
<1> QED BY <1>5, <1>6

\* The sum over an interval, without its first element.
LEMMA TotalTail ==
  ASSUME NEW n \in Nat, NEW f, NEW e, \A i \in 1 .. n : e[i] = f[i + 1],
         \A i \in 1 .. n + 1 : f[i] \in Int
  PROVE  Total(e, 1 .. n) = Total(f, 1 .. n + 1) - f[1]
<1>1. \A i \in 1 .. n : i + 1 \in 1 .. n + 1
  OBVIOUS
<1>2. Total(e, 1 .. n) = Total(f, 2 .. n + 1)
  BY <1>1, TotalShift
<1>3. /\ IsFiniteSet(1 .. n + 1) /\ IsFiniteSet(2 .. n + 1)
      /\ 1 \in 1 .. n + 1 /\ (1 .. n + 1) \ {1} = 2 .. n + 1
      /\ 2 .. n + 1 \subseteq 1 .. n + 1
  <2>1. n + 1 \in Int /\ 1 \in Int /\ 2 \in Int
    OBVIOUS
  <2>2. IsFiniteSet(1 .. n + 1) /\ IsFiniteSet(2 .. n + 1)
    BY <2>1, FS_Interval
  <2>3. 1 \in 1 .. n + 1 /\ (1 .. n + 1) \ {1} = 2 .. n + 1
    OBVIOUS
  <2>4. 2 .. n + 1 \subseteq 1 .. n + 1
    OBVIOUS
  <2> QED BY <2>2, <2>3, <2>4
<1>4. Total(f, 1 .. n + 1) = f[1] + Total(f, 2 .. n + 1)
  <2>1. Total(f, 1 .. n + 1) = f[1] + Total(f, (1 .. n + 1) \ {1})
    BY <1>3, TotalRemove
  <2> QED BY <1>3, <2>1
<1>5. Total(f, 2 .. n + 1) \in Int /\ f[1] \in Int
  BY <1>3, TotalType
<1> QED BY <1>2, <1>4, <1>5

-----------------------------------------------------------------------------
(* The charges of the queues.                                              *)

\* The charges of a sequence of events.
Charges(events) == [i \in DOMAIN events |-> events[i].bytes]

\* The fold over a queue is the sum of its charges.
LEMMA ChunkTotal ==
  ASSUME NEW q
  PROVE  ChunkBytes(q) = Total(q, DOMAIN q)
BY DEF ChunkBytes, FoldSeq, FoldFunction, FoldFunctionOnSet, MapThenFoldSet,
       Total, IsSum, SumBody, Pick

\* The same of a queue of events.
LEMMA EventTotal ==
  ASSUME NEW q, IsFiniteSet(DOMAIN q)
  PROVE  EventBytes(q) = Total(Charges(q), DOMAIN q)
<1> DEFINE Body(g) == [s \in SUBSET (DOMAIN q) |->
                         IF s = {} THEN 0 ELSE q[Pick(s)].bytes + g[s \ {Pick(s)}]]
           h == CHOOSE g : g = Body(g)
<1>1. EventBytes(q) = h[DOMAIN q]
  BY DEF EventBytes, FoldSeq, FoldFunction, FoldFunctionOnSet, MapThenFoldSet, Pick
<1>2. ASSUME NEW g PROVE Body(g) = SumBody(Charges(q), DOMAIN q, g)
  <2>1. \A s \in SUBSET (DOMAIN q) : s # {} => q[Pick(s)].bytes = Charges(q)[Pick(s)]
    BY PickIn DEF Charges
  <2> QED BY <2>1 DEF SumBody
<1>3. PICK g : IsSum(Charges(q), DOMAIN q, g)
  BY SumExists
<1>4. g = Body(g)
  BY <1>2, <1>3 DEF IsSum
<1>5. h = Body(h)
  BY <1>4
<1>6. IsSum(Charges(q), DOMAIN q, h)
  BY <1>2, <1>5 DEF IsSum
<1> HIDE DEF h
<1> QED BY <1>1, <1>6, TotalOfSolution

\* The charge of a queue of chunks, when one is added or taken.
LEMMA ChunkBytesFacts ==
  ASSUME NEW q \in Seq(Nat \ {0})
  PROVE  /\ ChunkBytes(q) \in Nat
         /\ \A b \in Nat \ {0} : ChunkBytes(Append(q, b)) = ChunkBytes(q) + b
         /\ q # << >> => ChunkBytes(Tail(q)) = ChunkBytes(q) - Head(q) /\ Head(q) \in Nat \ {0}
         /\ q = << >> => ChunkBytes(q) = 0
<1>1. /\ Len(q) \in Nat /\ DOMAIN q = 1 .. Len(q) /\ IsFiniteSet(1 .. Len(q))
      /\ \A i \in 1 .. Len(q) : q[i] \in Nat \ {0}
  BY LenProperties, ElementOfSeq, FS_Interval
<1>2. ChunkBytes(q) = Total(q, 1 .. Len(q)) /\ ChunkBytes(q) \in Nat
  BY <1>1, ChunkTotal, TotalType
<1>3. ASSUME NEW b \in Nat \ {0} PROVE ChunkBytes(Append(q, b)) = ChunkBytes(q) + b
  <2> DEFINE a == Append(q, b)
  <2>1. /\ a \in Seq(Nat \ {0}) /\ Len(a) = Len(q) + 1
        /\ \A i \in 1 .. Len(q) : a[i] = q[i]
        /\ a[Len(q) + 1] = b
    BY AppendFacts
  <2>2. DOMAIN a = 1 .. Len(q) + 1
    BY <2>1, LenProperties
  <2> HIDE DEF a
  <2>3. ChunkBytes(a) = Total(a, 1 .. Len(q) + 1)
    BY <2>2, ChunkTotal
  <2>4. Total(a, 1 .. Len(q) + 1) = Total(q, 1 .. Len(q)) + a[Len(q) + 1]
    <3>1. \A i \in 1 .. Len(q) : a[i] = q[i] /\ q[i] \in Int
      BY <1>1, <2>1
    <3>2. a[Len(q) + 1] \in Int /\ Len(q) \in Nat
      BY <1>1, <2>1
    <3> QED BY <3>1, <3>2, TotalExtend
  <2> QED BY <1>2, <2>1, <2>3, <2>4 DEF a
<1>4. ASSUME q # << >>
      PROVE  ChunkBytes(Tail(q)) = ChunkBytes(q) - Head(q) /\ Head(q) \in Nat \ {0}
  <2> DEFINE t == Tail(q)
             n == Len(q) - 1
  <2>1. /\ t \in Seq(Nat \ {0}) /\ Len(q) \in Nat \ {0} /\ Len(t) = n
        /\ \A i \in 1 .. n : t[i] = q[i + 1]
        /\ Head(q) = q[1] /\ Head(q) \in Nat \ {0}
    BY <1>4, TailFacts
  <2>2. DOMAIN t = 1 .. n /\ n \in Nat /\ Len(q) = n + 1
    BY <2>1, LenProperties
  <2> HIDE DEF t, n
  <2>3. ChunkBytes(t) = Total(t, 1 .. n) /\ ChunkBytes(q) = Total(q, 1 .. n + 1)
    BY <1>2, <2>2, ChunkTotal
  <2>4. Total(t, 1 .. n) = Total(q, 1 .. n + 1) - q[1]
    <3>1. \A i \in 1 .. n + 1 : q[i] \in Int
      BY <1>1, <2>2
    <3> QED BY <2>1, <2>2, <3>1, TotalTail
  <2> QED BY <2>1, <2>3, <2>4 DEF t
<1>5. ASSUME q = << >> PROVE ChunkBytes(q) = 0
  <2>1. 1 .. Len(q) = {}
    BY <1>5
  <2> QED BY <1>1, <1>2, <2>1, TotalPick
<1> QED BY <1>2, <1>3, <1>4, <1>5

\* The charge of a queue of events, when one is added or taken.
LEMMA EventBytesFacts ==
  ASSUME NEW q \in Seq(Event)
  PROVE  /\ EventBytes(q) \in Nat
         /\ \A e \in Event : EventBytes(Append(q, e)) = EventBytes(q) + e.bytes
         /\ q # << >> => EventBytes(Tail(q)) = EventBytes(q) - Head(q).bytes /\ Head(q).bytes \in Nat \ {0}
         /\ q = << >> => EventBytes(q) = 0
<1>0. \A e \in Event : e.bytes \in Nat \ {0}
  BY DEF Event
<1>1. ASSUME NEW p \in Seq(Event)
      PROVE  /\ Len(p) \in Nat /\ IsFiniteSet(1 .. Len(p))
             /\ \A i \in 1 .. Len(p) : Charges(p)[i] = p[i].bytes /\ Charges(p)[i] \in Nat
             /\ EventBytes(p) = Total(Charges(p), 1 .. Len(p))
  <2>1. /\ Len(p) \in Nat /\ DOMAIN p = 1 .. Len(p) /\ IsFiniteSet(1 .. Len(p))
        /\ \A i \in 1 .. Len(p) : p[i] \in Event
    BY LenProperties, ElementOfSeq, FS_Interval
  <2>2. \A i \in 1 .. Len(p) : Charges(p)[i] = p[i].bytes
    BY <2>1 DEF Charges
  <2> QED BY <1>0, <2>1, <2>2, EventTotal
<1>2. EventBytes(q) \in Nat
  BY <1>1, TotalType
<1>3. ASSUME NEW e \in Event PROVE EventBytes(Append(q, e)) = EventBytes(q) + e.bytes
  <2> DEFINE a == Append(q, e)
  <2>1. /\ a \in Seq(Event) /\ Len(a) = Len(q) + 1 /\ Len(q) \in Nat
        /\ \A i \in 1 .. Len(q) : a[i] = q[i]
        /\ a[Len(q) + 1] = e
    BY AppendFacts
  <2> HIDE DEF a
  <2>2. /\ \A i \in 1 .. Len(q) : Charges(a)[i] = Charges(q)[i] /\ Charges(q)[i] \in Int
        /\ Charges(a)[Len(q) + 1] = e.bytes /\ e.bytes \in Int
    <3>1. \A i \in 1 .. Len(q) : i \in 1 .. Len(a)
      BY <2>1
    <3>2. Len(q) + 1 \in 1 .. Len(a)
      BY <2>1
    <3>3. \A i \in 1 .. Len(a) : Charges(a)[i] = a[i].bytes
      BY <1>1, <2>1
    <3>4. \A i \in 1 .. Len(q) : Charges(q)[i] = q[i].bytes /\ Charges(q)[i] \in Nat
      BY <1>1
    <3> QED BY <1>0, <2>1, <3>1, <3>2, <3>3, <3>4
  <2>3. Total(Charges(a), 1 .. Len(q) + 1) = Total(Charges(q), 1 .. Len(q)) + Charges(a)[Len(q) + 1]
    BY <2>1, <2>2, TotalExtend
  <2>4. EventBytes(a) = Total(Charges(a), 1 .. Len(q) + 1) /\ EventBytes(q) = Total(Charges(q), 1 .. Len(q))
    BY <1>1, <2>1
  <2> QED BY <2>2, <2>3, <2>4 DEF a
<1>4. ASSUME q # << >>
      PROVE  EventBytes(Tail(q)) = EventBytes(q) - Head(q).bytes /\ Head(q).bytes \in Nat \ {0}
  <2> DEFINE t == Tail(q)
             n == Len(q) - 1
  <2>1. /\ t \in Seq(Event) /\ Len(q) \in Nat \ {0} /\ Len(t) = n
        /\ \A i \in 1 .. n : t[i] = q[i + 1]
        /\ Head(q) = q[1] /\ Head(q) \in Event
    BY <1>4, TailFacts
  <2>2. n \in Nat /\ Len(q) = n + 1
    BY <2>1
  <2> HIDE DEF t, n
  <2>3. EventBytes(t) = Total(Charges(t), 1 .. n) /\ EventBytes(q) = Total(Charges(q), 1 .. n + 1)
    BY <1>1, <2>1, <2>2
  <2>4. /\ \A i \in 1 .. n : Charges(t)[i] = Charges(q)[i + 1]
        /\ \A i \in 1 .. n + 1 : Charges(q)[i] \in Int
        /\ Charges(q)[1] = Head(q).bytes
    <3>1. \A i \in 1 .. n : i + 1 \in 1 .. Len(q) /\ i \in 1 .. Len(t)
      BY <2>1, <2>2
    <3>2. 1 \in 1 .. Len(q)
      BY <2>2
    <3>3. \A i \in 1 .. Len(q) : Charges(q)[i] = q[i].bytes /\ Charges(q)[i] \in Nat
      BY <1>1
    <3>4. \A i \in 1 .. Len(t) : Charges(t)[i] = t[i].bytes
      BY <1>1, <2>1
    <3> QED BY <2>1, <2>2, <3>1, <3>2, <3>3, <3>4
  <2>5. Total(Charges(t), 1 .. n) = Total(Charges(q), 1 .. n + 1) - Charges(q)[1]
    BY <2>2, <2>4, TotalTail
  <2> QED BY <1>0, <2>1, <2>3, <2>4, <2>5 DEF t
<1>5. ASSUME q = << >> PROVE EventBytes(q) = 0
  <2>1. 1 .. Len(q) = {}
    BY <1>5
  <2> QED BY <1>1, <2>1, TotalPick
<1> QED BY <1>2, <1>3, <1>4, <1>5
-----------------------------------------------------------------------------
(* The storage of a request, and of all of them.                           *)

\* The storage a request accounts for: what its state s buffers, the packet p
\* of its backend, and the leases h of its actors.
ChargeOf(s, p, h) == BufferedBytes(s) + p + Total(h, Actor)

Charged == [r \in Requests |-> ChargeOf(st[r], packet[r], hold[r])]

\* The leases of the actors, as the fold of Charge sums them.
LEMMA HoldTotal ==
  ASSUME NEW h
  PROVE  MapThenSumSet(LAMBDA a : h[a], Actor) = Total(h, Actor)
BY DEF MapThenSumSet, MapThenFoldSet, Total, IsSum, SumBody, Pick

\* The charge of a request, as the model writes it.
LEMMA ChargeIs == \A r \in Requests : Charge(r) = Charged[r]
BY HoldTotal DEF Charge, ChargeOf, Charged

\* The storage of all requests, as the fold of BudgetExact sums it.
LEMMA BudgetTotal == MapThenSumSet(Charge, Requests) = Total(Charged, Requests)
<1> DEFINE Body(g) == [s \in SUBSET Requests |->
                         IF s = {} THEN 0 ELSE Charge(Pick(s)) + g[s \ {Pick(s)}]]
           h == CHOOSE g : g = Body(g)
<1>1. MapThenSumSet(Charge, Requests) = h[Requests]
  BY DEF MapThenSumSet, MapThenFoldSet, Pick
<1>2. ASSUME NEW g PROVE Body(g) = SumBody(Charged, Requests, g)
  <2>1. \A s \in SUBSET Requests : s # {} => Charge(Pick(s)) = Charged[Pick(s)]
    BY PickIn, ChargeIs
  <2> QED BY <2>1 DEF SumBody
<1>3. PICK g : IsSum(Charged, Requests, g)
  BY RequestsAssumption, SumExists
<1>4. g = Body(g)
  BY <1>2, <1>3 DEF IsSum
<1>5. h = Body(h)
  BY <1>4
<1>6. IsSum(Charged, Requests, h)
  BY <1>2, <1>5 DEF IsSum
<1> HIDE DEF h
<1> QED BY <1>1, <1>6, RequestsAssumption, TotalOfSolution

\* There are eight actors.
LEMMA ActorsFinite == IsFiniteSet(Actor)
<1>1. IsFiniteSet({} \cup {"input"})
  BY FS_EmptySet, FS_AddElement
<1>2. IsFiniteSet(({} \cup {"input"}) \cup {"output"})
  BY <1>1, FS_AddElement
<1>3. \A S, x, y : IsFiniteSet(S) => IsFiniteSet((S \cup {x}) \cup {y})
  BY FS_AddElement
<1>4. IsFiniteSet((({"input", "output"}) \cup {"control"}) \cup {"timer"})
  <2>1. ({} \cup {"input"}) \cup {"output"} = {"input", "output"}
    OBVIOUS
  <2>2. IsFiniteSet({"input", "output"})
    BY <1>2, <2>1
  <2> QED BY <1>3, <2>2
<1>5. IsFiniteSet((({"input", "output", "control", "timer"}) \cup {"owner"}) \cup {"reader"})
  <2>1. (({"input", "output"}) \cup {"control"}) \cup {"timer"} = {"input", "output", "control", "timer"}
    OBVIOUS
  <2>2. IsFiniteSet({"input", "output", "control", "timer"})
    BY <1>4, <2>1
  <2> QED BY <1>3, <2>2
<1>6. IsFiniteSet(((({"input", "output", "control", "timer"} \cup {"owner"}) \cup {"reader"})
                    \cup {"writer"}) \cup {"guard"})
  BY <1>3, <1>5
<1>7. (({"input", "output", "control", "timer"} \cup {"owner"}) \cup {"reader"})
        \cup {"writer"} \cup {"guard"} = Actor
  BY DEF Actor
<1> QED BY <1>6, <1>7
-----------------------------------------------------------------------------
(* What the methods of State do to the storage of a request.               *)

\* The byte counters match the queues and stay in their limits.
Accounted(s) ==
  /\ s.inputBytes = ChunkBytes(s.input) /\ s.outputBytes = EventBytes(s.output)
  /\ s.inputBytes <= InputQueueBytes /\ Len(s.input) <= InputQueueItems
  /\ s.outputBytes <= OutputQueueBytes /\ Len(s.output) <= OutputQueueItems

\* From s to t the counters stay right, and n more bytes are buffered, or n
\* bytes less.
Stores(s, t, n) == Accounted(t) /\ BufferedBytes(t) = BufferedBytes(s) + n
Frees(s, t, n)  == Accounted(t) /\ BufferedBytes(t) = BufferedBytes(s) - n

\* What a state buffers is a number.
LEMMA BufferedTypes ==
  ASSUME NEW s, DataTypes(s)
  PROVE  /\ ChunkBytes(s.input) \in Nat /\ s.pendingInput \in Nat
         /\ EventBytes(s.output) \in Nat /\ s.pendingOutput.bytes \in Nat
         /\ Len(s.input) \in Nat /\ Len(s.output) \in Nat
         /\ BufferedBytes(s) \in Nat
<1>1. /\ s.input \in Seq(Nat \ {0}) /\ s.pendingInput \in Nat
      /\ s.output \in Seq(Event) /\ s.pendingOutput \in Event \cup {NoEvent}
  BY DEF DataTypes
<1>2. ChunkBytes(s.input) \in Nat /\ EventBytes(s.output) \in Nat
  BY <1>1, ChunkBytesFacts, EventBytesFacts
<1>3. s.pendingOutput.bytes \in Nat
  BY <1>1 DEF Event, NoEvent
<1>4. Len(s.input) \in Nat /\ Len(s.output) \in Nat
  BY <1>1, LenProperties
<1> QED BY <1>1, <1>2, <1>3, <1>4 DEF BufferedBytes

\* A method that leaves the output side alone: what enters or leaves the queue
\* and the slot of the input side is what the state buffers more or less.
LEMMA InputStores ==
  ASSUME NEW s, DataTypes(s), Accounted(s), NEW t,
         t.output = s.output, t.pendingOutput = s.pendingOutput, t.outputBytes = s.outputBytes,
         t.inputBytes = ChunkBytes(t.input), t.inputBytes \in Int, t.pendingInput \in Int,
         t.inputBytes <= InputQueueBytes, Len(t.input) <= InputQueueItems
  PROVE  /\ Accounted(t) /\ BufferedBytes(s) \in Int
         /\ BufferedBytes(t) = BufferedBytes(s) + ((t.inputBytes + t.pendingInput)
                                                     - (s.inputBytes + s.pendingInput))
<1>1. /\ ChunkBytes(s.input) \in Nat /\ s.pendingInput \in Nat
      /\ EventBytes(s.output) \in Nat /\ s.pendingOutput.bytes \in Nat
  BY BufferedTypes
<1>2. Accounted(t) /\ s.inputBytes = ChunkBytes(s.input)
  BY DEF Accounted
<1>3. /\ BufferedBytes(t) = BufferedBytes(s) + ((t.inputBytes + t.pendingInput)
                                                  - (s.inputBytes + s.pendingInput))
      /\ BufferedBytes(s) \in Int
  BY <1>1, <1>2 DEF BufferedBytes
<1> QED BY <1>2, <1>3

\* The same of the output side.
LEMMA OutputStores ==
  ASSUME NEW s, DataTypes(s), Accounted(s), NEW t,
         t.input = s.input, t.pendingInput = s.pendingInput, t.inputBytes = s.inputBytes,
         t.outputBytes = EventBytes(t.output), t.outputBytes \in Int, t.pendingOutput.bytes \in Int,
         t.outputBytes <= OutputQueueBytes, Len(t.output) <= OutputQueueItems
  PROVE  /\ Accounted(t) /\ BufferedBytes(s) \in Int
         /\ BufferedBytes(t) = BufferedBytes(s) + ((t.outputBytes + t.pendingOutput.bytes)
                                                     - (s.outputBytes + s.pendingOutput.bytes))
<1>1. /\ ChunkBytes(s.input) \in Nat /\ s.pendingInput \in Nat
      /\ EventBytes(s.output) \in Nat /\ s.pendingOutput.bytes \in Nat
  BY BufferedTypes
<1>2. Accounted(t) /\ s.outputBytes = EventBytes(s.output)
  BY DEF Accounted
<1>3. /\ BufferedBytes(t) = BufferedBytes(s) + ((t.outputBytes + t.pendingOutput.bytes)
                                                  - (s.outputBytes + s.pendingOutput.bytes))
      /\ BufferedBytes(s) \in Int
  BY <1>1, <1>2 DEF BufferedBytes
<1> QED BY <1>2, <1>3

\* The fields that hold storage are the same.
SameStorage(s, t) ==
  /\ t.input = s.input /\ t.pendingInput = s.pendingInput /\ t.inputBytes = s.inputBytes
  /\ t.output = s.output /\ t.pendingOutput = s.pendingOutput /\ t.outputBytes = s.outputBytes

\* A method that leaves them alone keeps the balance.
LEMMA SameStores ==
  ASSUME NEW s, DataTypes(s), Accounted(s), NEW t, SameStorage(s, t)
  PROVE  Stores(s, t, 0) /\ BufferedBytes(t) = BufferedBytes(s)
<1>1. Accounted(t) /\ BufferedBytes(t) = BufferedBytes(s)
  BY DEF Accounted, BufferedBytes, SameStorage
<1> QED BY <1>1, BufferedTypes DEF Stores

\* Methods that do not touch the storage.
LEMMA StorageUntouched ==
  ASSUME NEW s, HasFields(s)
  PROVE  /\ SameStorage(s, FinishInput(s)) /\ SameStorage(s, ObserveEof(s))
         /\ SameStorage(s, ConsumeTerminal(s)) /\ SameStorage(s, Retire(s))
<1> USE FieldNames DEF HasFields, SameStorage
<1>1. SameStorage(s, FinishInput(s))
  BY DEF FinishInput
<1>2. SameStorage(s, ObserveEof(s))
  BY DEF ObserveEof
<1>3. SameStorage(s, ConsumeTerminal(s))
  BY DEF ConsumeTerminal
<1>4. SameStorage(s, Retire(s))
  BY DEF Retire
<1> QED BY <1>1, <1>2, <1>3, <1>4

\* Input::stage fills the empty slot.
LEMMA StageInputStores ==
  ASSUME NEW s, HasFields(s), DataTypes(s), Accounted(s), s.pendingInput = NoChunk,
         NEW b \in Nat \ {0}
  PROVE  Stores(s, StageInput(s, b), b)
<1> DEFINE t == StageInput(s, b)
<1>1. /\ t.output = s.output /\ t.pendingOutput = s.pendingOutput /\ t.outputBytes = s.outputBytes
      /\ t.input = s.input /\ t.inputBytes = s.inputBytes /\ t.pendingInput = b
  BY FieldNames DEF HasFields, StageInput
<1> HIDE DEF t
<1>2. /\ ChunkBytes(s.input) \in Nat /\ s.inputBytes = ChunkBytes(s.input) /\ s.pendingInput = 0
      /\ s.inputBytes <= InputQueueBytes /\ Len(s.input) <= InputQueueItems
  BY BufferedTypes DEF Accounted, NoChunk
<1>3. /\ t.inputBytes = ChunkBytes(t.input) /\ t.inputBytes \in Int /\ t.pendingInput \in Int
      /\ t.inputBytes <= InputQueueBytes /\ Len(t.input) <= InputQueueItems
  BY <1>1, <1>2
<1>4. /\ Accounted(t) /\ BufferedBytes(s) \in Int
      /\ BufferedBytes(t) = BufferedBytes(s) + ((t.inputBytes + t.pendingInput)
                                                  - (s.inputBytes + s.pendingInput))
  BY <1>1, <1>3, InputStores
<1>5. (t.inputBytes + t.pendingInput) - (s.inputBytes + s.pendingInput) = b
  BY <1>1, <1>2
<1> QED BY <1>4, <1>5 DEF t, Stores

\* A chunk enters a queue that has room for it.
LEMMA EnqueueInputStores ==
  ASSUME NEW s, HasFields(s), DataTypes(s), Accounted(s), NEW b \in Nat \ {0}, InputCapacity(s, b)
  PROVE  Stores(s, EnqueueInput(s, b), b)
<1> DEFINE t == EnqueueInput(s, b)
<1>1. /\ t.output = s.output /\ t.pendingOutput = s.pendingOutput /\ t.outputBytes = s.outputBytes
      /\ t.input = Append(s.input, b) /\ t.inputBytes = s.inputBytes + b
      /\ t.pendingInput = s.pendingInput
  BY FieldNames DEF HasFields, EnqueueInput
<1> HIDE DEF t
<1>2. /\ s.input \in Seq(Nat \ {0}) /\ s.pendingInput \in Nat
      /\ ChunkBytes(s.input) \in Nat /\ Len(s.input) \in Nat /\ s.inputBytes = ChunkBytes(s.input)
  BY BufferedTypes DEF Accounted, DataTypes
<1>3. ChunkBytes(t.input) = ChunkBytes(s.input) + b /\ Len(t.input) = Len(s.input) + 1
  BY <1>1, <1>2, ChunkBytesFacts, AppendFacts
<1>4. /\ t.inputBytes = ChunkBytes(t.input) /\ t.inputBytes \in Int /\ t.pendingInput \in Int
      /\ t.inputBytes <= InputQueueBytes /\ Len(t.input) <= InputQueueItems
  BY <1>1, <1>2, <1>3, QueueLimitsAssumption DEF InputCapacity
<1>5. /\ Accounted(t) /\ BufferedBytes(s) \in Int
      /\ BufferedBytes(t) = BufferedBytes(s) + ((t.inputBytes + t.pendingInput)
                                                  - (s.inputBytes + s.pendingInput))
  BY <1>1, <1>4, InputStores
<1>6. (t.inputBytes + t.pendingInput) - (s.inputBytes + s.pendingInput) = b
  BY <1>1, <1>2, <1>3
<1> QED BY <1>5, <1>6 DEF t, Stores

\* A send that is given up frees its slot.
LEMMA AbandonInputStores ==
  ASSUME NEW s, HasFields(s), DataTypes(s), Accounted(s)
  PROVE  Frees(s, AbandonInput(s), s.pendingInput)
<1> DEFINE t == AbandonInput(s)
<1>1. /\ t.output = s.output /\ t.pendingOutput = s.pendingOutput /\ t.outputBytes = s.outputBytes
      /\ t.input = s.input /\ t.inputBytes = s.inputBytes /\ t.pendingInput = 0
  BY FieldNames DEF HasFields, AbandonInput, NoChunk
<1> HIDE DEF t
<1>2. /\ s.pendingInput \in Nat /\ ChunkBytes(s.input) \in Nat /\ s.inputBytes = ChunkBytes(s.input)
      /\ s.inputBytes <= InputQueueBytes /\ Len(s.input) <= InputQueueItems
  BY BufferedTypes DEF Accounted
<1>4. /\ t.inputBytes = ChunkBytes(t.input) /\ t.inputBytes \in Int /\ t.pendingInput \in Int
      /\ t.inputBytes <= InputQueueBytes /\ Len(t.input) <= InputQueueItems
  BY <1>1, <1>2, QueueLimitsAssumption
<1>5. /\ Accounted(t) /\ BufferedBytes(s) \in Int
      /\ BufferedBytes(t) = BufferedBytes(s) + ((t.inputBytes + t.pendingInput)
                                                  - (s.inputBytes + s.pendingInput))
  BY <1>1, <1>4, InputStores
<1>6. (t.inputBytes + t.pendingInput) - (s.inputBytes + s.pendingInput) = -s.pendingInput
  BY <1>1, <1>2
<1> QED BY <1>5, <1>6 DEF t, Frees

\* State::accept_input moves the chunk of the slot into the queue.
LEMMA AcceptInputStores ==
  ASSUME NEW s, HasFields(s), DataTypes(s), Accounted(s), s.pendingInput # NoChunk,
         InputCapacity(s, s.pendingInput)
  PROVE  Stores(s, AcceptInput(s), 0)
<1> DEFINE t == AcceptInput(s)
           b == s.pendingInput
<1>1. /\ t.output = s.output /\ t.pendingOutput = s.pendingOutput /\ t.outputBytes = s.outputBytes
      /\ t.input = Append(s.input, b) /\ t.inputBytes = s.inputBytes + b
      /\ t.pendingInput = 0
  BY FieldNames DEF HasFields, AcceptInput, EnqueueInput, NoChunk
<1> HIDE DEF t
<1>2. /\ s.input \in Seq(Nat \ {0}) /\ b \in Nat \ {0} /\ b = s.pendingInput
      /\ ChunkBytes(s.input) \in Nat /\ Len(s.input) \in Nat /\ s.inputBytes = ChunkBytes(s.input)
  BY BufferedTypes DEF Accounted, DataTypes, NoChunk
<1>3. ChunkBytes(t.input) = ChunkBytes(s.input) + b /\ Len(t.input) = Len(s.input) + 1
  BY <1>1, <1>2, ChunkBytesFacts, AppendFacts
<1>4. /\ t.inputBytes = ChunkBytes(t.input) /\ t.inputBytes \in Int /\ t.pendingInput \in Int
      /\ t.inputBytes <= InputQueueBytes /\ Len(t.input) <= InputQueueItems
  BY <1>1, <1>2, <1>3, QueueLimitsAssumption DEF InputCapacity
<1>5. /\ Accounted(t) /\ BufferedBytes(s) \in Int
      /\ BufferedBytes(t) = BufferedBytes(s) + ((t.inputBytes + t.pendingInput)
                                                  - (s.inputBytes + s.pendingInput))
  BY <1>1, <1>4, InputStores
<1>6. (t.inputBytes + t.pendingInput) - (s.inputBytes + s.pendingInput) = 0
  BY <1>1, <1>2, <1>3
<1> QED BY <1>5, <1>6 DEF t, Stores

\* The backend takes a chunk.
LEMMA PopInputStores ==
  ASSUME NEW s, HasFields(s), DataTypes(s), Accounted(s), s.input # << >>
  PROVE  Frees(s, PopInput(s), Head(s.input)) /\ Head(s.input) \in Nat \ {0}
<1> DEFINE t == PopInput(s)
           b == Head(s.input)
<1>1. /\ t.output = s.output /\ t.pendingOutput = s.pendingOutput /\ t.outputBytes = s.outputBytes
      /\ t.input = Tail(s.input) /\ t.inputBytes = s.inputBytes - b
      /\ t.pendingInput = s.pendingInput
  BY FieldNames DEF HasFields, PopInput
<1> HIDE DEF t, b
<1>2. /\ s.input \in Seq(Nat \ {0}) /\ s.pendingInput \in Nat
      /\ ChunkBytes(s.input) \in Nat /\ s.inputBytes = ChunkBytes(s.input)
      /\ s.inputBytes <= InputQueueBytes /\ Len(s.input) <= InputQueueItems
  BY BufferedTypes DEF Accounted, DataTypes
<1>3. /\ ChunkBytes(t.input) = ChunkBytes(s.input) - b /\ b \in Nat \ {0}
      /\ Len(t.input) = Len(s.input) - 1 /\ Len(s.input) \in Nat
  BY <1>1, <1>2, ChunkBytesFacts, TailFacts DEF b
<1>4. /\ t.inputBytes = ChunkBytes(t.input) /\ t.inputBytes \in Int /\ t.pendingInput \in Int
      /\ t.inputBytes <= InputQueueBytes /\ Len(t.input) <= InputQueueItems
  BY <1>1, <1>2, <1>3, QueueLimitsAssumption
<1>5. /\ Accounted(t) /\ BufferedBytes(s) \in Int
      /\ BufferedBytes(t) = BufferedBytes(s) + ((t.inputBytes + t.pendingInput)
                                                  - (s.inputBytes + s.pendingInput))
  BY <1>1, <1>4, InputStores
<1>6. (t.inputBytes + t.pendingInput) - (s.inputBytes + s.pendingInput) = -b
  BY <1>1, <1>2, <1>3
<1> QED BY <1>5, <1>6, <1>3 DEF t, b, Frees

\* Writer::stage fills the empty slot.
LEMMA StageOutputStores ==
  ASSUME NEW s, HasFields(s), DataTypes(s), Accounted(s), s.pendingOutput = NoEvent,
         NEW b \in Nat \ {0}, NEW finished
  PROVE  Stores(s, StageOutput(s, finished, b), b)
<1> DEFINE t == StageOutput(s, finished, b)
<1>1. /\ t.input = s.input /\ t.pendingInput = s.pendingInput /\ t.inputBytes = s.inputBytes
      /\ t.output = s.output /\ t.outputBytes = s.outputBytes /\ t.pendingOutput.bytes = b
  BY FieldNames DEF HasFields, StageOutput
<1> HIDE DEF t
<1>2. /\ EventBytes(s.output) \in Nat /\ s.outputBytes = EventBytes(s.output)
      /\ s.pendingOutput.bytes = 0
      /\ s.outputBytes <= OutputQueueBytes /\ Len(s.output) <= OutputQueueItems
  BY BufferedTypes DEF Accounted, NoEvent
<1>4. /\ t.outputBytes = EventBytes(t.output) /\ t.outputBytes \in Int /\ t.pendingOutput.bytes \in Int
      /\ t.outputBytes <= OutputQueueBytes /\ Len(t.output) <= OutputQueueItems
  BY <1>1, <1>2, QueueLimitsAssumption
<1>5. /\ Accounted(t) /\ BufferedBytes(s) \in Int
      /\ BufferedBytes(t) = BufferedBytes(s) + ((t.outputBytes + t.pendingOutput.bytes)
                                                  - (s.outputBytes + s.pendingOutput.bytes))
  BY <1>1, <1>4, OutputStores
<1>6. (t.outputBytes + t.pendingOutput.bytes) - (s.outputBytes + s.pendingOutput.bytes) = b
  BY <1>1, <1>2
<1> QED BY <1>5, <1>6 DEF t, Stores

\* State::accept_output moves the event of the slot into the queue.
LEMMA AcceptOutputStores ==
  ASSUME NEW s, HasFields(s), DataTypes(s), Accounted(s), s.pendingOutput # NoEvent,
         OutputCapacity(s, s.pendingOutput.bytes)
  PROVE  Stores(s, AcceptOutput(s), 0)
<1> DEFINE t == AcceptOutput(s)
           e == s.pendingOutput
           b == e.bytes
<1>1. /\ t.input = s.input /\ t.pendingInput = s.pendingInput /\ t.inputBytes = s.inputBytes
      /\ t.output = Append(s.output, e) /\ t.outputBytes = s.outputBytes + b
      /\ t.pendingOutput = NoEvent
  BY FieldNames DEF HasFields, AcceptOutput
<1> HIDE DEF t
<1>2. /\ s.output \in Seq(Event) /\ e \in Event /\ b \in Nat \ {0} /\ b = s.pendingOutput.bytes
      /\ EventBytes(s.output) \in Nat /\ Len(s.output) \in Nat /\ s.outputBytes = EventBytes(s.output)
  BY BufferedTypes DEF Accounted, DataTypes, Event
<1>3. /\ EventBytes(t.output) = EventBytes(s.output) + b /\ Len(t.output) = Len(s.output) + 1
      /\ t.pendingOutput.bytes = 0
  BY <1>1, <1>2, EventBytesFacts, AppendFacts DEF NoEvent
<1>4. /\ t.outputBytes = EventBytes(t.output) /\ t.outputBytes \in Int /\ t.pendingOutput.bytes \in Int
      /\ t.outputBytes <= OutputQueueBytes /\ Len(t.output) <= OutputQueueItems
  BY <1>1, <1>2, <1>3, QueueLimitsAssumption DEF OutputCapacity
<1>5. /\ Accounted(t) /\ BufferedBytes(s) \in Int
      /\ BufferedBytes(t) = BufferedBytes(s) + ((t.outputBytes + t.pendingOutput.bytes)
                                                  - (s.outputBytes + s.pendingOutput.bytes))
  BY <1>1, <1>4, OutputStores
<1>6. (t.outputBytes + t.pendingOutput.bytes) - (s.outputBytes + s.pendingOutput.bytes) = 0
  BY <1>1, <1>2, <1>3
<1> QED BY <1>5, <1>6 DEF t, Stores

\* The user takes an event.
LEMMA PopOutputStores ==
  ASSUME NEW s, HasFields(s), DataTypes(s), Accounted(s), s.output # << >>
  PROVE  Frees(s, PopOutput(s), Head(s.output).bytes) /\ Head(s.output).bytes \in Nat \ {0}
<1> DEFINE t == PopOutput(s)
           b == Head(s.output).bytes
<1>1. /\ t.input = s.input /\ t.pendingInput = s.pendingInput /\ t.inputBytes = s.inputBytes
      /\ t.output = Tail(s.output) /\ t.outputBytes = s.outputBytes - b
      /\ t.pendingOutput = s.pendingOutput
  BY FieldNames DEF HasFields, PopOutput
<1> HIDE DEF t, b
<1>2. /\ s.output \in Seq(Event) /\ s.pendingOutput.bytes \in Nat
      /\ EventBytes(s.output) \in Nat /\ s.outputBytes = EventBytes(s.output)
      /\ s.outputBytes <= OutputQueueBytes /\ Len(s.output) <= OutputQueueItems
  BY BufferedTypes DEF Accounted, DataTypes
<1>3. /\ EventBytes(t.output) = EventBytes(s.output) - b /\ b \in Nat \ {0}
      /\ Len(t.output) = Len(s.output) - 1 /\ Len(s.output) \in Nat
  BY <1>1, <1>2, EventBytesFacts, TailFacts DEF b
<1>4. /\ t.outputBytes = EventBytes(t.output) /\ t.outputBytes \in Int /\ t.pendingOutput.bytes \in Int
      /\ t.outputBytes <= OutputQueueBytes /\ Len(t.output) <= OutputQueueItems
  BY <1>1, <1>2, <1>3, QueueLimitsAssumption
<1>5. /\ Accounted(t) /\ BufferedBytes(s) \in Int
      /\ BufferedBytes(t) = BufferedBytes(s) + ((t.outputBytes + t.pendingOutput.bytes)
                                                  - (s.outputBytes + s.pendingOutput.bytes))
  BY <1>1, <1>4, OutputStores
<1>6. (t.outputBytes + t.pendingOutput.bytes) - (s.outputBytes + s.pendingOutput.bytes) = -b
  BY <1>1, <1>2, <1>3
<1> QED BY <1>5, <1>6, <1>3 DEF t, b, Frees

\* A failed request buffers nothing.
LEMMA EmptyStores ==
  ASSUME NEW s, DataTypes(s), NEW t,
         t.input = << >>, t.pendingInput = NoChunk, t.output = << >>, t.pendingOutput = NoEvent,
         t.inputBytes = 0, t.outputBytes = 0
  PROVE  Frees(s, t, BufferedBytes(s))
<1>1. << >> \in Seq(Nat \ {0}) /\ << >> \in Seq(Event)
  BY EmptySeq
<1>2. ChunkBytes(<< >>) = 0 /\ EventBytes(<< >>) = 0
  BY <1>1, ChunkBytesFacts, EventBytesFacts
<1>3. BufferedBytes(t) = 0
  BY <1>2 DEF BufferedBytes, NoChunk, NoEvent
<1>4. Accounted(t)
  BY <1>2, QueueLimitsAssumption DEF Accounted
<1> QED BY <1>3, <1>4, BufferedTypes DEF Frees

\* State::fail hands back what was buffered, unless it finds an ending.
LEMMA FailStores ==
  ASSUME NEW s, HasFields(s), DataTypes(s), Accounted(s), NEW error
  PROVE  Frees(s, Fail(s, error), DiscardedByFail(s)) /\ DiscardedByFail(s) \in Nat
<1>0. BufferedBytes(s) \in Nat
  BY BufferedTypes
<1>1. CASE FailIgnored(s)
  <2>1. Fail(s, error) = s /\ DiscardedByFail(s) = 0
    BY <1>1 DEF Fail, DiscardedByFail
  <2> QED BY <1>0, <2>1 DEF Frees
<1>2. CASE ~FailIgnored(s)
  <2> DEFINE t == Fail(s, error)
  <2>1. /\ t.input = << >> /\ t.pendingInput = NoChunk
        /\ t.output = << >> /\ t.pendingOutput = NoEvent
        /\ t.inputBytes = 0 /\ t.outputBytes = 0
    BY <1>2, FailFields
  <2>2. DiscardedByFail(s) = BufferedBytes(s)
    BY <1>2 DEF DiscardedByFail
  <2> HIDE DEF t
  <2>3. Frees(s, t, BufferedBytes(s))
    BY <2>1, EmptyStores
  <2> QED BY <1>0, <2>2, <2>3 DEF t
<1> QED BY <1>1, <1>2

\* State::complete_cleanup hands back what it discards.
LEMMA CleanupStores ==
  ASSUME NEW s, HasFields(s), OutcomeInv(s), DataTypes(s), Accounted(s), NEW result \in Result
  PROVE  /\ Frees(s, CompleteCleanup(s, result), DiscardedByCleanup(s, result))
         /\ DiscardedByCleanup(s, result) \in Nat
<1>0. BufferedBytes(s) \in Nat
  BY BufferedTypes
<1>1. CASE s.cleanup # "Pending"
  <2>1. CompleteCleanup(s, result) = s /\ DiscardedByCleanup(s, result) = 0
    BY <1>1 DEF CompleteCleanup, DiscardedByCleanup
  <2> QED BY <1>0, <2>1 DEF Frees
<1>2. CASE s.cleanup = "Pending"
  <2> DEFINE c == Cleaned(s, result)
             t == CompleteCleanup(s, result)
             d == DiscardedByCleanup(s, result)
  <2>1. t = Retire(c) /\ HasFields(c)
    BY <1>2, CleanedFields
  <2>2. \/ /\ ~Failed(s) /\ CleanupError(s, result) # "None"
           /\ c.input = << >> /\ c.pendingInput = NoChunk
           /\ c.output = << >> /\ c.pendingOutput = NoEvent
           /\ c.inputBytes = 0 /\ c.outputBytes = 0
        \/ /\ Failed(s) \/ CleanupError(s, result) = "None"
           /\ SameStorage(s, c)
    BY <1>2, CleanedFields DEF SameStorage
  <2> HIDE DEF c, t
  <2>3. SameStorage(c, t)
    BY <2>1, StorageUntouched
  <2>4. CASE /\ ~Failed(s) /\ CleanupError(s, result) # "None"
             /\ c.input = << >> /\ c.pendingInput = NoChunk
             /\ c.output = << >> /\ c.pendingOutput = NoEvent
             /\ c.inputBytes = 0 /\ c.outputBytes = 0
    <3>1. s.delivery # "TerminalConsumed"
      BY <1>2, <2>4 DEF OutcomeInv, Failed, ErrorKind
    <3>2. d = BufferedBytes(s)
      BY <1>2, <2>4, <3>1 DEF DiscardedByCleanup, DiscardedByFail, FailIgnored
    <3> HIDE DEF d
    <3>3. Frees(s, t, BufferedBytes(s))
      BY <2>3, <2>4, EmptyStores DEF SameStorage
    <3> QED BY <1>0, <3>2, <3>3 DEF d, t
  <2>5. CASE (Failed(s) \/ CleanupError(s, result) = "None") /\ SameStorage(s, c)
    <3>1. d = 0
      BY <2>5 DEF DiscardedByCleanup, DiscardedByFail, FailIgnored
    <3> HIDE DEF d
    <3>2. SameStorage(s, t)
      BY <2>3, <2>5 DEF SameStorage
    <3>3. Stores(s, t, 0)
      BY <3>2, SameStores
    <3> QED BY <1>0, <3>1, <3>3 DEF d, t, Stores, Frees
  <2> QED BY <2>2, <2>4, <2>5
<1> QED BY <1>1, <1>2
-----------------------------------------------------------------------------
(* A step keeps the balance.                                               *)

\* An actor with nothing left to do has dropped its leases; the settings of a
\* request are charged when it is registered.
Released(r) ==
  /\ \A a \in Actor \ {"guard"} : pc[r][a] = "Idle" => hold[r][a] = 0
  /\ launch[r] = "Idle" => hold[r]["guard"] = 0

\* The counter is the storage of all requests, and within the budget.
StorageInv ==
  /\ bytes \in Int /\ bytes <= MaxBufferedBytes
  /\ packet \in [Requests -> Nat] /\ hold \in [Requests -> [Actor -> Nat]]
  /\ bytes = Total(Charged, Requests)
  /\ \A r \in Requests : Accounted(st[r]) /\ Released(r)

\* A step on request r changes the counter by what it changes of its storage.
StorageAfter(r) ==
  /\ Accounted(st'[r])
  /\ packet'[r] \in Nat /\ \A a \in Actor : hold'[r][a] \in Nat
  /\ \A a \in Actor \ {"guard"} : pc'[r][a] = "Idle" => hold'[r][a] = 0
  /\ launch'[r] = "Idle" => hold'[r]["guard"] = 0
  /\ bytes' <= MaxBufferedBytes
  /\ bytes' = bytes + (ChargeOf(st'[r], packet'[r], hold'[r])
                        - ChargeOf(st[r], packet[r], hold[r]))

\* The charge of a request is a number.
LEMMA ChargeType ==
  ASSUME NEW s, BufferedBytes(s) \in Int, NEW p \in Int,
         NEW h, \A a \in Actor : h[a] \in Int
  PROVE  ChargeOf(s, p, h) \in Int
BY ActorsFinite, TotalType DEF ChargeOf

\* What is known of request r before a step on it.
LEMMA StorageBefore ==
  ASSUME LifecycleInv, Outcomes, DataInv, StorageInv, NEW r \in Requests
  PROVE  /\ Shape /\ Ledger /\ st = [q \in Requests |-> st[q]]
         /\ HasFields(st[r]) /\ OutcomeInv(st[r]) /\ RecordData(st[r]) /\ DataTypes(st[r])
         /\ Accounted(st[r]) /\ BufferedBytes(st[r]) \in Nat
         /\ Released(r) /\ RequestData(r) /\ RequestInv(r)
         /\ bytes \in Int /\ bytes <= MaxBufferedBytes
         /\ packet \in [Requests -> Nat] /\ packet[r] \in Nat
         /\ \A a \in Actor : hold[r][a] \in Nat
         /\ pc \in [Requests -> [Actor -> Continuations]]
<1>1. /\ Shape /\ Ledger /\ st = [q \in Requests |-> st[q]]
      /\ HasFields(st[r]) /\ OutcomeInv(st[r]) /\ RecordData(st[r])
      /\ RequestData(r) /\ RequestInv(r)
  BY DataBefore
<1>2. DataTypes(st[r])
  BY <1>1 DEF RecordData
<1>3. BufferedBytes(st[r]) \in Nat
  BY <1>2, BufferedTypes
<1>4. /\ Accounted(st[r]) /\ Released(r) /\ bytes \in Int /\ bytes <= MaxBufferedBytes
      /\ packet \in [Requests -> Nat] /\ hold \in [Requests -> [Actor -> Nat]]
  BY DEF StorageInv
<1>5. pc \in [Requests -> [Actor -> Continuations]]
  BY <1>1 DEF Shape
<1> QED BY <1>1, <1>2, <1>3, <1>4, <1>5

\* A step that does not touch the storage of request r.
LEMMA IdleStorage ==
  ASSUME LifecycleInv, Outcomes, DataInv, StorageInv, NEW r \in Requests,
         UNCHANGED bytes, st'[r] = st[r], packet'[r] = packet[r], hold'[r] = hold[r],
         launch'[r] = "Idle" => launch[r] = "Idle",
         \A a \in Actor \ {"guard"} : pc'[r][a] = "Idle" => hold[r][a] = 0
  PROVE  StorageAfter(r)
<1>1. /\ Accounted(st[r]) /\ BufferedBytes(st[r]) \in Nat /\ Released(r)
      /\ bytes \in Int /\ bytes <= MaxBufferedBytes /\ packet[r] \in Nat
      /\ \A a \in Actor : hold[r][a] \in Nat
  BY StorageBefore
<1>2. ChargeOf(st[r], packet[r], hold[r]) \in Int
  BY <1>1, ChargeType
<1> QED BY <1>1, <1>2 DEF StorageAfter, Released

\* Actor a of request r goes on with b bytes of leases.
LEMMA ContinueStorage ==
  ASSUME LifecycleInv, Outcomes, DataInv, StorageInv, NEW r \in Requests,
         NEW a \in Actor, NEW next, NEW b \in Nat, Continue(r, a, next, b),
         next = "Idle" => b = 0, launch'[r] = "Idle" => launch[r] = "Idle" /\ b = 0,
         NEW t, st'[r] = t, Accounted(t), BufferedBytes(t) \in Int,
         packet'[r] \in Nat, bytes' <= MaxBufferedBytes,
         bytes' = bytes + ((BufferedBytes(t) - BufferedBytes(st[r]))
                            + (packet'[r] - packet[r]) + (b - hold[r][a]))
  PROVE  StorageAfter(r)
<1>1. /\ Shape /\ Ledger /\ BufferedBytes(st[r]) \in Nat /\ Released(r)
      /\ bytes \in Int /\ packet[r] \in Nat /\ \A c \in Actor : hold[r][c] \in Nat
  BY StorageBefore
<1>2. \A c \in Actor : /\ pc'[r][c] = IF c = a THEN next ELSE pc[r][c]
                       /\ hold'[r][c] = IF c = a THEN b ELSE hold[r][c]
  BY <1>1, ContinueFacts
<1>3. Total(hold'[r], Actor) = Total(hold[r], Actor) - hold[r][a] + b
  <2>1. /\ \A c \in Actor : hold[r][c] \in Int
        /\ hold'[r][a] \in Int /\ hold'[r][a] = b
        /\ \A c \in Actor \ {a} : hold'[r][c] = hold[r][c]
    BY <1>1, <1>2
  <2> DEFINE h == hold[r]
             k == hold'[r]
  <2>2. /\ \A c \in Actor : h[c] \in Int
        /\ k[a] \in Int /\ \A c \in Actor \ {a} : k[c] = h[c]
    BY <2>1
  <2> HIDE DEF h, k
  <2>3. Total(k, Actor) = Total(h, Actor) - h[a] + k[a]
    BY <2>2, ActorsFinite, TotalUpdate
  <2> QED BY <2>1, <2>3 DEF h, k
<1>4. Total(hold[r], Actor) \in Nat /\ hold[r][a] \in Nat
  BY <1>1, ActorsFinite, TotalType
<1>5. bytes' = bytes + (ChargeOf(t, packet'[r], hold'[r]) - ChargeOf(st[r], packet[r], hold[r]))
  BY <1>1, <1>3, <1>4 DEF ChargeOf
<1>6. \A c \in Actor : hold'[r][c] \in Nat
  BY <1>1, <1>2
<1>7. /\ \A c \in Actor \ {"guard"} : pc'[r][c] = "Idle" => hold'[r][c] = 0
      /\ launch'[r] = "Idle" => hold'[r]["guard"] = 0
  BY <1>1, <1>2 DEF Released, Actor
<1> QED BY <1>5, <1>6, <1>7 DEF StorageAfter

\* An ending of request r hands b bytes of leases to the actor that caused it.
LEMMA EndStorage ==
  ASSUME LifecycleInv, Outcomes, DataInv, StorageInv, NEW r \in Requests,
         NEW a \in Actor, NEW t, NEW b \in Nat, Transition(r, a, t, b), Frees(st[r], t, b),
         hold[r][a] = 0, launch[r] # "Idle", UNCHANGED << bytes, packet, launch >>
  PROVE  StorageAfter(r)
<1>1. /\ st = [q \in Requests |-> st[q]] /\ BufferedBytes(st[r]) \in Nat
      /\ bytes \in Int /\ bytes <= MaxBufferedBytes /\ packet[r] \in Nat
  BY StorageBefore
<1>2. st'[r] = t
  BY <1>1 DEF Transition
<1>3. PICK next : Continue(r, a, next, b) /\ (next = "Idle" => b = 0)
  BY DEF Transition
<1>4. Accounted(t) /\ BufferedBytes(t) = BufferedBytes(st[r]) - b
  BY DEF Frees
<1>5. BufferedBytes(t) \in Int
  BY <1>1, <1>4
<1>6. bytes' = bytes + ((BufferedBytes(t) - BufferedBytes(st[r]))
                         + (packet'[r] - packet[r]) + (b - hold[r][a]))
  BY <1>1, <1>4
<1> QED BY <1>1, <1>2, <1>3, <1>4, <1>5, <1>6, ContinueStorage

\* A failure.
LEMMA FailStorage ==
  ASSUME LifecycleInv, Outcomes, DataInv, StorageInv, NEW r \in Requests,
         NEW a \in Actor, NEW error, FailRequest(r, a, error),
         hold[r][a] = 0, launch[r] # "Idle", UNCHANGED << bytes, packet, launch >>
  PROVE  StorageAfter(r)
<1> DEFINE t == Fail(st[r], error)
           b == DiscardedByFail(st[r])
<1>1. HasFields(st[r]) /\ DataTypes(st[r]) /\ Accounted(st[r])
  BY StorageBefore
<1>2. Frees(st[r], t, b) /\ b \in Nat
  BY <1>1, FailStores
<1>3. Transition(r, a, t, b)
  BY DEF FailRequest
<1> HIDE DEF t, b
<1> QED BY <1>2, <1>3, EndStorage

\* A step of actor a that buffers n bytes more (the leases it held or has
\* reserved), or none.
LEMMA StoringStorage ==
  ASSUME LifecycleInv, Outcomes, DataInv, StorageInv, NEW r \in Requests,
         NEW a \in Actor, NEW next, Continue(r, a, next, 0), NEW n \in Nat,
         NEW t, st' = [st EXCEPT ![r] = t], Stores(st[r], t, n),
         UNCHANGED << launch, packet >>,
         \/ hold[r][a] = n /\ UNCHANGED bytes
         \/ hold[r][a] = 0 /\ bytes' = bytes + n /\ BudgetFor(n)
  PROVE  StorageAfter(r)
<1>1. /\ st = [q \in Requests |-> st[q]] /\ BufferedBytes(st[r]) \in Nat
      /\ bytes \in Int /\ bytes <= MaxBufferedBytes /\ packet[r] \in Nat
  BY StorageBefore
<1>2. st'[r] = t
  BY <1>1
<1>4. Accounted(t) /\ BufferedBytes(t) = BufferedBytes(st[r]) + n
  BY DEF Stores
<1>5. BufferedBytes(t) \in Int /\ MaxBufferedBytes \in Nat
  BY <1>1, <1>4, CoreAssumption
<1>6. /\ bytes' = bytes + ((BufferedBytes(t) - BufferedBytes(st[r]))
                            + (packet'[r] - packet[r]) + (0 - hold[r][a]))
      /\ bytes' <= MaxBufferedBytes
  BY <1>1, <1>4, <1>5 DEF BudgetFor
<1> QED BY <1>1, <1>2, <1>4, <1>5, <1>6, ContinueStorage

\* A step of actor a that takes b bytes out of what is buffered, to hold them
\* or to give them to the backend.
LEMMA FreeingStorage ==
  ASSUME LifecycleInv, Outcomes, DataInv, StorageInv, NEW r \in Requests,
         NEW a \in Actor, NEW next, NEW b \in Nat, NEW d \in Nat, Continue(r, a, next, b),
         next # "Idle", NEW t, st' = [st EXCEPT ![r] = t], Frees(st[r], t, d),
         UNCHANGED << launch, bytes >>, launch[r] # "Idle", hold[r][a] = 0,
         \/ b = d /\ UNCHANGED packet
         \/ b = 0 /\ packet[r] = 0 /\ packet'[r] = d
  PROVE  StorageAfter(r)
<1>1. /\ st = [q \in Requests |-> st[q]] /\ BufferedBytes(st[r]) \in Nat
      /\ bytes \in Int /\ bytes <= MaxBufferedBytes /\ packet[r] \in Nat
  BY StorageBefore
<1>2. st'[r] = t
  BY <1>1
<1>4. Accounted(t) /\ BufferedBytes(t) = BufferedBytes(st[r]) - d
  BY DEF Frees
<1>5. BufferedBytes(t) \in Int /\ packet'[r] \in Nat
  BY <1>1, <1>4
<1>6. bytes' = bytes + ((BufferedBytes(t) - BufferedBytes(st[r]))
                         + (packet'[r] - packet[r]) + (b - hold[r][a]))
  BY <1>1, <1>4
<1> QED BY <1>1, <1>2, <1>4, <1>5, <1>6, ContinueStorage

\* A step of actor a that takes or returns leases and leaves the state alone.
LEMMA LeaseStorage ==
  ASSUME LifecycleInv, Outcomes, DataInv, StorageInv, NEW r \in Requests,
         NEW a \in Actor, NEW next, NEW b \in Nat, Continue(r, a, next, b),
         next = "Idle" => b = 0, UNCHANGED << launch, packet, st >>,
         b # 0 => launch[r] # "Idle",
         \/ hold[r][a] = b /\ UNCHANGED bytes
         \/ hold[r][a] = 0 /\ bytes' = bytes + b /\ BudgetFor(b)
         \/ b = 0 /\ bytes' = bytes - hold[r][a]
  PROVE  StorageAfter(r)
<1>1. /\ BufferedBytes(st[r]) \in Nat /\ Accounted(st[r])
      /\ bytes \in Int /\ bytes <= MaxBufferedBytes /\ packet[r] \in Nat /\ hold[r][a] \in Nat
  BY StorageBefore
<1>2. MaxBufferedBytes \in Nat
  BY CoreAssumption
<1>3. /\ bytes' = bytes + ((BufferedBytes(st[r]) - BufferedBytes(st[r]))
                            + (packet'[r] - packet[r]) + (b - hold[r][a]))
      /\ bytes' <= MaxBufferedBytes
  BY <1>1, <1>2 DEF BudgetFor
<1> QED BY <1>1, <1>3, ContinueStorage

-----------------------------------------------------------------------------
(* What each action does to the storage.                                   *)

\* Client::start charges the settings of a request.
LEMMA StartStorage ==
  ASSUME LifecycleInv, Outcomes, DataInv, StorageInv, NEW r \in Requests, Start(r)
  PROVE  StorageAfter(r)
<1>0. /\ Shape /\ Ledger /\ BufferedBytes(st[r]) \in Nat /\ Accounted(st[r]) /\ Released(r)
      /\ RequestInv(r) /\ packet[r] \in Nat /\ \A a \in Actor : hold[r][a] \in Nat
      /\ bytes \in Int /\ bytes <= MaxBufferedBytes
      /\ launch \in [Requests -> {"Idle", "Launching", "Started", "Refused"}]
      /\ pc \in [Requests -> [Actor -> Continuations]]
      /\ hold = [q \in Requests |-> [a \in Actor |-> hold[q][a]]]
  BY StorageBefore DEF Shape, Ledger
<1>1. CASE Register(r)
  <2> DEFINE h == hold[r]
             k == hold'[r]
  <2>1. SettingsBytes \in Nat /\ MaxBufferedBytes \in Nat
    BY CoreAssumption
  <2>2. /\ launch[r] = "Idle" /\ launch'[r] # "Idle" /\ bytes' = bytes + SettingsBytes
        /\ BudgetFor(SettingsBytes) /\ UNCHANGED << st, pc, packet >>
        /\ hold' = [hold EXCEPT ![r]["guard"] = SettingsBytes]
    BY <1>0, <1>1 DEF Register
  <2>3. \A a \in Actor : k[a] = IF a = "guard" THEN SettingsBytes ELSE h[a]
    BY <1>0, <2>2
  <2>4. /\ \A a \in Actor : h[a] \in Nat /\ k[a] \in Nat
        /\ "guard" \in Actor /\ h["guard"] = 0
    BY <1>0, <2>1, <2>2, <2>3 DEF Released, Actor
  <2>5. \A a \in Actor \ {"guard"} : pc'[r][a] = "Idle" => k[a] = 0
    BY <1>0, <2>2, <2>3 DEF Released
  <2> HIDE DEF h, k
  <2>6. Total(k, Actor) = Total(h, Actor) - h["guard"] + k["guard"]
    <3>1. /\ \A a \in Actor : h[a] \in Int
          /\ k["guard"] \in Int /\ \A a \in Actor \ {"guard"} : k[a] = h[a]
      BY <2>3, <2>4
    <3> QED BY <2>4, <3>1, ActorsFinite, TotalUpdate
  <2>7. Total(h, Actor) \in Nat
    BY <2>4, ActorsFinite, TotalType
  <2>8. bytes' = bytes + (ChargeOf(st[r], packet[r], k) - ChargeOf(st[r], packet[r], h))
    BY <1>0, <2>1, <2>2, <2>3, <2>4, <2>6, <2>7 DEF ChargeOf
  <2>9. bytes' <= MaxBufferedBytes
    BY <1>0, <2>1, <2>2 DEF BudgetFor
  <2> QED BY <1>0, <2>2, <2>4, <2>5, <2>8, <2>9 DEF StorageAfter, h, k
<1>2. CASE LaunchOk(r)
  BY <1>0, <1>2, IdleStorage DEF LaunchOk, coreVars, Released
<1>3. CASE LaunchError(r)
  <2>1. \A a \in Actor \ {"guard"} : pc'[r][a] = pc[r][a]
    BY <1>0, <1>3 DEF LaunchError
  <2> QED BY <1>0, <1>3, <2>1, IdleStorage DEF LaunchError, coreVars, Released
<1> QED BY <1>1, <1>2, <1>3 DEF Start

\* What an actor does after its critical section.
LEMMA ContinuationStorage ==
  ASSUME LifecycleInv, Outcomes, DataInv, StorageInv, NEW r \in Requests, Continuation(r)
  PROVE  StorageAfter(r)
<1>0. /\ Shape /\ Ledger /\ HasFields(st[r]) /\ DataTypes(st[r]) /\ Accounted(st[r]) /\ Released(r)
      /\ RequestInv(r) /\ \A a \in Actor : hold[r][a] \in Nat
      /\ pc \in [Requests -> [Actor -> Continuations]]
      /\ BufferedBytes(st[r]) \in Nat
  BY StorageBefore
<1>1. PICK a \in Actor : DropLeases(r, a) \/ Unregister(r, a) \/ Changed(r, a)
  BY DEF Continuation
<1>2. CASE DropLeases(r, a)
  <2>1. PICK next : Continue(r, a, next, 0)
    BY <1>2 DEF DropLeases
  <2>2. bytes' = bytes - hold[r][a] /\ UNCHANGED << launch, packet, st >>
    BY <1>2 DEF DropLeases, endVars
  <2> QED BY <2>1, <2>2, LeaseStorage
<1>3. CASE Unregister(r, a)
  <2>1. /\ UNCHANGED << bytes, st, hold, launch, packet >>
        /\ hold[r][a] = 0 /\ pc' = [pc EXCEPT ![r][a] = "Idle"]
    BY <1>3 DEF Unregister, endVars
  <2>2. \A c \in Actor \ {"guard"} : pc'[r][c] = "Idle" => hold[r][c] = 0
    BY <1>0, <2>1 DEF Released
  <2> QED BY <2>1, <2>2, IdleStorage
<1>4. CASE Changed(r, a)
  <2> DEFINE t == Retire(st[r])
  <2>1. /\ Transition(r, a, t, 0) /\ hold[r][a] = 0 /\ pc[r][a] = "Changed"
        /\ UNCHANGED << bytes, packet, launch >>
    BY <1>4 DEF Changed, coreVars, endVars
  <2>2. Accounted(t) /\ BufferedBytes(t) = BufferedBytes(st[r])
    BY <1>0, StorageUntouched, SameStores DEF Stores
  <2>3. Frees(st[r], t, 0)
    BY <1>0, <2>2 DEF Frees
  <2>4. launch[r] # "Idle"
    BY <1>0, <2>1 DEF RequestInv, Untouched
  <2> HIDE DEF t
  <2> QED BY <2>1, <2>3, <2>4, EndStorage
<1> QED BY <1>1, <1>2, <1>3, <1>4

\* A handle exists only after the launch.
LEMMA HandlesStarted ==
  ASSUME LifecycleInv, Outcomes, DataInv, StorageInv, NEW r \in Requests
  PROVE  /\ inputEnd[r] # "None" => launch[r] = "Started"
         /\ outputEnd[r] # "None" => launch[r] # "Idle"
         /\ writer[r] # "Gone" => launch[r] = "Started"
         /\ guard[r] # "None" => launch[r] # "Idle"
         /\ \A a \in Actor : pc[r][a] # "Idle" => launch[r] # "Idle"
         /\ r \in registered => launch[r] # "Idle"
         /\ r \in toFail => launch[r] # "Idle"
BY StorageBefore DEF RequestData, Handles, RequestInv, Untouched

\* The sending side of a user.
LEMMA SendStorage ==
  ASSUME LifecycleInv, Outcomes, DataInv, StorageInv, NEW r \in Requests,
         \/ \E b \in ItemBytes : SendReserve(r, b) \/ TrySend(r, b)
         \/ SendStage(r) \/ PollSend(r) \/ DropSend(r) \/ FinishSending(r) \/ DropInput(r)
  PROVE  StorageAfter(r)
<1> DEFINE s == st[r]
<1>0. /\ HasFields(s) /\ DataTypes(s) /\ Accounted(s) /\ Released(r)
      /\ BufferedBytes(s) \in Nat /\ \A a \in Actor : hold[r][a] \in Nat
      /\ InputSide(s, inputEnd[r])
      /\ Reserved(pc[r]["input"], inputEnd[r], "Open", hold[r]["input"])
      /\ "input" \in Actor
      /\ inputEnd[r] # "None" => launch[r] = "Started"
  BY StorageBefore, HandlesStarted DEF RequestData, Actor
<1>00. pc[r]["input"] = "Idle" => hold[r]["input"] = 0
  BY <1>0 DEF Released
<1> HIDE DEF s
<1>1. ASSUME NEW b \in ItemBytes, SendReserve(r, b) PROVE StorageAfter(r)
  <2>1. /\ Continue(r, "input", "Stage", b) /\ bytes' = bytes + b /\ BudgetFor(b)
        /\ UNCHANGED << launch, packet, st >> /\ launch[r] = "Started" /\ hold[r]["input"] = 0
    BY <1>0, <1>00, <1>1 DEF SendReserve, endVars, Ready
  <2>2. b \in Nat
    BY ItemsAreBytes
  <2> QED BY <1>0, <2>1, <2>2, LeaseStorage
<1>2. ASSUME NEW b \in ItemBytes, TrySend(r, b) PROVE StorageAfter(r)
  <2> DEFINE t == EnqueueInput(s, b)
  <2>1. /\ Continue(r, "input", "Changed", 0) /\ bytes' = bytes + b /\ BudgetFor(b)
        /\ st' = [st EXCEPT ![r] = t] /\ InputCapacity(s, b)
        /\ UNCHANGED << launch, packet >> /\ hold[r]["input"] = 0
    BY <1>0, <1>00, <1>2 DEF TrySend, endVars, Ready, s
  <2>2. Stores(s, t, b) /\ b \in Nat
    BY <1>0, <2>1, ItemsAreBytes, EnqueueInputStores
  <2> HIDE DEF t
  <2> QED BY <1>0, <2>1, <2>2, StoringStorage DEF s
<1>3. CASE SendStage(r)
  <2>1. /\ inputEnd[r] = "Open" /\ pc[r]["input"] = "Stage" /\ launch[r] = "Started"
        /\ hold[r]["input"] \in Nat \ {0}
        /\ UNCHANGED << bytes, launch, packet >>
    BY <1>0, <1>3, ItemsAreBytes DEF SendStage, coreVars, Reserved
  <2>2. CASE /\ st' = [st EXCEPT ![r] = StageInput(@, hold[r]["input"])]
             /\ Continue(r, "input", "Idle", 0)
    <3> DEFINE t == StageInput(s, hold[r]["input"])
    <3>1. st' = [st EXCEPT ![r] = t]
      BY <2>2 DEF s
    <3>2. s.pendingInput = NoChunk
      BY <1>0, <2>1 DEF InputSide
    <3>3. Stores(s, t, hold[r]["input"])
      BY <1>0, <2>1, <3>2, StageInputStores
    <3> HIDE DEF t
    <3> QED BY <1>0, <2>1, <2>2, <3>1, <3>3, StoringStorage DEF s
  <2>3. CASE Continue(r, "input", "Apply", hold[r]["input"]) /\ UNCHANGED st
    BY <1>0, <2>1, <2>3, LeaseStorage
  <2> QED BY <1>3, <2>2, <2>3 DEF SendStage
<1>4. CASE PollSend(r)
  <2>1. /\ inputEnd[r] = "Sending" /\ Continue(r, "input", "Changed", 0)
        /\ UNCHANGED << bytes, launch, packet >> /\ hold[r]["input"] = 0
    BY <1>0, <1>00, <1>4 DEF PollSend, coreVars, Ready
  <2>2. CASE UNCHANGED st
    BY <1>0, <2>1, <2>2, LeaseStorage
  <2>3. CASE /\ ~Failed(s) /\ InputCapacity(s, s.pendingInput)
             /\ st' = [st EXCEPT ![r] = AcceptInput(@)]
    <3> DEFINE t == AcceptInput(s)
    <3>1. st' = [st EXCEPT ![r] = t]
      BY <2>3 DEF s
    <3>2. s.pendingInput # NoChunk
      BY <1>0, <2>1, <2>3 DEF InputSide
    <3>3. Stores(s, t, 0)
      BY <1>0, <2>3, <3>2, AcceptInputStores
    <3> HIDE DEF t
    <3> QED BY <1>0, <2>1, <3>1, <3>3, StoringStorage DEF s
  <2> QED BY <1>4, <2>2, <2>3 DEF PollSend, s
<1>5. CASE DropSend(r)
  <2> DEFINE t == AbandonInput(s)
             b == s.pendingInput
  <2>1. /\ Continue(r, "input", "Changed", b) /\ st' = [st EXCEPT ![r] = t]
        /\ UNCHANGED << bytes, launch, packet >> /\ hold[r]["input"] = 0 /\ launch[r] = "Started"
    BY <1>0, <1>00, <1>5 DEF DropSend, coreVars, Ready, s
  <2>2. Frees(s, t, b) /\ b \in Nat
    BY <1>0, AbandonInputStores DEF DataTypes
  <2> HIDE DEF t, b
  <2> QED BY <1>0, <2>1, <2>2, FreeingStorage DEF s
<1>6. CASE FinishSending(r)
  <2>1. /\ UNCHANGED << bytes, launch, packet >> /\ hold[r]["input"] = 0
    BY <1>0, <1>00, <1>6 DEF FinishSending, coreVars, Ready
  <2>2. CASE UNCHANGED << st, pc, hold >>
    BY <1>0, <2>1, <2>2, IdleStorage DEF Released
  <2>3. CASE st' = [st EXCEPT ![r] = FinishInput(@)] /\ Continue(r, "input", "Changed", 0)
    <3> DEFINE t == FinishInput(s)
    <3>1. st' = [st EXCEPT ![r] = t]
      BY <2>3 DEF s
    <3>2. Stores(s, t, 0)
      BY <1>0, StorageUntouched, SameStores
    <3> HIDE DEF t
    <3> QED BY <1>0, <2>1, <2>3, <3>1, <3>2, StoringStorage DEF s
  <2> QED BY <1>6, <2>2, <2>3 DEF FinishSending
<1>7. CASE DropInput(r)
  <2>1. /\ FailRequest(r, "input", "Cancelled") /\ launch[r] # "Idle" /\ hold[r]["input"] = 0
        /\ UNCHANGED << bytes, packet, launch >>
    BY <1>0, <1>00, <1>7 DEF DropInput, coreVars, Ready
  <2> QED BY <1>0, <2>1, FailStorage
<1> QED BY <1>1, <1>2, <1>3, <1>4, <1>5, <1>6, <1>7

\* The user.
LEMMA UserStorage ==
  ASSUME LifecycleInv, Outcomes, DataInv, StorageInv, NEW r \in Requests, User(r)
  PROVE  StorageAfter(r)
<1> DEFINE s == st[r]
<1>0. /\ HasFields(s) /\ DataTypes(s) /\ Accounted(s) /\ Released(r)
      /\ BufferedBytes(s) \in Nat /\ \A a \in Actor : hold[r][a] \in Nat
      /\ "output" \in Actor /\ "control" \in Actor
      /\ outputEnd[r] # "None" => launch[r] # "Idle"
  BY StorageBefore, HandlesStarted DEF Actor
<1>00. \A a \in {"output", "control"} : pc[r][a] = "Idle" => hold[r][a] = 0
  BY <1>0 DEF Released
<1> HIDE DEF s
<1>1. CASE Receive(r)
  <2>1. /\ launch[r] # "Idle" /\ hold[r]["output"] = 0 /\ UNCHANGED << bytes, packet, launch >>
    BY <1>0, <1>00, <1>1 DEF Receive, coreVars, Ready
  <2>2. CASE st' = [st EXCEPT ![r] = ConsumeTerminal(@)] /\ Continue(r, "output", "Changed", 0)
    <3> DEFINE t == ConsumeTerminal(s)
    <3>1. st' = [st EXCEPT ![r] = t]
      BY <2>2 DEF s
    <3>2. Stores(s, t, 0)
      BY <1>0, StorageUntouched, SameStores
    <3> HIDE DEF t
    <3> QED BY <1>0, <2>1, <2>2, <3>1, <3>2, StoringStorage DEF s
  <2>3. CASE /\ s.output # << >> /\ st' = [st EXCEPT ![r] = PopOutput(@)]
             /\ Continue(r, "output", "Changed", Head(s.output).bytes)
    <3> DEFINE t == PopOutput(s)
               b == Head(s.output).bytes
    <3>1. st' = [st EXCEPT ![r] = t] /\ Continue(r, "output", "Changed", b)
      BY <2>3 DEF s
    <3>2. Frees(s, t, b) /\ b \in Nat
      BY <1>0, <2>3, PopOutputStores
    <3> HIDE DEF t, b
    <3> QED BY <1>0, <2>1, <3>1, <3>2, FreeingStorage DEF s
  <2> QED BY <1>1, <2>2, <2>3 DEF Receive, s
<1>2. CASE DropOutput(r)
  <2>1. /\ FailRequest(r, "output", "Cancelled") /\ launch[r] # "Idle" /\ hold[r]["output"] = 0
        /\ UNCHANGED << bytes, packet, launch >>
    BY <1>0, <1>00, <1>2 DEF DropOutput, coreVars, Ready
  <2> QED BY <1>0, <2>1, FailStorage
<1>3. CASE Cancel(r)
  <2>1. /\ FailRequest(r, "control", "Cancelled") /\ launch[r] # "Idle" /\ hold[r]["control"] = 0
        /\ UNCHANGED << bytes, packet, launch >>
    BY <1>0, <1>00, <1>3 DEF Cancel, coreVars, endVars, Ready
  <2> QED BY <1>0, <2>1, FailStorage
<1> QED BY <1>1, <1>2, <1>3, SendStorage DEF User

\* The emitting side of a backend, and its failures.
LEMMA WriterStorage ==
  ASSUME LifecycleInv, Outcomes, DataInv, StorageInv, NEW r \in Requests,
         \/ \E b \in ItemBytes : EmitReserve(r, b) \/ EmitOverBudget(r, b)
         \/ \E finished \in BOOLEAN : EmitStage(r, finished)
         \/ EmitRejected(r) \/ PollEmit(r) \/ DropEmit(r) \/ BackendFail(r)
  PROVE  StorageAfter(r)
<1> DEFINE s == st[r]
<1>0. /\ HasFields(s) /\ DataTypes(s) /\ Accounted(s) /\ Released(r)
      /\ BufferedBytes(s) \in Nat /\ \A a \in Actor : hold[r][a] \in Nat
      /\ OutputSide(s, writer[r])
      /\ Reserved(pc[r]["writer"], writer[r], "Idle", hold[r]["writer"])
      /\ "writer" \in Actor
      /\ writer[r] # "Gone" => launch[r] # "Idle"
      /\ pc[r]["writer"] # "Idle" => launch[r] # "Idle"
  BY StorageBefore, HandlesStarted DEF RequestData, Actor
<1>00. pc[r]["writer"] = "Idle" => hold[r]["writer"] = 0
  BY <1>0 DEF Released
<1> HIDE DEF s
<1>1. ASSUME FailRequest(r, "writer", "Backend"), launch[r] # "Idle", hold[r]["writer"] = 0,
             UNCHANGED << bytes, packet, launch >>
      PROVE  StorageAfter(r)
  BY <1>0, <1>1, FailStorage
<1>2. ASSUME NEW b \in ItemBytes, EmitReserve(r, b) PROVE StorageAfter(r)
  <2>1. /\ Continue(r, "writer", "Stage", b) /\ bytes' = bytes + b /\ BudgetFor(b)
        /\ UNCHANGED << launch, packet, st >> /\ launch[r] # "Idle" /\ hold[r]["writer"] = 0
    BY <1>0, <1>00, <1>2 DEF EmitReserve, endVars, Ready
  <2>2. b \in Nat
    BY ItemsAreBytes
  <2> QED BY <1>0, <2>1, <2>2, LeaseStorage
<1>3. ASSUME NEW b \in ItemBytes, EmitOverBudget(r, b) PROVE StorageAfter(r)
  BY <1>0, <1>00, <1>1, <1>3 DEF EmitOverBudget, coreVars, endVars, Ready
<1>4. ASSUME NEW finished \in BOOLEAN, EmitStage(r, finished) PROVE StorageAfter(r)
  <2>1. /\ writer[r] = "Idle" /\ pc[r]["writer"] = "Stage" /\ launch[r] # "Idle"
        /\ hold[r]["writer"] \in Nat \ {0}
        /\ UNCHANGED << bytes, launch, packet >>
    BY <1>0, <1>4, ItemsAreBytes DEF EmitStage, coreVars, Reserved
  <2>2. CASE /\ st' = [st EXCEPT ![r] = StageOutput(@, finished, hold[r]["writer"])]
             /\ Continue(r, "writer", "Idle", 0)
    <3> DEFINE t == StageOutput(s, finished, hold[r]["writer"])
    <3>1. st' = [st EXCEPT ![r] = t]
      BY <2>2 DEF s
    <3>2. s.pendingOutput = NoEvent
      BY <1>0, <2>1 DEF OutputSide
    <3>3. Stores(s, t, hold[r]["writer"])
      BY <1>0, <2>1, <3>2, StageOutputStores
    <3> HIDE DEF t
    <3> QED BY <1>0, <2>1, <2>2, <3>1, <3>3, StoringStorage DEF s
  <2>3. CASE Continue(r, "writer", "Reject", hold[r]["writer"]) /\ UNCHANGED st
    BY <1>0, <2>1, <2>3, LeaseStorage
  <2> QED BY <1>4, <2>2, <2>3 DEF EmitStage
<1>5. CASE EmitRejected(r)
  BY <1>0, <1>1, <1>5 DEF EmitRejected, coreVars, endVars
<1>6. CASE PollEmit(r)
  <2>1. /\ writer[r] = "Emitting" /\ Continue(r, "writer", "Changed", 0)
        /\ UNCHANGED << bytes, launch, packet >> /\ hold[r]["writer"] = 0
    BY <1>0, <1>00, <1>6 DEF PollEmit, coreVars, Ready
  <2>2. CASE UNCHANGED st
    BY <1>0, <2>1, <2>2, LeaseStorage
  <2>3. CASE /\ ~Failed(s) /\ OutputCapacity(s, s.pendingOutput.bytes)
             /\ st' = [st EXCEPT ![r] = AcceptOutput(@)]
    <3> DEFINE t == AcceptOutput(s)
    <3>1. st' = [st EXCEPT ![r] = t]
      BY <2>3 DEF s
    <3>2. s.pendingOutput # NoEvent
      BY <1>0, <2>1, <2>3 DEF OutputSide
    <3>3. Stores(s, t, 0)
      BY <1>0, <2>3, <3>2, AcceptOutputStores
    <3> HIDE DEF t
    <3> QED BY <1>0, <2>1, <3>1, <3>3, StoringStorage DEF s
  <2> QED BY <1>6, <2>2, <2>3 DEF PollEmit, s
<1>7. CASE DropEmit(r)
  BY <1>0, <1>00, <1>1, <1>7 DEF DropEmit, coreVars, Ready
<1>8. CASE BackendFail(r)
  BY <1>0, <1>00, <1>1, <1>8 DEF BackendFail, coreVars, endVars, Ready
<1> QED BY <1>2, <1>3, <1>4, <1>5, <1>6, <1>7, <1>8

\* The backend.
LEMMA BackendStorage ==
  ASSUME LifecycleInv, Outcomes, DataInv, StorageInv, NEW r \in Requests, Backend(r)
  PROVE  StorageAfter(r)
<1> DEFINE s == st[r]
<1>0. /\ HasFields(s) /\ DataTypes(s) /\ Accounted(s) /\ Released(r) /\ OutcomeInv(s)
      /\ BufferedBytes(s) \in Nat /\ \A a \in Actor : hold[r][a] \in Nat
      /\ bytes \in Int /\ bytes <= MaxBufferedBytes
      /\ packet \in [Requests -> Nat] /\ packet[r] \in Nat
      /\ pc \in [Requests -> [Actor -> Continuations]]
      /\ "reader" \in Actor /\ "guard" \in Actor
  BY StorageBefore DEF Actor
<1>00. pc[r]["reader"] = "Idle" => hold[r]["reader"] = 0
  BY <1>0 DEF Released, Actor
<1> HIDE DEF s
<1>1. CASE ReadInput(r)
  <2>1. /\ launch[r] # "Idle" /\ hold[r]["reader"] = 0 /\ packet[r] = 0
        /\ Continue(r, "reader", "Changed", 0) /\ UNCHANGED << bytes, launch >>
    BY <1>0, <1>00, <1>1 DEF ReadInput, coreVars, Ready
  <2>2. CASE /\ s.input # << >> /\ packet' = [packet EXCEPT ![r] = Head(s.input)]
             /\ st' = [st EXCEPT ![r] = PopInput(@)]
    <3> DEFINE t == PopInput(s)
               b == Head(s.input)
    <3>1. st' = [st EXCEPT ![r] = t] /\ packet'[r] = b
      BY <1>0, <2>2 DEF s
    <3>2. Frees(s, t, b) /\ b \in Nat
      BY <1>0, <2>2, PopInputStores
    <3> HIDE DEF t, b
    <3> QED BY <1>0, <2>1, <3>1, <3>2, FreeingStorage DEF s
  <2>3. CASE st' = [st EXCEPT ![r] = ObserveEof(@)] /\ UNCHANGED packet
    <3> DEFINE t == ObserveEof(s)
    <3>1. st' = [st EXCEPT ![r] = t]
      BY <2>3 DEF s
    <3>2. Stores(s, t, 0)
      BY <1>0, StorageUntouched, SameStores
    <3> HIDE DEF t
    <3> QED BY <1>0, <2>1, <2>3, <3>1, <3>2, StoringStorage DEF s
  <2> QED BY <1>1, <2>2, <2>3 DEF ReadInput, s
<1>2. CASE ReleasePacket(r)
  <2>1. /\ bytes' = bytes - packet[r] /\ packet'[r] = 0
        /\ UNCHANGED << st, launch, pc, hold >>
    BY <1>0, <1>2 DEF ReleasePacket
  <2>2. Total(hold[r], Actor) \in Nat
    BY <1>0, ActorsFinite, TotalType
  <2>3. /\ bytes' = bytes + (ChargeOf(s, 0, hold[r]) - ChargeOf(s, packet[r], hold[r]))
        /\ bytes' <= MaxBufferedBytes
    BY <1>0, <2>1, <2>2, CoreAssumption DEF ChargeOf
  <2> QED BY <1>0, <2>1, <2>3 DEF StorageAfter, Released, s
<1>3. ASSUME NEW result \in Result, GuardFinish(r, result) PROVE StorageAfter(r)
  <2>1. \A a \in Actor \ {"guard"} : pc'[r][a] = pc[r][a]
    BY <1>0, <1>3 DEF GuardFinish
  <2> QED BY <1>0, <1>3, <2>1, IdleStorage DEF GuardFinish, coreVars, Released
<1>4. CASE Close(r)
  <2> DEFINE t == CompleteCleanup(s, pc[r]["guard"])
             b == DiscardedByCleanup(s, pc[r]["guard"])
  <2>1. /\ pc[r]["guard"] \in Result /\ hold[r]["guard"] = 0
        /\ Transition(r, "guard", t, b) /\ UNCHANGED << bytes, packet, launch >>
    BY <1>4 DEF Close, coreVars, endVars, s
  <2>2. Frees(s, t, b) /\ b \in Nat
    BY <1>0, <2>1, CleanupStores
  <2>3. launch[r] # "Idle"
    BY <1>0, <2>1, HandlesStarted DEF Result
  <2> HIDE DEF t, b
  <2> QED BY <1>0, <2>1, <2>2, <2>3, EndStorage DEF s
<1> QED BY <1>1, <1>2, <1>3, <1>4, WriterStorage DEF Backend
-----------------------------------------------------------------------------
(* The invariant.                                                          *)

\* A sum of zeros is zero.
LEMMA TotalZero ==
  ASSUME NEW S, IsFiniteSet(S), NEW f, \A x \in S : f[x] = 0
  PROVE  Total(f, S) = 0
<1> DEFINE Bad == {T \in SUBSET S : Total(f, T) # 0}
<1>1. SUFFICES ASSUME Bad # {} PROVE FALSE
  BY DEF Bad
<1>2. Bad \in SUBSET (SUBSET S)
  OBVIOUS
<1> HIDE DEF Bad
<1>3. PICK T \in Bad : \A U \in SUBSET T : U # T => U \notin Bad
  BY <1>1, <1>2, MinimalSubset
<1> USE DEF Bad
<1>4. T \in SUBSET S /\ Total(f, T) # 0 /\ IsFiniteSet(T)
  BY <1>3, FS_Subset
<1>5. T # {} => Pick(T) \in T /\ Total(f, T \ {Pick(T)}) = 0
  BY <1>3, <1>4, PickIn
<1> HIDE DEF Bad
<1>6. Total(f, T) = IF T = {} THEN 0 ELSE f[Pick(T)] + Total(f, T \ {Pick(T)})
  BY <1>4, TotalPick
<1> QED BY <1>4, <1>5, <1>6

\* A client without requests holds no storage.
LEMMA InitStorage == Init => StorageInv
<1> SUFFICES ASSUME Init PROVE StorageInv
  OBVIOUS
<1>1. bytes \in Int /\ bytes <= MaxBufferedBytes /\ bytes = 0
  BY CoreAssumption DEF Init
<1>2. packet \in [Requests -> Nat] /\ hold \in [Requests -> [Actor -> Nat]]
  BY DEF Init
<1>3. Accounted(Fresh) /\ BufferedBytes(Fresh) = 0
  <2>1. << >> \in Seq(Nat \ {0}) /\ << >> \in Seq(Event) /\ Len(<< >>) = 0
    BY EmptySeq
  <2>2. ChunkBytes(<< >>) = 0 /\ EventBytes(<< >>) = 0
    BY <2>1, ChunkBytesFacts, EventBytesFacts
  <2>3. /\ Fresh.input = << >> /\ Fresh.inputBytes = 0 /\ Fresh.pendingInput = 0
        /\ Fresh.output = << >> /\ Fresh.outputBytes = 0 /\ Fresh.pendingOutput.bytes = 0
    BY DEF Fresh, NoChunk, NoEvent
  <2> QED BY <2>1, <2>2, <2>3, QueueLimitsAssumption DEF Accounted, BufferedBytes
<1>4. ASSUME NEW r \in Requests
      PROVE  Accounted(st[r]) /\ Released(r) /\ ChargeOf(st[r], packet[r], hold[r]) = 0
  <2>1. st[r] = Fresh /\ packet[r] = 0 /\ \A a \in Actor : hold[r][a] = 0
    BY DEF Init
  <2>2. Total(hold[r], Actor) = 0
    BY <2>1, ActorsFinite, TotalZero
  <2> QED BY <1>3, <2>1, <2>2 DEF Released, ChargeOf, Actor
<1>5. Total(Charged, Requests) = 0
  <2>1. \A r \in Requests : Charged[r] = 0
    BY <1>4 DEF Charged
  <2> QED BY <2>1, RequestsAssumption, TotalZero
<1> QED BY <1>1, <1>2, <1>4, <1>5 DEF StorageInv

\* The deadline thread and the thread in Owner::shutdown fail a request.
LEMMA SweepStorage ==
  ASSUME LifecycleInv, Outcomes, DataInv, StorageInv, NEW r \in Requests,
         Expire(r) \/ ShutdownFail(r)
  PROVE  StorageAfter(r)
<1>1. Released(r) /\ (r \in registered => launch[r] # "Idle") /\ (r \in toFail => launch[r] # "Idle")
  BY StorageBefore, HandlesStarted
<1>2. CASE Expire(r)
  BY <1>1, <1>2, FailStorage DEF Expire, coreVars, endVars, Ready, Released, Actor
<1>3. CASE ShutdownFail(r)
  BY <1>1, <1>3, FailStorage DEF ShutdownFail, OwnerReady, endVars, Ready, Released, Actor
<1> QED BY <1>2, <1>3

\* A step on request r keeps the balance of all requests.
LEMMA RequestStorage ==
  ASSUME LifecycleInv, Outcomes, DataInv, StorageInv, NEW r \in Requests, RequestStep(r)
  PROVE  StorageInv'
<1>1. StorageAfter(r)
  BY SweepStorage, StartStorage, ContinuationStorage, UserStorage, BackendStorage DEF RequestStep
<1>2. /\ \A q \in Requests \ {r} : Unmoved(q)
      /\ packet' = [q \in Requests |-> packet'[q]]
      /\ hold' = [q \in Requests |-> [a \in Actor |-> hold'[q][a]]]
  <2>1. Shape /\ Ledger
    BY StorageBefore
  <2> QED BY <2>1, OneRequest
<1>3. /\ bytes \in Int /\ bytes = Total(Charged, Requests)
      /\ packet \in [Requests -> Nat] /\ hold \in [Requests -> [Actor -> Nat]]
      /\ \A q \in Requests : Accounted(st[q]) /\ Released(q) /\ BufferedBytes(st[q]) \in Nat
  BY StorageBefore DEF StorageInv
<1>4. ASSUME NEW q \in Requests
      PROVE  /\ packet'[q] \in Nat /\ \A a \in Actor : hold'[q][a] \in Nat
             /\ Accounted(st'[q]) /\ Released(q)'
  <2>1. CASE q = r
    BY <1>1, <2>1 DEF StorageAfter, Released
  <2>2. CASE q # r
    BY <1>2, <1>3, <2>2 DEF Unmoved, Released
  <2> QED BY <2>1, <2>2
<1>5. packet' \in [Requests -> Nat] /\ hold' \in [Requests -> [Actor -> Nat]]
  BY <1>2, <1>4
<1>6. bytes' \in Int /\ bytes' <= MaxBufferedBytes /\ bytes' = Total(Charged', Requests)
  <2> DEFINE f == Charged
             e == [q \in Requests |-> ChargeOf(st'[q], packet'[q], hold'[q])]
  <2>1. \A q \in Requests : f[q] \in Int
    BY <1>3, ChargeType DEF Charged
  <2>2. \A q \in Requests \ {r} : e[q] = f[q]
    BY <1>2 DEF Charged, Unmoved
  <2>3. /\ e[r] = ChargeOf(st'[r], packet'[r], hold'[r])
        /\ f[r] = ChargeOf(st[r], packet[r], hold[r])
    BY DEF Charged
  <2>4. Charged' = e
    BY DEF Charged
  <2>5. e[r] \in Int
    <3>1. BufferedBytes(st'[r]) \in Int
      <4>1. DataTypes(st'[r])
        BY StepData DEF DataInv, RequestData, RecordData, RequestStep, Next, Shutdown
      <4> QED BY <4>1, BufferedTypes
    <3> QED BY <1>1, <2>3, <3>1, ChargeType DEF StorageAfter
  <2> HIDE DEF f, e
  <2>6. Total(e, Requests) = Total(f, Requests) - f[r] + e[r]
    BY <2>1, <2>2, <2>5, RequestsAssumption, TotalUpdate
  <2>7. bytes' = bytes + (e[r] - f[r]) /\ bytes' <= MaxBufferedBytes
    BY <1>1, <2>3 DEF StorageAfter
  <2>8. bytes = Total(f, Requests)
    BY <1>3 DEF f
  <2>9. bytes' = Total(e, Requests) /\ bytes' \in Int
    BY <1>3, <2>1, <2>5, <2>6, <2>7, <2>8
  <2> QED BY <2>4, <2>7, <2>9
<1> QED BY <1>4, <1>5, <1>6 DEF StorageInv

\* Every step keeps the balance.
LEMMA StepStorage ==
  LifecycleInv /\ Outcomes /\ DataInv /\ StorageInv /\ [Next]_vars => StorageInv'
<1> SUFFICES ASSUME LifecycleInv, Outcomes, DataInv, StorageInv, [Next]_vars PROVE StorageInv'
  OBVIOUS
<1>1. ASSUME UNCHANGED << bytes, st, launch, packet, pc, hold >> PROVE StorageInv'
  <2>1. Charged' = Charged
    BY <1>1 DEF Charged
  <2>2. \A r \in Requests : Accounted(st'[r]) /\ Released(r)'
    BY <1>1 DEF StorageInv, Released
  <2> QED BY <1>1, <2>1, <2>2 DEF StorageInv
<1>2. CASE BeginShutdown \/ ShutdownDriver \/ \E result \in Result : DriverFinish(result)
  BY <1>1, <1>2 DEF BeginShutdown, ShutdownDriver, DriverFinish, endVars
<1>3. CASE UNCHANGED vars
  BY <1>1, <1>3 DEF vars, coreVars, endVars
<1> QED BY <1>2, <1>3, RequestStorage DEF Next, Shutdown, RequestStep

\* The storage of the requests is always balanced.
LEMMA StorageHolds == Spec => []StorageInv
BY InitStorage, StepStorage, LifecycleInvariant, OutcomesHold, DataHolds, PTL DEF Spec

-----------------------------------------------------------------------------
(* The properties.                                                         *)

\* For any finite set of requests, any limits and any charges, the global
\* counter of the storage budget is exactly what the requests hold: no path of
\* the endpoints, of a failure or of a cleanup loses a lease or returns one
\* twice (client/core.rs: reserve and the drop of a lease).
THEOREM BudgetIsExact == Spec => []BudgetExact
<1>1. StorageInv => BudgetExact
  BY BudgetTotal DEF StorageInv, BudgetExact
<1> QED BY <1>1, StorageHolds, PTL

\* For any number of requests and any limits, the byte counters of both queues
\* match their contents and the queues stay in their limits, across sends,
\* receives, failures and cleanups (client/state.rs).
THEOREM QueuesAccounted == Spec => []QueueAccounting
<1>1. StorageInv => QueueAccounting
  BY DEF StorageInv, Accounted, QueueAccounting
<1> QED BY <1>1, StorageHolds, PTL

\* The flags of Global that Shape leaves out.
Flags == closing \in BOOLEAN /\ driverClosed \in {"None"} \cup Result

\* They are set by begin_shutdown and by the end of the driver only.
LEMMA StepFlags == Flags /\ [Next]_vars => Flags'
<1> SUFFICES ASSUME Flags, [Next]_vars PROVE Flags'
  OBVIOUS
<1>0. ASSUME UNCHANGED << closing, driverClosed >> PROVE Flags'
  BY <1>0 DEF Flags
<1>1. ASSUME NEW r \in Requests, Start(r) PROVE Flags'
  BY <1>0, <1>1 DEF Start, Register, LaunchOk, LaunchError, coreVars
<1>2. ASSUME NEW r \in Requests, Continuation(r) PROVE Flags'
  BY <1>0, <1>2 DEF Continuation, DropLeases, Unregister, Changed, coreVars
<1>3. ASSUME NEW r \in Requests, User(r) PROVE Flags'
  BY <1>0, <1>3 DEF User, SendReserve, TrySend, SendStage, PollSend, DropSend, FinishSending,
              DropInput, Receive, DropOutput, Cancel, coreVars
<1>4. ASSUME NEW r \in Requests, Expire(r) PROVE Flags'
  BY <1>0, <1>4 DEF Expire, coreVars
<1>5. ASSUME NEW r \in Requests, Backend(r) PROVE Flags'
  BY <1>0, <1>5 DEF Backend, ReadInput, ReleasePacket, EmitReserve, EmitOverBudget, EmitStage,
              EmitRejected, PollEmit, DropEmit, BackendFail, GuardFinish, Close, coreVars
<1>6. CASE Shutdown
  BY <1>6 DEF Flags, Shutdown, BeginShutdown, ShutdownFail, ShutdownDriver, DriverFinish
<1>7. CASE UNCHANGED vars
  BY <1>0, <1>7 DEF vars, coreVars
<1> QED BY <1>1, <1>2, <1>3, <1>4, <1>5, <1>6, <1>7 DEF Next

\* A record with the right fields is a state.
LEMMA StateType ==
  ASSUME NEW s, HasFields(s), OutcomeInv(s), DataTypes(s), Accounted(s),
         s.registration \in {"Registered", "Retired"}
  PROVE  s \in State
<1>1. s.inputBytes \in Nat /\ s.outputBytes \in Nat
  BY BufferedTypes DEF Accounted
<1>2. s = [ input |-> s.input, pendingInput |-> s.pendingInput, inputBytes |-> s.inputBytes,
            output |-> s.output, pendingOutput |-> s.pendingOutput, outputBytes |-> s.outputBytes,
            inputPhase |-> s.inputPhase, outcome |-> s.outcome, cleanup |-> s.cleanup,
            delivery |-> s.delivery, registration |-> s.registration,
            received |-> s.received, delivered |-> s.delivered, notice |-> s.notice ]
  BY FieldNames DEF HasFields
<1> QED BY <1>1, <1>2 DEF State, DataTypes, OutcomeInv

\* For any finite set of requests and any limits, every variable of the client
\* has its type; in particular the counter of the storage budget never leaves
\* 0..MaxBufferedBytes (client/core.rs: reserve).
THEOREM ClientTypes == Spec => []TypeOK
<1>1. Spec => []Flags
  <2>1. Init => Flags
    BY DEF Init, Flags
  <2> QED BY <2>1, StepFlags, PTL DEF Spec
<1>2. LifecycleInv /\ Outcomes /\ DataInv /\ StorageInv /\ Flags => TypeOK
  <2> SUFFICES ASSUME LifecycleInv, Outcomes, DataInv, StorageInv, Flags PROVE TypeOK
    OBVIOUS
  <2>1. Shape /\ Ledger
    BY DEF LifecycleInv, DataInv
  <2>2. st \in [Requests -> State]
    <3>1. ASSUME NEW r \in Requests PROVE st[r] \in State
      <4>1. /\ HasFields(st[r]) /\ OutcomeInv(st[r]) /\ DataTypes(st[r]) /\ Accounted(st[r])
            /\ RequestInv(r)
        BY StorageBefore
      <4> QED BY <4>1, StateType DEF RequestInv, RetiredOnce
    <3> QED BY <2>1, <3>1 DEF Shape
  <2>3. bytes \in 0..MaxBufferedBytes
    <3>1. \A r \in Requests : Charged[r] \in Nat
      <4> SUFFICES ASSUME NEW r \in Requests PROVE ChargeOf(st[r], packet[r], hold[r]) \in Nat
        BY DEF Charged
      <4>1. /\ BufferedBytes(st[r]) \in Nat /\ packet[r] \in Nat
            /\ \A a \in Actor : hold[r][a] \in Nat
        BY StorageBefore
      <4>2. Total(hold[r], Actor) \in Nat
        BY <4>1, ActorsFinite, TotalType
      <4> QED BY <4>1, <4>2 DEF ChargeOf
    <3>2. Total(Charged, Requests) \in Nat
      BY <3>1, RequestsAssumption, TotalType
    <3> QED BY <3>2, CoreAssumption DEF StorageInv
  <2> QED BY <2>1, <2>2, <2>3 DEF TypeOK, Flags, Shape, Ledger, StorageInv
<1> QED BY <1>1, <1>2, LifecycleInvariant, OutcomesHold, DataHolds, StorageHolds, PTL
=============================================================================
