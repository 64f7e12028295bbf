------------------------- MODULE MaterialLedgerProofs -------------------------
(***************************************************************************)
(* Proofs about the stock of materials: what a transaction has read still  *)
(* holds when it writes, an issue is reversed at most once, and the books  *)
(* balance, for any number of processes, lots and issues.                  *)
(*                                                                         *)
(* First the sums the model is built from, since what the library computes *)
(* has no theorems there: a sum is determined by taking one element after  *)
(* the other, in any order.  Then StockInv, which keeps reads current:     *)
(* tables only grow, a lock has one holder, and what was read under a lock *)
(* is still so.  Last BooksInv, StockInv with the kinds of the rows and    *)
(* the balance itself, one lemma per operation: an issue of what there is  *)
(* takes all of it, oldest first, and a reversal returns it price by price. *)
(***************************************************************************)
EXTENDS MaterialLedger, WellFoundedInduction, FiniteSetTheorems, SequenceTheorems, TLAPS

-----------------------------------------------------------------------------
\* Of the subsets of a finite set, one is minimal among those picked out.
LEMMA MinimalSubset ==
    ASSUME NEW S, IsFiniteSet(S), NEW B \in SUBSET SUBSET S, B # {}
    PROVE  \E s \in B : IsFiniteSet(s) /\ \A t \in B : t \subseteq s => t = s
<1>1. IsWellFoundedOn(StrictSubsetOrdering(S), FiniteSubsetsOf(S))
  BY FS_StrictSubsetOrderingWellFounded
<1>2. \A s \in B : s \in FiniteSubsetsOf(S) /\ IsFiniteSet(s)
  BY FS_Subset DEF FiniteSubsetsOf
<1>3. PICK s \in B : \A t \in B : ~(<<t, s>> \in StrictSubsetOrdering(S))
  BY <1>1, <1>2, WFMin
<1>4. \A t \in B : t \subseteq s => t = s
  BY <1>3 DEF StrictSubsetOrdering
<1>5. QED
  BY <1>2, <1>4

\* Sums are folds: the value of a function that takes one element after the other.
Chosen(s) == CHOOSE x \in s : TRUE

SumsUp(g, f, S) == g = [s \in SUBSET S |-> IF s = {} THEN 0 ELSE f[Chosen(s)] + g[s \ {Chosen(s)}]]

LEMMA SumUnfold == ASSUME NEW f, NEW S PROVE SumFunctionOnSet(f, S) = (CHOOSE g : SumsUp(g, f, S))[S]
BY DEF SumFunctionOnSet, FoldFunctionOnSet, MapThenFoldSet, SumsUp, Chosen

LEMMA ChosenIn == ASSUME NEW s, s # {} PROVE Chosen(s) \in s
BY DEF Chosen

\* Two such functions agree where both are defined.
LEMMA SumsAgree ==
    ASSUME NEW f, NEW S, IsFiniteSet(S), NEW T \in SUBSET S, NEW g, NEW h, SumsUp(g, f, S), SumsUp(h, f, T)
    PROVE  \A s \in SUBSET T : g[s] = h[s]
<1> DEFINE B == {s \in SUBSET T : g[s] # h[s]}
<1> SUFFICES ASSUME B # {} PROVE FALSE
    OBVIOUS
<1>1. IsFiniteSet(T) /\ B \in SUBSET SUBSET T
  BY FS_Subset
<1>2. PICK s \in B : \A t \in B : t \subseteq s => t = s
  <2> HIDE DEF B
  <2>1. QED
    BY <1>1, MinimalSubset
<1>3. s # {}
  BY DEF SumsUp
<1> DEFINE u == s \ {Chosen(s)}
<1>4. u \subseteq s /\ u # s
  BY <1>3, ChosenIn
<1>5. g[u] = h[u]
  BY <1>2, <1>4
<1>6. g[s] = f[Chosen(s)] + g[u] /\ h[s] = f[Chosen(s)] + h[u]
  BY <1>3 DEF SumsUp
<1>7. QED
  BY <1>5, <1>6

\* There is one, so the sum over a set takes the element it picks and the sum over the rest.
LEMMA SumsExist == ASSUME NEW f, NEW S, IsFiniteSet(S) PROVE \E g : SumsUp(g, f, S)
<1> DEFINE Sum(s) == SumFunctionOnSet(f, s)
           B == {s \in SUBSET S : ~\E g : SumsUp(g, f, s)}
<1> SUFFICES ASSUME B # {} PROVE FALSE
    OBVIOUS
<1>1. PICK s \in B : IsFiniteSet(s) /\ \A t \in B : t \subseteq s => t = s
  <2>1. B \in SUBSET SUBSET S
    OBVIOUS
  <2> HIDE DEF B
  <2>2. QED
    BY <2>1, MinimalSubset
<1> DEFINE g == [t \in SUBSET s |-> IF t = {} THEN 0 ELSE f[Chosen(t)] + Sum(t \ {Chosen(t)})]
<1>2. ASSUME NEW u \in SUBSET s, u # s
      PROVE  \E h : SumsUp(h, f, u) /\ Sum(u) = h[u]
  <2>1. \E h : SumsUp(h, f, u)
    BY <1>1, <1>2
  <2>2. QED
    BY <2>1, SumUnfold
<1>3. ASSUME NEW t \in SUBSET s, t # {} PROVE g[t \ {Chosen(t)}] = Sum(t \ {Chosen(t)})
  <2> DEFINE u == t \ {Chosen(t)}
             v == u \ {Chosen(u)}
  <2>1. u \in SUBSET s /\ u # s /\ v \in SUBSET u /\ v # s
    BY <1>3, ChosenIn
  <2>2. PICK h : SumsUp(h, f, u) /\ Sum(u) = h[u]
    BY <1>2, <2>1
  <2>3. CASE u = {}
    BY <2>2, <2>3 DEF SumsUp
  <2>4. CASE u # {}
    <3>1. PICK k : SumsUp(k, f, v) /\ Sum(v) = k[v]
      BY <1>2, <2>1
    <3>2. IsFiniteSet(u)
      BY <1>1, <2>1, FS_Subset
    <3>3. h[v] = k[v]
      BY <2>1, <2>2, <3>1, <3>2, SumsAgree
    <3>4. h[u] = f[Chosen(u)] + h[v]
      BY <2>2, <2>4 DEF SumsUp
    <3>5. g[u] = f[Chosen(u)] + Sum(v)
      BY <2>1, <2>4
    <3>6. QED
      BY <2>2, <3>1, <3>3, <3>4, <3>5
  <2>5. QED
    BY <2>3, <2>4
<1>4. SumsUp(g, f, s)
  <2> HIDE DEF Sum
  <2>1. \A t \in SUBSET s : g[t] = IF t = {} THEN 0 ELSE f[Chosen(t)] + g[t \ {Chosen(t)}]
    BY <1>3
  <2>2. g = [t \in SUBSET s |-> g[t]]
    OBVIOUS
  <2>3. QED
    BY <2>1, <2>2 DEF SumsUp
<1>5. QED
  BY <1>1, <1>4

LEMMA SumDef ==
    ASSUME NEW f, NEW S, IsFiniteSet(S)
    PROVE  SumFunctionOnSet(f, S) = IF S = {} THEN 0 ELSE f[Chosen(S)] + SumFunctionOnSet(f, S \ {Chosen(S)})
<1>1. PICK g : SumsUp(g, f, S) /\ SumFunctionOnSet(f, S) = g[S]
  BY SumsExist, SumUnfold
<1> DEFINE T == S \ {Chosen(S)}
<1>2. IsFiniteSet(T) /\ T \in SUBSET S
  BY FS_Subset
<1>3. PICK h : SumsUp(h, f, T) /\ SumFunctionOnSet(f, T) = h[T]
  BY <1>2, SumsExist, SumUnfold
<1>4. g[T] = h[T]
  BY <1>1, <1>2, <1>3, SumsAgree
<1>5. g[S] = IF S = {} THEN 0 ELSE f[Chosen(S)] + g[T]
  BY <1>1 DEF SumsUp
<1>6. QED
  BY <1>1, <1>3, <1>4, <1>5


\* The empty sum.
LEMMA SumEmpty == ASSUME NEW f PROVE SumFunctionOnSet(f, {}) = 0
BY SumDef, FS_EmptySet

Ints(f, S) == \A x \in S : f[x] \in Int

\* A sum of integers is one.
LEMMA SumInt == ASSUME NEW f, NEW S, IsFiniteSet(S), Ints(f, S) PROVE SumFunctionOnSet(f, S) \in Int
<1> DEFINE B == {T \in SUBSET S : SumFunctionOnSet(f, T) \notin Int}
<1> SUFFICES ASSUME B # {} PROVE FALSE
    OBVIOUS
<1>1. PICK T \in B : IsFiniteSet(T) /\ \A U \in B : U \subseteq T => U = T
  <2>1. B \in SUBSET SUBSET S
    OBVIOUS
  <2> HIDE DEF B
  <2>2. QED
    BY <2>1, MinimalSubset
<1>2. CASE T = {}
  BY <1>2, SumEmpty
<1>3. CASE T # {}
  <2> DEFINE U == T \ {Chosen(T)}
  <2>1. Chosen(T) \in T /\ U \subseteq T /\ U # T
    BY <1>3, ChosenIn
  <2>2. SumFunctionOnSet(f, U) \in Int
    BY <1>1, <2>1
  <2>3. SumFunctionOnSet(f, T) = f[Chosen(T)] + SumFunctionOnSet(f, U)
    BY <1>1, <1>3, SumDef
  <2>4. f[Chosen(T)] \in Int
    BY <2>1 DEF Ints
  <2>5. QED
    BY <2>2, <2>3, <2>4
<1>4. QED
  BY <1>2, <1>3

\* Any element may be taken first.
LEMMA SumStep ==
    ASSUME NEW f, NEW S, IsFiniteSet(S), Ints(f, S), NEW x \in S
    PROVE  SumFunctionOnSet(f, S) = f[x] + SumFunctionOnSet(f, S \ {x})
<1> DEFINE Sum(s) == SumFunctionOnSet(f, s)
           B == {T \in SUBSET S : \E y \in T : Sum(T) # f[y] + Sum(T \ {y})}
<1> SUFFICES ASSUME B # {} PROVE FALSE
    OBVIOUS
<1>1. PICK T \in B : IsFiniteSet(T) /\ \A U \in B : U \subseteq T => U = T
  <2>1. B \in SUBSET SUBSET S
    OBVIOUS
  <2> HIDE DEF B
  <2>2. QED
    BY <2>1, MinimalSubset
<1>2. PICK y \in T : Sum(T) # f[y] + Sum(T \ {y})
  BY <1>1
<1> DEFINE c == Chosen(T)
           V == T \ {c}
           W == T \ {y}
<1>3. c \in T /\ Sum(T) = f[c] + Sum(V)
  BY <1>1, <1>2, ChosenIn, SumDef
<1>4. c # y
  BY <1>2, <1>3
<1> HIDE DEF c
<1>5. Sum(V) = f[y] + Sum(V \ {y})
  BY <1>1, <1>3, <1>4
<1>6. Sum(W) = f[c] + Sum(W \ {c})
  BY <1>1, <1>2, <1>3, <1>4
<1>7. V \ {y} = W \ {c} /\ f[c] \in Int /\ f[y] \in Int
  BY <1>2, <1>3 DEF Ints
<1>8. Sum(W \ {c}) \in Int
  <2>1. IsFiniteSet(W \ {c}) /\ Ints(f, W \ {c})
    BY <1>1, FS_RemoveElement DEF Ints
  <2>2. QED
    BY <2>1, SumInt
<1> HIDE DEF Sum
<1>9. QED
  BY <1>2, <1>3, <1>5, <1>6, <1>7, <1>8

\* One element more.
LEMMA SumAdd ==
    ASSUME NEW f, NEW S, IsFiniteSet(S), NEW x, x \notin S, Ints(f, S \cup {x})
    PROVE  /\ SumFunctionOnSet(f, S \cup {x}) = f[x] + SumFunctionOnSet(f, S)
           /\ SumFunctionOnSet(f, S) \in Int /\ f[x] \in Int
<1>1. IsFiniteSet(S \cup {x}) /\ (S \cup {x}) \ {x} = S
  BY FS_AddElement
<1>2. SumFunctionOnSet(f, S) \in Int /\ f[x] \in Int
  BY SumInt DEF Ints
<1>3. QED
  BY <1>1, <1>2, SumStep

\* A sum depends on the values summed, and on them alone.
LEMMA SumSame ==
    ASSUME NEW f, NEW g, NEW S, IsFiniteSet(S), \A x \in S : f[x] = g[x]
    PROVE  SumFunctionOnSet(f, S) = SumFunctionOnSet(g, S)
<1> DEFINE B == {T \in SUBSET S : SumFunctionOnSet(f, T) # SumFunctionOnSet(g, T)}
<1> SUFFICES ASSUME B # {} PROVE FALSE
    OBVIOUS
<1>1. PICK T \in B : IsFiniteSet(T) /\ \A U \in B : U \subseteq T => U = T
  <2>1. B \in SUBSET SUBSET S
    OBVIOUS
  <2> HIDE DEF B
  <2>2. QED
    BY <2>1, MinimalSubset
<1>2. T # {}
  BY SumEmpty
<1> DEFINE U == T \ {Chosen(T)}
<1>3. Chosen(T) \in T /\ U \subseteq T /\ U # T
  BY <1>2, ChosenIn
<1>4. SumFunctionOnSet(f, U) = SumFunctionOnSet(g, U) /\ f[Chosen(T)] = g[Chosen(T)]
  BY <1>1, <1>3
<1>5. QED
  BY <1>1, <1>2, <1>4, SumDef

\* The sum over two sets that have nothing in common.
LEMMA SumUnion ==
    ASSUME NEW f, NEW S, NEW T, IsFiniteSet(S), IsFiniteSet(T), S \cap T = {}, Ints(f, S \cup T)
    PROVE  SumFunctionOnSet(f, S \cup T) = SumFunctionOnSet(f, S) + SumFunctionOnSet(f, T)
<1> DEFINE Sum(s) == SumFunctionOnSet(f, s)
           B == {U \in SUBSET T : Sum(S \cup U) # Sum(S) + Sum(U)}
<1> SUFFICES ASSUME B # {} PROVE FALSE
    OBVIOUS
<1>1. PICK U \in B : IsFiniteSet(U) /\ \A V \in B : V \subseteq U => V = U
  <2>1. B \in SUBSET SUBSET T
    OBVIOUS
  <2> HIDE DEF B
  <2>2. QED
    BY <2>1, MinimalSubset
<1>2. Sum(S) \in Int
  BY SumInt DEF Ints
<1>3. CASE U = {}
  BY <1>1, <1>2, <1>3, SumEmpty
<1>4. CASE U # {}
  <2> DEFINE x == Chosen(U)
             V == U \ {x}
  <2>1. x \in U /\ V \subseteq U /\ V # U
    BY <1>4, ChosenIn
  <2> HIDE DEF x
  <2>2. Sum(S \cup V) = Sum(S) + Sum(V)
    BY <1>1, <2>1
  <2>3. /\ IsFiniteSet(V) /\ IsFiniteSet(S \cup V)
        /\ x \notin V /\ x \notin S \cup V /\ V \cup {x} = U /\ (S \cup V) \cup {x} = S \cup U
    <3>1. x \notin S /\ IsFiniteSet(V)
      BY <1>1, <2>1, FS_RemoveElement
    <3>2. IsFiniteSet(S \cup V)
      BY <3>1, FS_Union
    <3>3. QED
      BY <2>1, <3>1, <3>2
  <2>4. Ints(f, V \cup {x}) /\ Ints(f, (S \cup V) \cup {x})
    BY <1>1, <2>3 DEF Ints
  <2>5. Sum(U) = f[x] + Sum(V) /\ Sum(V) \in Int /\ f[x] \in Int
    BY <2>3, <2>4, SumAdd
  <2>6. Sum(S \cup U) = f[x] + Sum(S \cup V)
    BY <2>3, <2>4, SumAdd
  <2> HIDE DEF Sum
  <2>7. QED
    BY <1>1, <1>2, <2>2, <2>5, <2>6
<1>5. QED
  BY <1>3, <1>4

Nats(f, S) == \A x \in S : f[x] \in Nat

\* A sum of natural numbers is one, and no less than any of them.
LEMMA SumNat == ASSUME NEW f, NEW S, IsFiniteSet(S), Nats(f, S) PROVE SumFunctionOnSet(f, S) \in Nat
<1> DEFINE B == {T \in SUBSET S : SumFunctionOnSet(f, T) \notin Nat}
<1> SUFFICES ASSUME B # {} PROVE FALSE
    OBVIOUS
<1>1. PICK T \in B : IsFiniteSet(T) /\ \A U \in B : U \subseteq T => U = T
  <2>1. B \in SUBSET SUBSET S
    OBVIOUS
  <2> HIDE DEF B
  <2>2. QED
    BY <2>1, MinimalSubset
<1>2. T # {}
  BY SumEmpty
<1> DEFINE U == T \ {Chosen(T)}
<1>3. Chosen(T) \in T /\ U \subseteq T /\ U # T
  BY <1>2, ChosenIn
<1>4. SumFunctionOnSet(f, U) \in Nat /\ f[Chosen(T)] \in Nat
  BY <1>1, <1>3 DEF Nats
<1>5. QED
  BY <1>1, <1>2, <1>4, SumDef

LEMMA SumBounds ==
    ASSUME NEW f, NEW S, IsFiniteSet(S), Nats(f, S)
    PROVE  \A x \in S : f[x] <= SumFunctionOnSet(f, S)
<1> TAKE x \in S
<1>1. SumFunctionOnSet(f, S) = f[x] + SumFunctionOnSet(f, S \ {x})
  BY SumStep DEF Ints, Nats
<1>2. IsFiniteSet(S \ {x}) /\ Nats(f, S \ {x})
  BY FS_RemoveElement DEF Nats
<1>3. SumFunctionOnSet(f, S \ {x}) \in Nat /\ f[x] \in Nat
  BY <1>2, SumNat DEF Nats
<1>4. QED
  BY <1>1, <1>3

\* What adds nothing may be left out.
LEMMA SumSupport ==
    ASSUME NEW f, NEW S, IsFiniteSet(S), NEW T \in SUBSET S, Ints(f, T), \A x \in S \ T : f[x] = 0
    PROVE  SumFunctionOnSet(f, S) = SumFunctionOnSet(f, T)
<1> DEFINE Z == [x \in S \ T |-> 0]
           B == {U \in SUBSET (S \ T) : SumFunctionOnSet(f, U) # 0}
<1>1. IsFiniteSet(T) /\ IsFiniteSet(S \ T) /\ S = T \cup (S \ T) /\ T \cap (S \ T) = {}
  BY FS_Subset
<1>2. SumFunctionOnSet(f, S \ T) = 0
  <2> SUFFICES ASSUME B # {} PROVE FALSE
    OBVIOUS
  <2>1. PICK U \in B : IsFiniteSet(U) /\ \A V \in B : V \subseteq U => V = U
    <3>1. B \in SUBSET SUBSET (S \ T)
      OBVIOUS
    <3> HIDE DEF B
    <3>2. QED
      BY <1>1, <3>1, MinimalSubset
  <2>2. U # {}
    BY SumEmpty
  <2> DEFINE V == U \ {Chosen(U)}
  <2>3. Chosen(U) \in U /\ V \subseteq U /\ V # U
    BY <2>2, ChosenIn
  <2>4. SumFunctionOnSet(f, V) = 0 /\ f[Chosen(U)] = 0
    BY <2>1, <2>3
  <2>5. QED
    BY <2>1, <2>2, <2>4, SumDef
<1>3. Ints(f, T \cup (S \ T))
  BY <1>1 DEF Ints
<1>4. SumFunctionOnSet(f, T) \in Int
  BY <1>1, SumInt
<1>5. SumFunctionOnSet(f, T \cup (S \ T)) = SumFunctionOnSet(f, T) + SumFunctionOnSet(f, S \ T)
  BY <1>1, <1>3, SumUnion
<1>6. QED
  BY <1>1, <1>2, <1>4, <1>5

-----------------------------------------------------------------------------
LotIds == DOMAIN lots
LotFields == {"qty", "left", "price", "created", "unit", "amount", "reverses"}
IsLot(x) == x = [f \in LotFields |-> x[f]]

IsTable(t) == t \in Seq({t[n] : n \in DOMAIN t})
Tables ==
    /\ IsTable(lots) /\ IsTable(issues)
    /\ \A l \in LotIds : IsLot(lots[l])
    /\ \A i \in DOMAIN issues : DOMAIN issues[i].taken \subseteq LotIds

\* FOR UPDATE: a row has one holder.
Exclusive(locks) ==
    \A o, p \in Procs, n \in Nat : <<o, n>> \in locks /\ <<p, n>> \in locks => o = p

Reversed(i) == \E l \in LotIds : lots[l].reverses = i

\* An issue holds the lots it has read, and they are as it read them.
LockedAndCurrent(p) ==
    \A l \in DOMAIN tx[p].have : /\ l \in LotIds
                                 /\ <<p, l>> \in lotLock
                                 /\ tx[p].have[l] = lots[l].left

\* A reversal holds its issue, and knows whether it was reversed.
LookedUp(p) ==
    /\ tx[p].issue \in DOMAIN issues
    /\ <<p, tx[p].issue>> \in issueLock
    /\ tx[p].done <=> Reversed(tx[p].issue)

\* What a transaction has read under its locks is what is there.
ReadsHold ==
    \A p \in Procs : /\ tx[p].at = "locking" => LockedAndCurrent(p)
                     /\ tx[p].at = "reversing" => LookedUp(p)

\* No lot appears for an issue that has been reversed.
NewReversal == \A l \in LotIds' \ LotIds : lots'[l].reverses # 0 => ~Reversed(lots'[l].reverses)

Issuing(t) ==
    /\ t = [at |-> "locking", qty |-> t.qty, todo |-> t.todo, have |-> t.have]
    /\ t.todo \subseteq LotIds

\* What a transaction relies on, by the step it is at.
Decides(p) ==
    /\ tx[p].at = "locking" => Issuing(tx[p]) /\ LockedAndCurrent(p)
    /\ tx[p].at = "lockingIssue" => tx[p].issue \in DOMAIN issues
    /\ tx[p].at = "reversing" => LookedUp(p)
    /\ tx[p].at = "lockingLot" => tx[p].lot \in LotIds
    /\ tx[p].at = "receiving" => IsLot(tx[p].lot) /\ tx[p].lot.reverses = 0

StockInv ==
    /\ Tables /\ Exclusive(lotLock) /\ Exclusive(issueLock)
    /\ DOMAIN tx = Procs /\ \A p \in Procs : Decides(p)

\* The empty tables.
LEMMA StockInvInit == StockInit => StockInv
BY DEF StockInit, StockInv, Tables, IsTable, Exclusive, Decides, LotIds, NoTransaction

\* A row appended to a table.
LEMMA TableAppend ==
    ASSUME NEW t, NEW e, IsTable(t)
    PROVE  /\ IsTable(Append(t, e))
           /\ DOMAIN Append(t, e) = DOMAIN t \cup {Len(t) + 1}
           /\ \A n \in DOMAIN t : Append(t, e)[n] = t[n]
           /\ Append(t, e)[Len(t) + 1] = e
<1> DEFINE S == {t[n] : n \in DOMAIN t} \cup {e}
           u == Append(t, e)
<1>1. t \in Seq(S) /\ e \in S
  BY DEF IsTable
<1>2. /\ u \in Seq(S) /\ Len(u) = Len(t) + 1
      /\ \A n \in 1..Len(t) : u[n] = t[n]
      /\ u[Len(t) + 1] = e
  BY <1>1, AppendProperties
<1>3. DOMAIN u = 1..Len(u) /\ DOMAIN t = 1..Len(t) /\ Len(t) \in Nat
  BY <1>1, <1>2
<1>4. u \in Seq({u[n] : n \in DOMAIN u})
  <2> HIDE DEF u
  <2>1. \A n \in 1..Len(u) : u[n] \in {u[m] : m \in DOMAIN u}
    BY <1>3
  <2>2. QED
    BY <1>2, <2>1, <1>3, SeqDef, LenProperties
<1>5. QED
  BY <1>2, <1>3, <1>4 DEF IsTable

\* Rows appended to a table.
NewIds(t, k) == {Len(t) + n : n \in 1..k}
Numbered(e, k) == e = [n \in 1..k |-> e[n]]

LEMMA TableConcat ==
    ASSUME NEW t, NEW k \in Nat, NEW e, Numbered(e, k), IsTable(t)
    PROVE  /\ IsTable(t \o e)
           /\ DOMAIN (t \o e) = DOMAIN t \cup NewIds(t, k)
           /\ \A n \in DOMAIN t : (t \o e)[n] = t[n]
           /\ \A n \in 1..k : (t \o e)[Len(t) + n] = e[n]
<1> DEFINE S == {t[n] : n \in DOMAIN t} \cup {e[n] : n \in 1..k}
           u == t \o e
<1>1. t \in Seq(S)
  BY DEF IsTable
<1>2. e \in Seq(S) /\ Len(e) = k
  <2>1. e \in [1..k -> S]
    BY DEF Numbered
  <2>2. e \in Seq(S)
    BY <2>1, SeqDef
  <2>3. QED
    BY <2>1, <2>2
<1>3. /\ u \in Seq(S) /\ Len(u) = Len(t) + k
      /\ \A n \in 1..Len(t) + k : u[n] = IF n <= Len(t) THEN t[n] ELSE e[n - Len(t)]
  BY <1>1, <1>2, ConcatProperties
<1>4. DOMAIN u = 1..Len(u) /\ DOMAIN t = 1..Len(t) /\ Len(t) \in Nat
  BY <1>1, <1>3
<1>5. u \in Seq({u[n] : n \in DOMAIN u})
  <2> DEFINE T == {u[n] : n \in DOMAIN u}
             m == Len(u)
  <2> HIDE DEF u
  <2>1. u \in [1..m -> T]
    <3>1. u = [n \in 1..m |-> u[n]]
      BY <1>3, <1>4
    <3>2. \A n \in 1..m : u[n] \in T
      BY <1>4
    <3> HIDE DEF T
    <3>3. QED
      BY <3>1, <3>2
  <2>2. m \in Nat
    BY <1>3, LenProperties
  <2> HIDE DEF T, m
  <2>3. u \in Seq(T)
    BY <2>1, <2>2, SeqDef
  <2>4. QED
    BY <2>3 DEF T
<1>6. \A n \in 1..k : u[Len(t) + n] = e[n]
  <2> HIDE DEF u
  <2> TAKE n \in 1..k
  <2>1. Len(t) + n \in 1..Len(t) + k /\ ~(Len(t) + n <= Len(t)) /\ Len(t) + n - Len(t) = n
    BY <1>4
  <2> DEFINE m == Len(t) + n
  <2>2. m \in 1..Len(t) + k => u[m] = IF m <= Len(t) THEN t[m] ELSE e[m - Len(t)]
    BY <1>3
  <2> HIDE DEF m
  <2>3. m \in 1..Len(t) + k /\ ~(m <= Len(t)) /\ m - Len(t) = n
    BY <2>1 DEF m
  <2>4. u[m] = e[n]
    BY <2>2, <2>3
  <2>5. QED
    BY <2>4 DEF m
<1>7. \A n \in DOMAIN t : u[n] = t[n]
  <2> HIDE DEF u
  <2>1. QED
    BY <1>3, <1>4
<1>8. DOMAIN u = DOMAIN t \cup NewIds(t, k)
  <2> HIDE DEF u
  <2>1. \A n \in 1..Len(t) + k : n \in 1..Len(t) \/ n - Len(t) \in 1..k
    BY <1>4
  <2>2. \A n \in 1..k : Len(t) + n \in 1..Len(t) + k
    BY <1>4
  <2>3. \A n \in 1..Len(t) + k : n \in DOMAIN t \cup NewIds(t, k)
    BY <1>4, <2>1 DEF NewIds
  <2>4. \A n \in DOMAIN t \cup NewIds(t, k) : n \in 1..Len(t) + k
    BY <1>4, <2>2 DEF NewIds
  <2>5. DOMAIN u = 1..Len(t) + k
    BY <1>3, <1>4
  <2>6. QED
    BY <2>3, <2>4, <2>5
<1>9. IsTable(u)
  BY <1>5 DEF IsTable
<1>10. QED
  <2> HIDE DEF u
  <2>1. /\ IsTable(u) /\ DOMAIN u = DOMAIN t \cup NewIds(t, k)
        /\ \A n \in DOMAIN t : u[n] = t[n]
        /\ \A n \in 1..k : u[Len(t) + n] = e[n]
    BY <1>6, <1>7, <1>8, <1>9
  <2>2. QED
    BY <2>1, Zenon DEF u

\* A transaction that did nothing keeps what it relies on, as long as the rows it
\* holds keep what it read of them.
LEMMA OthersKept ==
    ASSUME NEW o \in Procs, Decides(o), tx'[o] = tx[o],
           LotIds \subseteq LotIds', DOMAIN issues \subseteq DOMAIN issues',
           \A n : <<o, n>> \in lotLock => <<o, n>> \in lotLock',
           \A n : <<o, n>> \in issueLock => <<o, n>> \in issueLock',
           \A l \in LotIds : <<o, l>> \in lotLock => lots'[l].left = lots[l].left,
           \A i \in DOMAIN issues : <<o, i>> \in issueLock => (Reversed(i)' <=> Reversed(i))
    PROVE  Decides(o)'
<1>1. tx[o].at = "locking" => (Issuing(tx[o]) /\ LockedAndCurrent(o))'
  BY DEF Decides, Issuing, LockedAndCurrent
<1>2. tx[o].at = "reversing" => LookedUp(o)'
  BY DEF Decides, LookedUp
<1>3. QED
  BY <1>1, <1>2 DEF Decides

\* The end of a transaction, for the others and for itself.
LEMMA EndKeeps ==
    ASSUME NEW p \in Procs, StockInv, End(p), Tables',
           LotIds \subseteq LotIds', DOMAIN issues \subseteq DOMAIN issues',
           \A o \in Procs \ {p}, l \in LotIds : <<o, l>> \in lotLock => lots'[l].left = lots[l].left,
           \A o \in Procs \ {p}, i \in DOMAIN issues : <<o, i>> \in issueLock => (Reversed(i)' <=> Reversed(i))
    PROVE  StockInv'
<1>1. /\ DOMAIN tx' = Procs /\ tx'[p] = NoTransaction
      /\ \A o \in Procs \ {p} : tx'[o] = tx[o]
  BY DEF StockInv, End
<1>2. \A o \in Procs \ {p} : \A n :
        /\ <<o, n>> \in lotLock => <<o, n>> \in lotLock'
        /\ <<o, n>> \in issueLock => <<o, n>> \in issueLock'
  BY DEF End
<1>3. \A o \in Procs \ {p} : Decides(o)'
  BY <1>1, <1>2, OthersKept DEF StockInv
<1>4. Decides(p)'
  BY <1>1 DEF Decides, NoTransaction
<1>5. Exclusive(lotLock)' /\ Exclusive(issueLock)'
  BY DEF StockInv, Exclusive, End
<1>6. QED
  BY <1>1, <1>3, <1>4, <1>5 DEF StockInv

\* A transaction that begins, with what Decides asks of it.
LEMMA BeginKeeps ==
    ASSUME NEW p \in Procs, NEW t, StockInv, Begin(p, t), Decides(p)'
    PROVE  StockInv'
<1>1. /\ DOMAIN tx' = Procs /\ \A o \in Procs \ {p} : tx'[o] = tx[o]
      /\ UNCHANGED <<lots, issues, lotLock, issueLock>>
  BY DEF StockInv, Begin
<1>2. \A o \in Procs \ {p} : Decides(o)'
  BY <1>1, OthersKept DEF StockInv, LotIds, Reversed
<1>3. Tables' /\ Exclusive(lotLock)' /\ Exclusive(issueLock)'
  BY <1>1 DEF StockInv, Tables, IsTable, LotIds, Exclusive
<1>4. QED
  BY <1>1, <1>2, <1>3 DEF StockInv

\* Lots come at the end of the table; those there keep everything.
Appended(new) ==
    /\ Tables' /\ LotIds \subseteq LotIds' /\ UNCHANGED issues
    /\ \A l \in LotIds : lots'[l] = lots[l]
    /\ \A l \in LotIds' \ LotIds : lots'[l].reverses = new

\* A receipt reverses nothing.
LEMMA ReceiptKeeps == ASSUME NEW p \in Procs, StockInv, Receive(p) PROVE StockInv' /\ Appended(0)
<1>1. /\ tx[p].at = "receiving" /\ lots' = Append(lots, tx[p].lot)
      /\ End(p) /\ UNCHANGED issues
  BY DEF Receive
<1>2. /\ IsLot(tx[p].lot)
      /\ tx[p].lot.reverses = 0
  BY <1>1 DEF StockInv, Decides
<1>3. /\ IsTable(lots)' /\ LotIds' = LotIds \cup {Len(lots) + 1}
      /\ \A l \in LotIds : lots'[l] = lots[l]
      /\ lots'[Len(lots) + 1] = tx[p].lot
  BY <1>1, TableAppend DEF StockInv, Tables, LotIds
<1>4. Tables' /\ Appended(0)
  BY <1>1, <1>2, <1>3 DEF StockInv, Tables, Appended
<1>5. \A i \in DOMAIN issues : Reversed(i)' <=> Reversed(i)
  <2> TAKE i \in DOMAIN issues
  <2>1. i # 0
    BY LenProperties DEF StockInv, Tables, IsTable
  <2>2. QED
    BY <1>2, <1>3, <2>1 DEF Reversed
<1>6. StockInv'
  BY <1>1, <1>3, <1>4, <1>5, EndKeeps
<1>7. QED
  BY <1>4, <1>6

\* A reversal has a lot per price of finitely many.
LEMMA PricesFinite ==
    ASSUME StockInv, NEW i \in DOMAIN issues
    PROVE  IsFiniteSet(PricesOf(i)) /\ Cardinality(PricesOf(i)) \in Nat
<1>1. IsFiniteSet(LotIds)
  <2>1. LotIds = 1..Len(lots) /\ Len(lots) \in Nat
    BY LenProperties DEF StockInv, Tables, IsTable, LotIds
  <2>2. QED
    BY <2>1, FS_Interval
<1>2. IsFiniteSet(DOMAIN issues[i].taken)
  BY <1>1, FS_Subset DEF StockInv, Tables
<1>3. IsFiniteSet(PricesOf(i))
  <2> DEFINE f == [l \in DOMAIN issues[i].taken |-> lots[l].price]
  <2>1. f \in Surjection(DOMAIN issues[i].taken, PricesOf(i))
    BY DEF Surjection, PricesOf
  <2>2. QED
    BY <1>2, <2>1, FS_Surjection
<1>4. QED
  BY <1>3, FS_CardinalityType

LEMMA LotFacts ==
    ASSUME NEW qty, NEW price, NEW created, NEW unit, NEW reverses
    PROVE  LET x == Lot(qty, price, created, unit, reverses)
           IN  /\ IsLot(x) /\ x.qty = qty /\ x.left = qty /\ x.price = price
               /\ x.created = created /\ x.unit = unit /\ x.reverses = reverses
BY DEF IsLot, Lot, LotFields

\* The lots of a reversal, one for each price.
ReversalLots(p, k, s) ==
    LET i == tx[p].issue IN
    /\ s \in [1..k -> PricesOf(i)]
    /\ \A m, n \in 1..k : s[m] = s[n] => m = n
    /\ \A c \in PricesOf(i) : \E n \in 1..k : c = s[n]
    /\ IsTable(lots)' /\ LotIds' = LotIds \cup {Len(lots) + n : n \in 1..k}
    /\ \A l \in LotIds : lots'[l] = lots[l]
    /\ \A n \in 1..k : lots'[Len(lots) + n] = Lot(QuantityAt(i, s[n]), s[n], tx[p].created, material.unit, i)

LEMMA ReversalAppends ==
    ASSUME NEW p \in Procs, StockInv, LookedUp(p), ReverseIssue(p), ~UNCHANGED lots
    PROVE  \E k \in Nat : \E s : ReversalLots(p, k, s)
<1> DEFINE i == tx[p].issue
           P == PricesOf(i)
           k == Cardinality(P)
<1>1. IsFiniteSet(P) /\ k \in Nat
  BY PricesFinite DEF LookedUp
<1>2. PICK s \in [1..k -> P] :
        /\ IsInjective(s)
        /\ lots' = lots \o [n \in DOMAIN s |-> Lot(QuantityAt(i, s[n]), s[n], tx[p].created, material.unit, i)]
  BY DEF ReverseIssue
<1> DEFINE e == [n \in 1..k |-> Lot(QuantityAt(i, s[n]), s[n], tx[p].created, material.unit, i)]
<1>3. lots' = lots \o e
  BY <1>2
<1>4. \A m, n \in 1..k : s[m] = s[n] => m = n
  BY <1>2 DEF IsInjective
<1>5. \A c \in P : \E n \in 1..k : c = s[n]
  <2>1. s \in Injection(1..k, P)
    BY <1>2, <1>4 DEF Injection
  <2>2. Cardinality(1..k) = k
    BY <1>1, FS_Interval
  <2> HIDE DEF P, k
  <2>3. s \in Surjection(1..k, P)
    BY <1>1, <2>1, <2>2, FS_Injection DEF k
  <2>4. QED
    BY <2>3 DEF Surjection
<1>6. /\ IsTable(lots \o e) /\ DOMAIN (lots \o e) = LotIds \cup {Len(lots) + n : n \in 1..k}
      /\ \A l \in LotIds : (lots \o e)[l] = lots[l]
      /\ \A n \in 1..k : (lots \o e)[Len(lots) + n] = e[n]
  <2>1. Numbered(e, k) /\ IsTable(lots)
    BY DEF Numbered, StockInv, Tables
  <2> HIDE DEF e, k
  <2>2. /\ IsTable(lots \o e) /\ DOMAIN (lots \o e) = DOMAIN lots \cup NewIds(lots, k)
        /\ \A l \in DOMAIN lots : (lots \o e)[l] = lots[l]
        /\ \A n \in 1..k : (lots \o e)[Len(lots) + n] = e[n]
    <3>1. k \in Nat
      BY <1>1
    <3>2. QED
      BY <2>1, <3>1, TableConcat, ZenonT(30)
  <2>3. QED
    BY <2>2, Zenon DEF LotIds, NewIds
<1>7. \A n \in 1..k : e[n] = Lot(QuantityAt(i, s[n]), s[n], tx[p].created, material.unit, i)
  OBVIOUS
<1> HIDE DEF e
<1>8. IsTable(lots)' /\ LotIds' = LotIds \cup {Len(lots) + n : n \in 1..k}
  BY <1>3, <1>6, Zenon DEF IsTable, LotIds
<1>9. \A l \in LotIds : lots'[l] = lots[l]
  BY <1>3, <1>6, Zenon
<1>10. \A n \in 1..k : lots'[Len(lots) + n] = Lot(QuantityAt(i, s[n]), s[n], tx[p].created, material.unit, i)
  BY <1>3, <1>6, <1>7, Zenon
<1>11. ReversalLots(p, k, s)
  BY <1>2, <1>4, <1>5, <1>8, <1>9, <1>10, Zenon DEF ReversalLots
<1>12. QED
  BY <1>1, <1>11

\* A reversal appends lots if there were none; who else looks at them waits for the issue.
LEMMA IssueReversalKeeps ==
    ASSUME NEW p \in Procs, StockInv, ReverseIssue(p)
    PROVE  /\ StockInv'
           /\ UNCHANGED lots \/ (~Reversed(tx[p].issue) /\ Appended(tx[p].issue))
<1> DEFINE i == tx[p].issue
<1>1. /\ tx[p].at = "reversing" /\ LookedUp(p)
      /\ End(p) /\ UNCHANGED issues
  BY DEF ReverseIssue, StockInv, Decides
<1>2. CASE UNCHANGED lots
  <2>1. Tables' /\ \A j : Reversed(j)' <=> Reversed(j)
    BY <1>1, <1>2 DEF StockInv, Tables, IsTable, LotIds, Reversed
  <2>2. StockInv'
    BY <1>1, <1>2, <2>1, EndKeeps DEF LotIds
  <2>3. QED
    BY <1>2, <2>2
<1>3. CASE ~UNCHANGED lots
  <2>1. ~tx[p].done
    BY <1>3 DEF ReverseIssue
  <2>2. PICK k \in Nat : \E s : ReversalLots(p, k, s)
    BY <1>1, <1>3, ReversalAppends
  <2>3. PICK s : ReversalLots(p, k, s)
    BY <2>2
  <2>4. \A l \in LotIds' \ LotIds : IsLot(lots'[l]) /\ lots'[l].reverses = i
    <3> TAKE l \in LotIds' \ LotIds
    <3>1. PICK n \in 1..k : l = Len(lots) + n
      BY <2>3 DEF ReversalLots
    <3>2. lots'[l] = Lot(QuantityAt(i, s[n]), s[n], tx[p].created, material.unit, i)
      BY <2>3, <3>1 DEF ReversalLots
    <3>3. QED
      BY <3>2, LotFacts
  <2>5. Tables'
    <3>1. \A l \in LotIds' : IsLot(lots'[l])
      BY <2>3, <2>4 DEF ReversalLots, StockInv, Tables
    <3>2. QED
      BY <1>1, <2>3, <3>1 DEF ReversalLots, StockInv, Tables, IsTable
  <2>6. Appended(i)
    BY <1>1, <2>3, <2>4, <2>5 DEF Appended, ReversalLots
  <2>7. \A o \in Procs \ {p}, j \in DOMAIN issues : <<o, j>> \in issueLock => (Reversed(j)' <=> Reversed(j))
    <3> TAKE o \in Procs \ {p}, j \in DOMAIN issues
    <3> HAVE <<o, j>> \in issueLock
    <3>1. DOMAIN issues \subseteq Nat
      BY LenProperties DEF StockInv, Tables, IsTable
    <3>2. j # i
      BY <1>1, <3>1 DEF StockInv, Exclusive, LookedUp
    <3>3. QED
      BY <2>6, <3>2 DEF Reversed, Appended
  <2>8. StockInv'
    BY <1>1, <2>6, <2>7, EndKeeps DEF Appended
  <2>9. QED
    BY <1>1, <2>1, <2>6, <2>8 DEF LookedUp
<1>4. QED
  BY <1>2, <1>3

\* Rows that keep their identity: what is left of them may change, what was
\* recorded of them not, and nothing changes that another transaction holds.
Rewritten(p) ==
    /\ IsTable(lots)' /\ LotIds' = LotIds
    /\ \A l \in LotIds : IsLot(lots'[l]) /\ lots'[l].reverses = lots[l].reverses
    /\ \A o \in Procs \ {p}, l \in LotIds : <<o, l>> \in lotLock => lots'[l] = lots[l]

\* Rewritten lots and one more issue.
LEMMA RewriteKeeps ==
    ASSUME NEW p \in Procs, StockInv, End(p), Rewritten(p),
           NEW taken, NEW qty, NEW reverses, DOMAIN taken \subseteq LotIds,
           issues' = Issued(taken, qty, reverses)
    PROVE  StockInv'
<1>1. /\ IsTable(issues)' /\ DOMAIN issues' = DOMAIN issues \cup {Len(issues) + 1}
      /\ \A i \in DOMAIN issues : issues'[i] = issues[i]
      /\ issues'[Len(issues) + 1].taken = taken
  BY TableAppend DEF StockInv, Tables, Issued
<1>2. \A i : Reversed(i)' <=> Reversed(i)
  BY DEF Reversed, Rewritten
<1>3. Tables'
  BY <1>1 DEF StockInv, Tables, Rewritten
<1>4. QED
  BY <1>1, <1>2, <1>3, EndKeeps DEF Rewritten

\* Rewriting what is left keeps rows rows.
LEMMA RowsRewritten ==
    ASSUME IsTable(lots), \A l \in LotIds : IsLot(lots[l]),
           DOMAIN lots' = LotIds, lots' = [l \in LotIds |-> lots'[l]],
           \A l \in LotIds : lots'[l] = lots[l] \/ \E n : lots'[l] = [lots[l] EXCEPT !.left = n]
    PROVE  /\ IsTable(lots)' /\ LotIds' = LotIds
           /\ \A l \in LotIds : IsLot(lots'[l]) /\ lots'[l].reverses = lots[l].reverses
<1>1. LotIds = 1..Len(lots) /\ Len(lots) \in Nat
  BY LenProperties DEF IsTable, LotIds
<1>2. lots' \in Seq({lots'[l] : l \in DOMAIN lots'})
  BY <1>1, SeqDef
<1>3. ASSUME NEW l \in LotIds PROVE IsLot(lots'[l]) /\ lots'[l].reverses = lots[l].reverses
  <2>1. IsLot(lots[l])
    OBVIOUS
  <2>2. CASE lots'[l] = lots[l]
    BY <2>1, <2>2
  <2>3. ASSUME NEW n, lots'[l] = [lots[l] EXCEPT !.left = n] PROVE IsLot(lots'[l]) /\ lots'[l].reverses = lots[l].reverses
    BY <2>1, <2>3 DEF IsLot, LotFields
  <2>4. QED
    BY <2>2, <2>3
<1>4. QED
  BY <1>2, <1>3 DEF IsTable, LotIds

\* allocate_fifo and _decrement_batches write only lots the issue holds.
LEMMA IssueKeeps == ASSUME NEW p \in Procs, StockInv, Issue(p) PROVE StockInv' /\ LotIds' = LotIds
<1> DEFINE have == tx[p].have
           qty == tx[p].qty
           taken == Allocated(have, qty)
<1>1. /\ tx[p].at = "locking" /\ End(p)
      /\ \/ UNCHANGED <<lots, issues>>
         \/ lots' = Decremented(have, taken) /\ issues' = Issued(taken, qty, 0)
  BY DEF Issue
<1>2. LockedAndCurrent(p)
  BY <1>1 DEF StockInv, Decides
<1>3. DOMAIN taken \subseteq LotIds /\ \A l \in DOMAIN taken : <<p, l>> \in lotLock
  BY <1>2 DEF LockedAndCurrent, Allocated
<1>4. CASE UNCHANGED <<lots, issues>>
  <2>1. Tables' /\ (\A j : Reversed(j)' <=> Reversed(j)) /\ LotIds' = LotIds
    BY <1>4 DEF StockInv, Tables, IsTable, LotIds, Reversed
  <2>2. QED
    BY <1>1, <1>4, <2>1, EndKeeps
<1>5. CASE lots' = Decremented(have, taken) /\ issues' = Issued(taken, qty, 0)
  <2> HIDE DEF taken
  <2>1. /\ DOMAIN lots' = LotIds /\ lots' = [l \in LotIds |-> lots'[l]]
        /\ \A l \in LotIds : l \notin DOMAIN taken => lots'[l] = lots[l]
        /\ \A l \in DOMAIN taken :
              lots'[l] = [lots[l] EXCEPT !.left = have[l] - taken[l]]
    BY <1>3, <1>5 DEF Decremented, Ids, LotIds
  <2>2. \A o \in Procs \ {p}, l \in LotIds : <<o, l>> \in lotLock => lots'[l] = lots[l]
    <3> TAKE o \in Procs \ {p}, l \in LotIds
    <3>1. l \in Nat
      BY LenProperties DEF StockInv, Tables, IsTable, LotIds
    <3>2. QED
      BY <1>3, <2>1, <3>1 DEF StockInv, Exclusive
  <2>3. \A l \in LotIds : lots'[l] = lots[l] \/ \E n : lots'[l] = [lots[l] EXCEPT !.left = n]
    BY <2>1
  <2>4. Rewritten(p)
    BY <2>1, <2>2, <2>3, RowsRewritten DEF StockInv, Tables, Rewritten
  <2>5. QED
    BY <1>1, <1>3, <1>5, <2>4, RewriteKeeps DEF Rewritten
<1>6. QED
  BY <1>1, <1>4, <1>5

\* _reverse_receipt writes a lot nobody else holds.
LEMMA LotReversalKeeps == ASSUME NEW p \in Procs, StockInv, ReverseLot(p) PROVE StockInv' /\ LotIds' = LotIds
<1> DEFINE l == tx[p].lot
           taken == [k \in {l} |-> lots[l].qty]
<1>1. /\ tx[p].at = "lockingLot" /\ LotFree(p, l) /\ End(p)
      /\ \/ UNCHANGED <<lots, issues>>
         \/ /\ lots' = [lots EXCEPT ![l].left = @ - lots[l].qty]
            /\ issues' = Issued(taken, lots[l].qty, l)
  BY DEF ReverseLot
<1>2. l \in LotIds
  BY <1>1 DEF StockInv, Decides
<1>3. CASE UNCHANGED <<lots, issues>>
  <2>1. Tables' /\ (\A j : Reversed(j)' <=> Reversed(j)) /\ LotIds' = LotIds
    BY <1>3 DEF StockInv, Tables, IsTable, LotIds, Reversed
  <2>2. QED
    BY <1>1, <1>3, <2>1, EndKeeps
<1>4. CASE /\ lots' = [lots EXCEPT ![l].left = @ - lots[l].qty]
           /\ issues' = Issued(taken, lots[l].qty, l)
  <2>0. lots = [k \in LotIds |-> lots[k]]
    BY LenProperties DEF StockInv, Tables, IsTable, LotIds
  <2> HIDE DEF l
  <2>1. /\ DOMAIN lots' = LotIds /\ lots' = [k \in LotIds |-> lots'[k]]
        /\ \A k \in LotIds : k # l => lots'[k] = lots[k]
        /\ lots'[l] = [lots[l] EXCEPT !.left = lots[l].left - lots[l].qty]
    BY <1>2, <1>4, <2>0 DEF LotIds
  <2>2. \A o \in Procs \ {p} : <<o, l>> \notin lotLock
    BY <1>1 DEF LotFree
  <2>3. \A k \in LotIds : lots'[k] = lots[k] \/ \E n : lots'[k] = [lots[k] EXCEPT !.left = n]
    BY <2>1
  <2>4. Rewritten(p)
    BY <2>1, <2>2, <2>3, RowsRewritten DEF StockInv, Tables, Rewritten
  <2>5. DOMAIN taken \subseteq LotIds
    BY <1>2
  <2>6. QED
    BY <1>1, <1>4, <2>4, <2>5, RewriteKeeps DEF Rewritten
<1>5. QED
  BY <1>1, <1>3, <1>4

\* FOR UPDATE on a lot reads what is left of it.
LEMMA LockLotKeeps ==
    ASSUME NEW p \in Procs, StockInv, NEW l \in LotIds, LockLot(p, l)
    PROVE  StockInv'
<1>1. /\ tx[p].at = "locking" /\ l \in tx[p].todo /\ LotFree(p, l)
      /\ lotLock' = lotLock \cup {<<p, l>>}
      /\ tx' = [tx EXCEPT ![p].todo = @ \ {l},
                          ![p].have = IF lots[l].left > 0 THEN Having(@, l) ELSE @]
      /\ UNCHANGED <<lots, issues, issueLock>>
  BY DEF LockLot
<1>2. Issuing(tx[p]) /\ LockedAndCurrent(p) /\ DOMAIN tx = Procs
  BY <1>1 DEF StockInv, Decides
<1>3. /\ DOMAIN tx' = Procs /\ \A o \in Procs \ {p} : tx'[o] = tx[o]
      /\ tx'[p].at = "locking"
      /\ tx'[p] = [at |-> "locking", qty |-> tx'[p].qty, todo |-> tx'[p].todo, have |-> tx'[p].have]
      /\ tx'[p].todo = tx[p].todo \ {l}
      /\ tx'[p].have \in {tx[p].have, Having(tx[p].have, l)}
  BY <1>1, <1>2 DEF Issuing
<1>4. \A o \in Procs \ {p} : Decides(o)'
  BY <1>1, <1>3, OthersKept DEF StockInv, LotIds, Reversed
<1>5. Issuing(tx[p])'
  BY <1>1, <1>2, <1>3 DEF Issuing, LotIds
<1>6. LockedAndCurrent(p)'
  BY <1>1, <1>2, <1>3 DEF LockedAndCurrent, LotIds, Having
<1>7. Decides(p)'
  BY <1>3, <1>5, <1>6 DEF Decides
<1>8. Exclusive(lotLock)'
  BY <1>1 DEF StockInv, Exclusive, LotFree
<1>9. Tables' /\ Exclusive(issueLock)'
  BY <1>1 DEF StockInv, Tables, IsTable, LotIds, Exclusive
<1>10. QED
  BY <1>3, <1>4, <1>7, <1>8, <1>9 DEF StockInv

\* FOR UPDATE on an issue, then the look for its reversal.
LEMMA LockIssueKeeps == ASSUME NEW p \in Procs, StockInv, LockIssue(p) PROVE StockInv'
<1> DEFINE i == tx[p].issue
<1>1. /\ tx[p].at = "lockingIssue" /\ IssueFree(i)
      /\ issueLock' = issueLock \cup {<<p, i>>}
      /\ tx' = [tx EXCEPT ![p] = [at |-> "reversing", issue |-> i, created |-> tx[p].created,
                                  done |-> \E l \in LotIds : lots[l].reverses = i]]
      /\ UNCHANGED <<lots, issues, lotLock>>
  BY DEF LockIssue, Ids, LotIds
<1>2. i \in DOMAIN issues /\ DOMAIN tx = Procs
  BY <1>1 DEF StockInv, Decides
<1>3. /\ DOMAIN tx' = Procs /\ \A o \in Procs \ {p} : tx'[o] = tx[o]
      /\ tx'[p] = [at |-> "reversing", issue |-> i, created |-> tx[p].created,
                   done |-> \E l \in LotIds : lots[l].reverses = i]
  BY <1>1, <1>2
<1>4. \A o \in Procs \ {p} : Decides(o)'
  BY <1>1, <1>3, OthersKept DEF StockInv, LotIds, Reversed
<1>5. tx'[p].at = "reversing" /\ tx'[p].issue = i /\ (tx'[p].done <=> Reversed(i))
  BY <1>3 DEF Reversed
<1>6. Reversed(i)' <=> Reversed(i)
  BY <1>1 DEF Reversed, LotIds
<1>7. LookedUp(p)'
  <2> HIDE DEF i
  <2>1. tx'[p].issue \in DOMAIN issues' /\ <<p, tx'[p].issue>> \in issueLock'
    BY <1>1, <1>2, <1>5
  <2>2. tx'[p].done <=> Reversed(i)'
    BY <1>5, <1>6
  <2>3. Reversed(i)' <=> \E l \in LotIds' : lots'[l].reverses = tx'[p].issue
    BY <1>5 DEF Reversed, i
  <2>4. QED
    BY <2>1, <2>2, <2>3 DEF LookedUp, Reversed
<1>8. Decides(p)'
  BY <1>5, <1>7 DEF Decides
<1>9. Exclusive(issueLock)'
  BY <1>1 DEF StockInv, Exclusive, IssueFree
<1>10. Tables' /\ Exclusive(lotLock)'
  BY <1>1 DEF StockInv, Tables, IsTable, LotIds, Exclusive
<1>11. QED
  BY <1>3, <1>4, <1>8, <1>9, <1>10 DEF StockInv

\* A transaction that begins has read nothing under a lock.
LEMMA BeginsKeep ==
    ASSUME NEW p \in Procs, StockInv,
           \/ \E qty \in Quantities : BeginIssue(p, qty)
           \/ \E qty \in Quantities, price \in Prices : BeginReceipt(p, qty, price)
           \/ \E i \in DOMAIN issues : BeginReverseIssue(p, i)
           \/ \E l \in LotIds : BeginReverseLot(p, l)
           \/ \E u \in Units : BeginUnit(p, u)
    PROVE  StockInv' /\ UNCHANGED lots
<1> DEFINE starts(t) == tx' = [tx EXCEPT ![p] = t] /\ UNCHANGED <<lots, issues>>
<1>1. DOMAIN tx = Procs
  BY DEF StockInv
<1>2. ASSUME NEW qty \in Quantities, BeginIssue(p, qty) PROVE StockInv' /\ UNCHANGED lots
  <2> DEFINE t == [at |-> "locking", qty |-> qty, todo |-> {l \in LotIds : lots[l].left > 0}, have |-> <<>>]
  <2>1. Begin(p, t)
    BY <1>2 DEF BeginIssue, Ids, LotIds
  <2>2. tx'[p] = t /\ UNCHANGED <<lots, issues>>
    BY <1>1, <2>1 DEF Begin
  <2>3. Decides(p)'
    BY <2>2 DEF Decides, Issuing, LockedAndCurrent, LotIds
  <2>4. QED
    BY <2>1, <2>2, <2>3, BeginKeeps
<1>3. ASSUME NEW qty \in Quantities, NEW price \in Prices, BeginReceipt(p, qty, price) PROVE StockInv' /\ UNCHANGED lots
  <2> DEFINE t == [at |-> "receiving", lot |-> Lot(qty, price, work, material.unit, 0)]
  <2>1. Begin(p, t)
    BY <1>3 DEF BeginReceipt
  <2>2. tx'[p] = t /\ UNCHANGED <<lots, issues>>
    BY <1>1, <2>1 DEF Begin
  <2>3. IsLot(t.lot) /\ t.lot.reverses = 0
    BY DEF IsLot, Lot, LotFields
  <2>4. Decides(p)'
    BY <2>2, <2>3 DEF Decides
  <2>5. QED
    BY <2>1, <2>2, <2>4, BeginKeeps
<1>4. ASSUME NEW i \in DOMAIN issues, BeginReverseIssue(p, i) PROVE StockInv' /\ UNCHANGED lots
  <2> DEFINE t == [at |-> "lockingIssue", issue |-> i, created |-> work]
  <2>1. Begin(p, t)
    BY <1>4 DEF BeginReverseIssue
  <2>2. tx'[p] = t /\ UNCHANGED <<lots, issues>>
    BY <1>1, <2>1 DEF Begin
  <2>3. Decides(p)'
    BY <2>2 DEF Decides
  <2>4. QED
    BY <2>1, <2>2, <2>3, BeginKeeps
<1>5. ASSUME NEW l \in LotIds, BeginReverseLot(p, l) PROVE StockInv' /\ UNCHANGED lots
  <2> DEFINE t == [at |-> "lockingLot", lot |-> l]
  <2>1. Begin(p, t)
    BY <1>5 DEF BeginReverseLot
  <2>2. tx'[p] = t /\ UNCHANGED <<lots, issues>>
    BY <1>1, <2>1 DEF Begin
  <2>3. Decides(p)'
    BY <2>2 DEF Decides, LotIds
  <2>4. QED
    BY <2>1, <2>2, <2>3, BeginKeeps
<1>6. ASSUME NEW u \in Units, BeginUnit(p, u) PROVE StockInv' /\ UNCHANGED lots
  <2> DEFINE t == [at |-> "unit", unit |-> u]
  <2>1. Begin(p, t)
    BY <1>6 DEF BeginUnit
  <2>2. tx'[p] = t /\ UNCHANGED <<lots, issues>>
    BY <1>1, <2>1 DEF Begin
  <2>3. Decides(p)'
    BY <2>2 DEF Decides
  <2>4. QED
    BY <2>1, <2>2, <2>3, BeginKeeps
<1>7. QED
  BY <1>2, <1>3, <1>4, <1>5, <1>6

\* A transaction that ends and leaves the tables alone.
LEMMA QuietEndKeeps ==
    ASSUME NEW p \in Procs, StockInv, ChangeUnit(p) \/ Rollback(p)
    PROVE  StockInv' /\ UNCHANGED lots
<1>1. End(p) /\ UNCHANGED <<lots, issues>>
  BY DEF ChangeUnit, Rollback
<1>2. Tables' /\ (\A j : Reversed(j)' <=> Reversed(j)) /\ LotIds' = LotIds
  BY <1>1 DEF StockInv, Tables, IsTable, LotIds, Reversed
<1>3. QED
  BY <1>1, <1>2, EndKeeps

\* Steps of the card alone.
LEMMA UnchangedKeeps ==
    ASSUME StockInv, UNCHANGED <<lots, issues, lotLock, issueLock, tx>>
    PROVE  StockInv'
<1>1. \A p \in Procs : Decides(p)'
  BY OthersKept DEF StockInv, LotIds, Reversed
<1>2. QED
  BY <1>1 DEF StockInv, Tables, IsTable, LotIds, Exclusive

\* Every step keeps the invariant and reverses only what was not reversed.
LEMMA StockStep == ASSUME StockInv, [StockNext]_stockVars PROVE StockInv' /\ NewReversal
<1>1. ASSUME NEW p \in Procs, Receive(p) PROVE StockInv' /\ NewReversal
  BY <1>1, ReceiptKeeps DEF Appended, NewReversal
<1>2. ASSUME NEW p \in Procs, ReverseIssue(p) PROVE StockInv' /\ NewReversal
  BY <1>2, IssueReversalKeeps DEF Appended, NewReversal, LotIds
<1>3. ASSUME NEW p \in Procs, Issue(p) \/ ReverseLot(p) PROVE StockInv' /\ NewReversal
  BY <1>3, IssueKeeps, LotReversalKeeps DEF NewReversal
<1>4. ASSUME NEW p \in Procs, LockIssue(p) PROVE StockInv' /\ NewReversal
  BY <1>4, LockIssueKeeps DEF LockIssue, NewReversal, LotIds
<1>5. ASSUME NEW p \in Procs, NEW l \in LotIds, LockLot(p, l) PROVE StockInv' /\ NewReversal
  BY <1>5, LockLotKeeps DEF LockLot, NewReversal, LotIds
<1>6. ASSUME NEW p \in Procs, ChangeUnit(p) \/ Rollback(p) PROVE StockInv' /\ NewReversal
  BY <1>6, QuietEndKeeps DEF NewReversal, LotIds
<1>7. ASSUME NEW p \in Procs,
             \/ \E qty \in Quantities : BeginIssue(p, qty) \/ \E price \in Prices : BeginReceipt(p, qty, price)
             \/ \E i \in Ids(issues) : BeginReverseIssue(p, i)
             \/ \E l \in Ids(lots) : BeginReverseLot(p, l)
             \/ \E u \in Units : BeginUnit(p, u)
      PROVE StockInv' /\ NewReversal
  <2>1. StockInv' /\ UNCHANGED lots
    BY <1>7, BeginsKeep DEF Ids, LotIds
  <2>2. QED
    BY <2>1 DEF NewReversal, LotIds
<1>8. CASE SetActive \/ UNCHANGED stockVars
  BY <1>8, UnchangedKeeps DEF SetActive, stockVars, NewReversal, LotIds
<1>9. CASE StockNext
  BY <1>1, <1>2, <1>3, <1>4, <1>5, <1>6, <1>7, <1>8, <1>9 DEF StockNext, Progress, Ids, LotIds
<1>10. QED
  BY <1>8, <1>9

\* issue_material locks the lots, then allocates and decrements what it read of them;
\* _reverse_issue locks the issue, then looks for lots that reverse it.  For any
\* number of transactions, what either has read is so until it has written.
THEOREM StockReadsHold == StockSpec => []ReadsHold
<1>1. StockInv => ReadsHold
  BY DEF StockInv, Decides, ReadsHold
<1>2. QED
  BY StockInvInit, StockStep, <1>1, PTL DEF StockSpec

\* _reverse_issue: an issue is reversed by one transaction only.
THEOREM IssueReversedOnce == StockSpec => [][NewReversal]_stockVars
<1>1. StockInv /\ [StockNext]_stockVars => StockInv' /\ [NewReversal]_stockVars
  BY StockStep
<1>2. QED
  BY StockInvInit, <1>1, PTL DEF StockSpec

-----------------------------------------------------------------------------
\* What the tables and the transactions hold.
LotKind(x) ==
    /\ x.qty \in Nat \ {0} /\ x.left \in 0..x.qty
    /\ x.price \in Prices /\ x.created \in Nat /\ x.unit \in Units

LotKinds == \A l \in LotIds : LotKind(lots[l]) /\ lots[l].reverses \in DOMAIN issues \cup {0}

\* A reversal takes the whole of its lot.
IssueKind(x) ==
    /\ x.qty \in Nat
    /\ \A l \in DOMAIN x.taken : x.taken[l] \in Nat \ {0}
    /\ x.reverses \in LotIds \cup {0}
    /\ x.reverses # 0 => DOMAIN x.taken = {x.reverses} /\ x.taken[x.reverses] = lots[x.reverses].qty

IssueKinds == \A i \in DOMAIN issues : IssueKind(issues[i])

\* An issue has read only lots with something left.
TxKind(t) ==
    /\ t.at = "locking" => t.qty \in Nat /\ \A l \in DOMAIN t.have : t.have[l] > 0
    /\ t.at = "receiving" => LotKind(t.lot) /\ t.lot.left = t.lot.qty
    /\ t.at \in {"lockingIssue", "reversing"} => t.created \in Nat
    /\ t.at = "unit" => t.unit \in Units

SharedKinds ==
    /\ material \in [unit : Units, active : BOOLEAN]
    /\ lotLock \subseteq Procs \X LotIds /\ issueLock \subseteq Procs \X DOMAIN issues
    /\ work \in 0..MaxWork

BookKinds == LotKinds /\ IssueKinds /\ SharedKinds /\ \A p \in Procs : TxKind(tx[p])

BooksInv == StockInv /\ BookKinds /\ Balanced

-----------------------------------------------------------------------------
\* The tables are finite, and number from 1.
LEMMA TablesNumbered ==
    ASSUME StockInv
    PROVE  /\ LotIds = 1..Len(lots) /\ Len(lots) \in Nat /\ IsFiniteSet(LotIds)
           /\ DOMAIN issues = 1..Len(issues) /\ Len(issues) \in Nat /\ IsFiniteSet(DOMAIN issues)
<1>1. /\ LotIds = 1..Len(lots) /\ Len(lots) \in Nat
      /\ DOMAIN issues = 1..Len(issues) /\ Len(issues) \in Nat
  BY LenProperties DEF StockInv, Tables, IsTable, LotIds
<1>2. QED
  BY <1>1, FS_Interval

\* Who took of a lot, and how much.
Takers(l) == {i \in DOMAIN issues : l \in DOMAIN issues[i].taken}
TakenBy(l) == [i \in Takers(l) |-> issues[i].taken[l]]

LEMMA TakenSum == ASSUME NEW l PROVE TakenOf(l) = SumFunctionOnSet(TakenBy(l), Takers(l))
BY DEF TakenOf, SumFunction, TakenBy, Takers, Ids

LEMMA TakenBounds ==
    ASSUME StockInv, IssueKinds, NEW l
    PROVE  /\ IsFiniteSet(Takers(l)) /\ Nats(TakenBy(l), Takers(l))
           /\ TakenOf(l) \in Nat /\ \A i \in Takers(l) : issues[i].taken[l] <= TakenOf(l)
<1>1. IsFiniteSet(Takers(l))
  BY TablesNumbered, FS_Subset DEF Takers
<1>2. \A i \in Takers(l) : TakenBy(l)[i] = issues[i].taken[l] /\ issues[i].taken[l] \in Nat
  BY DEF TakenBy, Takers, IssueKinds, IssueKind
<1>3. Nats(TakenBy(l), Takers(l))
  BY <1>2 DEF Nats
<1>4. QED
  BY <1>1, <1>2, <1>3, TakenSum, SumNat, SumBounds

\* An issue more takes what it takes.
LEMMA TakenAppend ==
    ASSUME StockInv, IssueKinds, NEW e, issues' = Append(issues, e), NEW l,
           l \in DOMAIN e.taken => e.taken[l] \in Nat
    PROVE  TakenOf(l)' = IF l \in DOMAIN e.taken THEN TakenOf(l) + e.taken[l] ELSE TakenOf(l)
<1> DEFINE new == Len(issues) + 1
           D == {i \in DOMAIN issues' : l \in DOMAIN issues'[i].taken}
           G == [i \in D |-> issues'[i].taken[l]]
<1>1. TakenOf(l)' = SumFunctionOnSet(G, D)
  BY DEF TakenOf, SumFunction, Ids
<1>2. /\ DOMAIN issues' = DOMAIN issues \cup {new} /\ new \notin DOMAIN issues
      /\ \A i \in DOMAIN issues : issues'[i] = issues[i]
      /\ issues'[new] = e
  BY TableAppend, TablesNumbered DEF StockInv, Tables
<1> HIDE DEF new
<1>3. D = IF l \in DOMAIN e.taken THEN Takers(l) \cup {new} ELSE Takers(l)
  BY <1>2 DEF Takers
<1>4. Takers(l) \subseteq D /\ \A i \in Takers(l) : G[i] = TakenBy(l)[i]
  BY <1>2 DEF Takers, TakenBy
<1>5. SumFunctionOnSet(G, Takers(l)) = TakenOf(l)
  <2> HIDE DEF G, D
  <2>1. QED
    BY <1>4, TakenBounds, SumSame, TakenSum
<1>6. CASE l \notin DOMAIN e.taken
  BY <1>1, <1>3, <1>5, <1>6
<1>7. CASE l \in DOMAIN e.taken
  <2>1. new \notin Takers(l)
    BY <1>2 DEF Takers
  <2>2. G[new] = e.taken[l] /\ D = Takers(l) \cup {new}
    BY <1>2, <1>3, <1>7
  <2>3. Ints(G, Takers(l) \cup {new})
    <3>1. \A i \in Takers(l) : G[i] \in Nat
      BY <1>4, TakenBounds, Zenon DEF Nats
    <3>2. G[new] \in Nat
      BY <1>7, <2>2
    <3> HIDE DEF G, D
    <3>3. QED
      BY <3>1, <3>2 DEF Ints
  <2> HIDE DEF G, D
  <2>4. SumFunctionOnSet(G, Takers(l) \cup {new}) = G[new] + SumFunctionOnSet(G, Takers(l))
    BY <2>1, <2>3, TakenBounds, SumAdd
  <2>5. QED
    BY <1>1, <1>5, <1>7, <2>2, <2>4, TakenBounds
<1>8. QED
  BY <1>6, <1>7

\* The lesser of two.
LEMMA MinOfTwo == ASSUME NEW a \in Int, NEW b \in Int PROVE Min({a, b}) = IF a <= b THEN a ELSE b
<1> DEFINE m == IF a <= b THEN a ELSE b
<1>1. m \in {a, b} /\ \A y \in {a, b} : m <= y
  OBVIOUS
<1>2. \A x \in {a, b} : (\A y \in {a, b} : x <= y) => x = m
  OBVIOUS
<1>3. QED
  BY <1>1, <1>2 DEF Min

-----------------------------------------------------------------------------
\* Lots are in order: of any of them, one is the youngest.
Dated(D) == D \subseteq LotIds /\ D \subseteq Nat /\ \A l \in D : lots[l].created \in Nat

LEMMA Youngest ==
    ASSUME NEW D, IsFiniteSet(D), Dated(D), D # {}
    PROVE  \E m \in D : \A k \in D \ {m} : Older(k, m)
<1> DEFINE Top(U) == \E m \in U : \A k \in U \ {m} : Older(k, m)
           B == {U \in SUBSET D : U # {} /\ ~Top(U)}
<1> SUFFICES ASSUME B # {} PROVE FALSE
    OBVIOUS
<1>1. PICK U \in B : IsFiniteSet(U) /\ \A V \in B : V \subseteq U => V = U
  <2>1. B \in SUBSET SUBSET D
    OBVIOUS
  <2> HIDE DEF B
  <2>2. QED
    BY <2>1, MinimalSubset
<1>2. PICK x \in U : TRUE
  OBVIOUS
<1> DEFINE V == U \ {x}
<1>3. CASE V = {}
  BY <1>3
<1>4. CASE V # {}
  <2>1. Top(V)
    <3>1. V \in SUBSET D /\ V \subseteq U /\ V # U
      BY <1>1, <1>2
    <3> HIDE DEF Top
    <3>2. ~Top(V) => V \in B
      BY <1>4, <3>1
    <3>3. QED
      BY <1>1, <3>1, <3>2
  <2>2. PICK m \in V : \A k \in V \ {m} : Older(k, m)
    BY <2>1
  <2>3. \A k \in U : k \in Nat /\ lots[k].created \in Nat
    BY DEF Dated
  <2>4. CASE Older(x, m)
    BY <2>2, <2>4
  <2>5. CASE Older(m, x)
    <3>1. \A k \in U \ {x} : Older(k, x)
      BY <1>2, <2>2, <2>3, <2>5 DEF Older
    <3>2. QED
      BY <1>2, <3>1
  <2>6. QED
    BY <1>2, <2>2, <2>3, <2>4, <2>5 DEF Older
<1>5. QED
  BY <1>3, <1>4

LEMMA TakesBounds ==
    ASSUME NEW have, IsFiniteSet(DOMAIN have), Nats(have, DOMAIN have), NEW qty \in Nat, NEW l \in DOMAIN have
    PROVE  Takes(have, qty, l) \in 0..have[l]
<1> DEFINE E == {k \in DOMAIN have : Older(k, l)}
<1>1. SumFunctionOnSet(have, E) \in Nat
  <2>1. IsFiniteSet(E) /\ Nats(have, E)
    BY FS_Subset DEF Nats
  <2>2. QED
    BY <2>1, SumNat
<1>2. have[l] \in Nat
  BY DEF Nats
<1>3. CASE SumFunctionOnSet(have, E) >= qty
  BY <1>2, <1>3 DEF Takes
<1>4. CASE ~(SumFunctionOnSet(have, E) >= qty)
  <2>1. qty - SumFunctionOnSet(have, E) \in Nat
    BY <1>1, <1>4
  <2>2. Takes(have, qty, l) = Min({have[l], qty - SumFunctionOnSet(have, E)})
    BY <1>4 DEF Takes
  <2>3. QED
    BY <1>2, <2>1, <2>2, MinOfTwo
<1>5. QED
  BY <1>3, <1>4

\* allocate_fifo: from the oldest lots on, all of them or what was asked for.
LEMMA Fifo ==
    ASSUME NEW have, IsFiniteSet(DOMAIN have), Nats(have, DOMAIN have), Dated(DOMAIN have), NEW qty \in Nat
    PROVE  SumFunctionOnSet([l \in DOMAIN have |-> Takes(have, qty, l)], DOMAIN have) =
               IF SumFunctionOnSet(have, DOMAIN have) >= qty THEN qty ELSE SumFunctionOnSet(have, DOMAIN have)
<1> DEFINE D == DOMAIN have
           T == [l \in D |-> Takes(have, qty, l)]
           Least(n) == IF n >= qty THEN qty ELSE n
           Closed(U) == \A k \in U, j \in D : Older(j, k) => j \in U
           B == {U \in SUBSET D : Closed(U) /\ SumFunctionOnSet(T, U) # Least(SumFunctionOnSet(have, U))}
<1> SUFFICES ASSUME B # {} PROVE FALSE
  <2>1. Closed(D)
    OBVIOUS
  <2>2. QED
    BY <2>1
<1>1. PICK U \in B : IsFiniteSet(U) /\ \A V \in B : V \subseteq U => V = U
  <2>1. B \in SUBSET SUBSET D
    OBVIOUS
  <2> HIDE DEF B
  <2>2. QED
    BY <2>1, MinimalSubset
<1>2. CASE U = {}
  BY <1>1, <1>2, SumEmpty
<1>3. CASE U # {}
  <2>1. \A k \in U : k \in Nat /\ lots[k].created \in Nat
    BY DEF Dated
  <2>2. PICK m \in U : \A k \in U \ {m} : Older(k, m)
    BY <1>1, <1>3, Youngest DEF Dated
  <2> DEFINE V == U \ {m}
             E == SumFunctionOnSet(have, V)
  <2>3. Closed(V)
    <3>1. \A k \in V : ~Older(m, k)
      BY <2>1, <2>2 DEF Older
    <3>2. QED
      BY <1>1, <3>1
  <2>4. SumFunctionOnSet(T, V) = Least(E)
    BY <1>1, <2>2, <2>3
  <2>5. V = {k \in D : Older(k, m)}
    <3>1. ~Older(m, m)
      BY <2>1, <2>2 DEF Older
    <3>2. QED
      BY <1>1, <2>2, <3>1
  <2>6. T[m] = IF E >= qty THEN 0 ELSE Min({have[m], qty - E})
    BY <2>5 DEF Takes
  <2>7. /\ IsFiniteSet(V) /\ V \subseteq D /\ m \notin V /\ V \cup {m} = U
        /\ Nats(have, V) /\ Nats(have, V \cup {m}) /\ Nats(T, V \cup {m})
    BY <1>1, <2>2, FS_RemoveElement, TakesBounds DEF Nats
  <2>8. E \in Nat /\ have[m] \in Nat
    BY <2>7, SumNat DEF Nats
  <2>9. SumFunctionOnSet(have, U) = have[m] + E
    BY <2>7, SumAdd DEF Nats, Ints
  <2>10. SumFunctionOnSet(T, U) = T[m] + SumFunctionOnSet(T, V)
    BY <2>7, SumAdd DEF Nats, Ints
  <2> HIDE DEF E, T
  <2>11. T[m] + Least(E) = Least(have[m] + E)
    <3>1. CASE E >= qty
      BY <2>6, <2>8, <3>1
    <3>2. CASE ~(E >= qty)
      <4>1. qty - E \in Nat
        BY <2>8, <3>2
      <4>2. T[m] = IF have[m] <= qty - E THEN have[m] ELSE qty - E
        BY <2>6, <2>8, <3>2, <4>1, MinOfTwo
      <4>3. QED
        BY <2>8, <3>2, <4>1, <4>2
    <3>3. QED
      BY <3>1, <3>2
  <2>12. QED
    BY <1>1, <2>4, <2>9, <2>10, <2>11
<1>4. QED
  BY <1>2, <1>3

\* What is allocated is what was asked for, and no lot gives more than it has.
LEMMA AllocatedCovers ==
    ASSUME NEW have, IsFiniteSet(DOMAIN have), Nats(have, DOMAIN have), Dated(DOMAIN have), NEW qty \in Nat,
           SumFunction(have) >= qty
    PROVE  /\ SumFunction(Allocated(have, qty)) = qty
           /\ DOMAIN Allocated(have, qty) \subseteq DOMAIN have
           /\ \A l \in DOMAIN Allocated(have, qty) : Allocated(have, qty)[l] \in 1..have[l]
<1> DEFINE D == DOMAIN have
           T == [l \in D |-> Takes(have, qty, l)]
           A == Allocated(have, qty)
<1>1. /\ DOMAIN A = {l \in D : Takes(have, qty, l) > 0}
      /\ \A l \in DOMAIN A : A[l] = Takes(have, qty, l)
  BY DEF Allocated
<1>2. \A l \in D : T[l] \in 0..have[l] /\ have[l] \in Nat
  BY TakesBounds DEF Nats
<1>3. SumFunctionOnSet(T, D) = qty
  BY Fifo DEF SumFunction
<1>4. SumFunctionOnSet(T, D) = SumFunctionOnSet(T, DOMAIN A)
  <2>1. DOMAIN A \in SUBSET D /\ Ints(T, DOMAIN A) /\ \A l \in D \ DOMAIN A : T[l] = 0
    BY <1>1, <1>2 DEF Ints
  <2> HIDE DEF T, A
  <2>2. QED
    BY <2>1, SumSupport
<1>5. SumFunctionOnSet(T, DOMAIN A) = SumFunctionOnSet(A, DOMAIN A)
  <2>1. IsFiniteSet(DOMAIN A) /\ \A l \in DOMAIN A : T[l] = A[l]
    BY <1>1, FS_Subset
  <2> HIDE DEF T, A
  <2>2. QED
    BY <2>1, SumSame
<1>6. \A l \in DOMAIN A : A[l] \in 1..have[l]
  BY <1>1, <1>2
<1>7. QED
  BY <1>1, <1>3, <1>4, <1>5, <1>6 DEF SumFunction

-----------------------------------------------------------------------------
\* What Balanced asks of the next state, when nothing was issued or received.
LEMMA QuietBooks ==
    ASSUME BooksInv, StockInv', UNCHANGED <<lots, issues>>, SharedKinds', \A p \in Procs : TxKind(tx[p])'
    PROVE  BooksInv'
<1>1. LotKinds' /\ IssueKinds'
  BY DEF BooksInv, BookKinds, LotKinds, IssueKinds, IssueKind, LotIds
<1>2. LotsAccounted' /\ IssuesCovered'
  BY DEF BooksInv, Balanced, LotsAccounted, IssuesCovered, TakenOf, Ids
<1>3. ReturnedOnce' /\ WithdrawnWhole'
  BY DEF BooksInv, Balanced, ReturnedOnce, Returning, WithdrawnWhole, Ids
<1>4. QED
  BY <1>1, <1>2, <1>3 DEF BooksInv, BookKinds, Balanced

\* The end of a transaction leaves the others as they were.
LEMMA EndKinds ==
    ASSUME BooksInv, NEW p \in Procs, End(p), LotIds \subseteq LotIds', DOMAIN issues \subseteq DOMAIN issues',
           material' \in [unit : Units, active : BOOLEAN]
    PROVE  SharedKinds' /\ \A o \in Procs : TxKind(tx[o])'
<1>1. tx' = [tx EXCEPT ![p] = NoTransaction] /\ DOMAIN tx = Procs /\ \A o \in Procs : TxKind(tx[o])
  BY DEF End, BooksInv, BookKinds, StockInv
<1>2. TxKind(NoTransaction)
  BY DEF TxKind, NoTransaction
<1>3. \A o \in Procs : tx'[o] = NoTransaction \/ tx'[o] = tx[o]
  BY <1>1
<1>4. \A o \in Procs : TxKind(tx'[o])
  BY <1>1, <1>2, <1>3, Zenon
<1>5. SharedKinds'
  BY DEF End, BooksInv, BookKinds, SharedKinds
<1>6. QED
  BY <1>4, <1>5 DEF TxKind, LotKind

\* Lots that come at the end of the table, whole.
NewLots ==
    /\ UNCHANGED issues /\ LotIds \subseteq LotIds'
    /\ \A l \in LotIds : lots'[l] = lots[l]
    /\ \A l \in LotIds' \ LotIds : /\ LotKind(lots'[l]) /\ lots'[l].left = lots'[l].qty
                                   /\ lots'[l].reverses \in DOMAIN issues \cup {0}

LEMMA NewLotsBooks ==
    ASSUME BooksInv, NewLots
    PROVE  LotKinds' /\ IssueKinds' /\ LotsAccounted' /\ IssuesCovered' /\ WithdrawnWhole'
<1>1. LotKinds'
  BY DEF BooksInv, BookKinds, LotKinds, NewLots, LotKind
<1>2. IssueKinds'
  BY DEF BooksInv, BookKinds, IssueKinds, IssueKind, NewLots
<1>3. IssuesCovered' /\ WithdrawnWhole'
  BY DEF BooksInv, Balanced, IssuesCovered, WithdrawnWhole, Ids, NewLots
<1>4. ASSUME NEW l \in LotIds' PROVE lots'[l].left + TakenOf(l)' = lots'[l].qty
  <2>1. TakenOf(l)' = TakenOf(l)
    BY DEF TakenOf, Ids, NewLots
  <2>2. CASE l \in LotIds
    BY <2>1, <2>2 DEF BooksInv, Balanced, LotsAccounted, NewLots, Ids, LotIds
  <2>3. CASE l \notin LotIds
    <3>1. Takers(l) = {}
      BY <2>3 DEF Takers, BooksInv, StockInv, Tables
    <3>2. TakenOf(l) = 0
      BY <3>1, TakenSum, SumEmpty
    <3>3. lots'[l].left = lots'[l].qty /\ lots'[l].qty \in Nat
      BY <2>3 DEF NewLots, LotKind
    <3>4. QED
      BY <2>1, <3>2, <3>3
  <2>4. QED
    BY <2>2, <2>3
<1>5. LotsAccounted'
  BY <1>4 DEF LotsAccounted, Ids, LotIds
<1>6. QED
  BY <1>1, <1>2, <1>3, <1>5

\* What came back for an issue.
ReturnedOf(i) == SumFunction([l \in Returning(i) |-> lots[l].qty])

LEMMA ReturnedSame ==
    ASSUME NEW i, Returning(i)' = Returning(i), \A l \in Returning(i) : lots'[l].qty = lots[l].qty
    PROVE  ReturnedOf(i)' = ReturnedOf(i)
<1> DEFINE f == [l \in Returning(i) |-> lots[l].qty]
           g == [l \in Returning(i)' |-> lots'[l].qty]
<1>1. f = g
  OBVIOUS
<1>2. ReturnedOf(i) = SumFunction(f) /\ ReturnedOf(i)' = SumFunction(g)
  BY DEF ReturnedOf
<1>3. QED
  BY <1>1, <1>2

\* A receipt returns nothing.
LEMMA ReceiptBooks == ASSUME BooksInv, NEW p \in Procs, Receive(p) PROVE BooksInv'
<1> USE DEF BooksInv
<1>1. StockInv' /\ Appended(0)
  BY ReceiptKeeps
<1>2. /\ lots' = Append(lots, tx[p].lot) /\ UNCHANGED <<issues, material>> /\ End(p)
      /\ LotKind(tx[p].lot) /\ tx[p].lot.left = tx[p].lot.qty
  BY DEF Receive, BookKinds, TxKind
<1>3. LotIds' = LotIds \cup {Len(lots) + 1} /\ lots'[Len(lots) + 1] = tx[p].lot
  BY <1>2, TableAppend DEF StockInv, Tables, LotIds
<1>4. NewLots
  BY <1>1, <1>2, <1>3 DEF NewLots, Appended
<1>5. \A i \in DOMAIN issues : Returning(i)' = Returning(i)
  <2> TAKE i \in DOMAIN issues
  <2>1. i # 0
    BY TablesNumbered
  <2>2. QED
    BY <1>1, <2>1 DEF Returning, Ids, Appended, LotIds
<1>6. ReturnedOnce'
  <2> SUFFICES ASSUME NEW i \in DOMAIN issues, Returning(i) # {} PROVE ReturnedOf(i)' = issues[i].qty
    BY <1>2, <1>5 DEF ReturnedOnce, ReturnedOf, Ids
  <2>1. ReturnedOf(i)' = ReturnedOf(i)
    <3>1. \A l \in Returning(i) : lots'[l].qty = lots[l].qty
      BY <1>4 DEF NewLots, Returning, Ids, LotIds
    <3>2. QED
      BY <1>5, <3>1, ReturnedSame
  <2>2. QED
    BY <2>1 DEF Balanced, ReturnedOnce, ReturnedOf, Ids
<1>7. SharedKinds' /\ \A o \in Procs : TxKind(tx[o])'
  BY <1>1, <1>2, EndKinds DEF BookKinds, SharedKinds, Appended
<1>8. QED
  BY <1>1, <1>4, <1>6, <1>7, NewLotsBooks DEF BookKinds, Balanced

\* Split by price and put together again, a sum is what it was.
Splits(f, price, k, m, s, g) ==
    /\ \A a, b \in 1..k : s[a] = s[b] => a = b
    /\ \A d \in DOMAIN f : \E n \in 1..k : price[d] = s[n]
    /\ \A n \in 1..k : g[m + n] = SumFunctionOnSet(f, {d \in DOMAIN f : price[d] = s[n]})

LEMMA SplitByPrice ==
    ASSUME NEW f, IsFiniteSet(DOMAIN f), Ints(f, DOMAIN f), NEW k \in Nat, NEW m \in Nat,
           NEW price, NEW s, NEW g, Splits(f, price, k, m, s, g)
    PROVE  SumFunctionOnSet(g, m + 1..m + k) = SumFunctionOnSet(f, DOMAIN f)
<1> USE DEF Splits
<1> DEFINE R == m + 1..m + k
           Of(U) == {d \in DOMAIN f : \E x \in U : price[d] = s[x - m]}
           B == {U \in SUBSET R : SumFunctionOnSet(g, U) # SumFunctionOnSet(f, Of(U))}
<1>1. \A x \in R : x - m \in 1..k /\ x = m + (x - m)
  OBVIOUS
<1>2. \A n \in 1..k : m + n \in R /\ (m + n) - m = n
  OBVIOUS
<1>3. IsFiniteSet(R)
  BY FS_Interval
<1> HIDE DEF R
<1>4. B = {}
  <2> SUFFICES ASSUME B # {} PROVE FALSE
    OBVIOUS
  <2>1. PICK U \in B : IsFiniteSet(U) /\ \A V \in B : V \subseteq U => V = U
    <3>1. B \in SUBSET SUBSET R
      OBVIOUS
    <3> HIDE DEF B
    <3>2. QED
      BY <1>3, <3>1, MinimalSubset
  <2>2. U # {}
    <3>1. Of({}) = {}
      OBVIOUS
    <3>2. QED
      BY <3>1, SumEmpty
  <2> DEFINE x == Chosen(U)
             V == U \ {x}
             At == {d \in DOMAIN f : price[d] = s[x - m]}
  <2>3. x \in U /\ V \subseteq U /\ V # U
    BY <2>2, ChosenIn
  <2> HIDE DEF x
  <2>4. SumFunctionOnSet(g, V) = SumFunctionOnSet(f, Of(V))
    BY <2>1, <2>3
  <2>5. g[x] = SumFunctionOnSet(f, At)
    BY <1>1, <2>1, <2>3
  <2>6. Of(U) = At \cup Of(V)
    BY <2>3
  <2>7. At \cap Of(V) = {}
    <3>1. \A y \in V : s[y - m] # s[x - m]
      BY <1>1, <2>1, <2>3
    <3>2. QED
      BY <3>1
  <2>8. IsFiniteSet(At) /\ IsFiniteSet(Of(V)) /\ Ints(f, At \cup Of(V))
    BY FS_Subset DEF Ints
  <2> HIDE DEF At, Of
  <2>9. SumFunctionOnSet(f, Of(U)) = SumFunctionOnSet(f, At) + SumFunctionOnSet(f, Of(V))
    <3> DEFINE W == Of(V)
    <3>1. IsFiniteSet(At) /\ IsFiniteSet(W) /\ At \cap W = {} /\ Ints(f, At \cup W) /\ Of(U) = At \cup W
      BY <2>6, <2>7, <2>8
    <3> HIDE DEF W
    <3>2. SumFunctionOnSet(f, At \cup W) = SumFunctionOnSet(f, At) + SumFunctionOnSet(f, W)
      BY <3>1, SumUnion
    <3>3. QED
      BY <3>1, <3>2 DEF W
  <2>10. SumFunctionOnSet(g, U) = g[x] + SumFunctionOnSet(g, V)
    <3>1. SumFunctionOnSet(g, U) = g[Chosen(U)] + SumFunctionOnSet(g, U \ {Chosen(U)})
      BY <2>1, <2>2, SumDef
    <3>2. QED
      BY <3>1 DEF x
  <2>11. QED
    BY <2>1, <2>4, <2>5, <2>9, <2>10
<1>5. Of(R) = DOMAIN f
  <2> SUFFICES ASSUME NEW d \in DOMAIN f PROVE \E x \in R : price[d] = s[x - m]
    OBVIOUS
  <2>1. PICK n \in 1..k : price[d] = s[n]
    OBVIOUS
  <2>2. QED
    BY <1>2, <2>1
<1>6. SumFunctionOnSet(g, R) = SumFunctionOnSet(f, Of(R))
  BY <1>4
<1>7. QED
  BY <1>5, <1>6 DEF R

\* _reverse_issue: a lot for each price, and all that the issue took.
LEMMA ReversalReturns ==
    ASSUME BooksInv, NEW p \in Procs, LookedUp(p), NEW k \in Nat, NEW s, ReversalLots(p, k, s),
           NEW i, i = tx[p].issue, ~Reversed(i)
    PROVE  ReturnedOf(i)' = issues[i].qty
<1> DEFINE f == issues[i].taken
           price == [d \in DOMAIN f |-> lots[d].price]
           m == Len(lots)
           g == [l \in Returning(i)' |-> lots'[l].qty]
<1>1. i \in DOMAIN issues /\ IsFiniteSet(DOMAIN f) /\ Ints(f, DOMAIN f)
  <2>1. DOMAIN f \subseteq LotIds /\ IsFiniteSet(LotIds)
    BY TablesNumbered DEF BooksInv, StockInv, Tables, LookedUp
  <2>2. QED
    BY <2>1, FS_Subset DEF LookedUp, BooksInv, BookKinds, IssueKinds, IssueKind, Ints
<1>2. m \in Nat /\ LotIds = 1..m
  BY TablesNumbered DEF BooksInv
<1>3. Returning(i)' = m + 1..m + k
  <2>1. \A l \in LotIds : lots'[l].reverses # i
    BY DEF ReversalLots, Reversed
  <2>2. \A n \in 1..k : lots'[m + n].reverses = i /\ m + n \in LotIds'
    <3> TAKE n \in 1..k
    <3>1. lots'[m + n] = Lot(QuantityAt(i, s[n]), s[n], tx[p].created, material.unit, i) /\ m + n \in LotIds'
      BY DEF ReversalLots
    <3>2. QED
      BY <3>1, LotFacts
  <2>3. Returning(i)' = {m + n : n \in 1..k}
    <3>1. LotIds' = LotIds \cup {m + n : n \in 1..k}
      BY DEF ReversalLots
    <3>2. Returning(i)' = {l \in LotIds' : lots'[l].reverses = i}
      BY DEF Returning, Ids, LotIds
    <3> HIDE DEF m
    <3>3. QED
      BY <2>1, <2>2, <3>1, <3>2
  <2>4. \A x \in m + 1..m + k : x - m \in 1..k /\ x = m + (x - m)
    BY <1>2
  <2>5. \A n \in 1..k : m + n \in m + 1..m + k
    BY <1>2
  <2> HIDE DEF m
  <2>6. QED
    BY <2>3, <2>4, <2>5
<1>4. \A n \in 1..k : g[m + n] = SumFunctionOnSet(f, {d \in DOMAIN f : price[d] = s[n]})
  <2> TAKE n \in 1..k
  <2>1. m + n \in Returning(i)'
    BY <1>2, <1>3
  <2>2. g[m + n] = QuantityAt(i, s[n])
    <3>1. lots'[m + n].qty = QuantityAt(i, s[n])
      BY LotFacts DEF ReversalLots
    <3>2. QED
      BY <2>1, <3>1
  <2>3. {d \in DOMAIN f : price[d] = s[n]} = {d \in DOMAIN f : lots[d].price = s[n]}
    OBVIOUS
  <2>4. QED
    BY <2>2, <2>3 DEF QuantityAt
<1>5. \A d \in DOMAIN f : \E n \in 1..k : price[d] = s[n]
  BY DEF ReversalLots, PricesOf
<1>6. \A a, b \in 1..k : s[a] = s[b] => a = b
  BY DEF ReversalLots
<1>7. ReturnedOf(i)' = SumFunctionOnSet(g, m + 1..m + k)
  BY <1>3 DEF ReturnedOf, SumFunction
<1>8. SumFunctionOnSet(f, DOMAIN f) = issues[i].qty
  BY <1>1 DEF BooksInv, Balanced, IssuesCovered, SumFunction, Ids
<1>9. SumFunctionOnSet(g, m + 1..m + k) = SumFunctionOnSet(f, DOMAIN f)
  <2> HIDE DEF f, g, price, m
  <2>1. Splits(f, price, k, m, s, g)
    BY <1>4, <1>5, <1>6 DEF Splits
  <2>2. QED
    BY <1>1, <1>2, <2>1, SplitByPrice
<1>10. QED
  BY <1>7, <1>8, <1>9

LEMMA IssueReversalBooks == ASSUME BooksInv, NEW p \in Procs, ReverseIssue(p) PROVE BooksInv'
<1> USE DEF BooksInv
<1> DEFINE i == tx[p].issue
<1>1. /\ StockInv' /\ (UNCHANGED lots \/ (~Reversed(i) /\ Appended(i)))
      /\ UNCHANGED <<issues, material>> /\ End(p) /\ tx[p].at = "reversing"
  BY IssueReversalKeeps DEF ReverseIssue
<1>2. SharedKinds' /\ \A o \in Procs : TxKind(tx[o])'
  BY <1>1, EndKinds DEF BookKinds, SharedKinds, Appended, LotIds
<1>3. CASE UNCHANGED lots
  BY <1>1, <1>2, <1>3, QuietBooks
<1>4. CASE ~UNCHANGED lots
  <2>1. LookedUp(p) /\ i \in DOMAIN issues /\ ~Reversed(i) /\ Appended(i)
    BY <1>1, <1>4 DEF StockInv, Decides, LookedUp
  <2>2. PICK k \in Nat : \E s : ReversalLots(p, k, s)
    BY <1>4, <2>1, ReversalAppends
  <2>3. PICK s : ReversalLots(p, k, s)
    BY <2>2
  <2>4. \A c \in PricesOf(i) : c \in Prices /\ QuantityAt(i, c) \in Nat \ {0}
    <3> TAKE c \in PricesOf(i)
    <3> DEFINE f == issues[i].taken
               At == {d \in DOMAIN f : lots[d].price = c}
    <3>1. DOMAIN f \subseteq LotIds /\ IsFiniteSet(DOMAIN f)
      BY <2>1, TablesNumbered, FS_Subset DEF StockInv, Tables
    <3>2. PICK d \in At : lots[d].price = c
      BY DEF PricesOf
    <3>3. c \in Prices
      BY <3>1, <3>2 DEF BookKinds, LotKinds, LotKind
    <3>4. IsFiniteSet(At) /\ Nats(f, At) /\ f[d] > 0 /\ f[d] \in Nat
      BY <2>1, <3>1, <3>2, FS_Subset DEF Nats, BookKinds, IssueKinds, IssueKind
    <3> HIDE DEF f, At
    <3>5. SumFunctionOnSet(f, At) \in Nat /\ f[d] <= SumFunctionOnSet(f, At)
      BY <3>2, <3>4, SumNat, SumBounds
    <3>6. SumFunctionOnSet(f, At) > 0
      BY <3>4, <3>5
    <3>7. QED
      BY <3>3, <3>5, <3>6 DEF QuantityAt, f, At
  <2>5. \A l \in LotIds' \ LotIds : LotKind(lots'[l]) /\ lots'[l].left = lots'[l].qty /\ lots'[l].reverses = i
    <3>1. material.unit \in Units /\ tx[p].created \in Nat
      BY <1>1 DEF BookKinds, SharedKinds, TxKind
    <3>2. ASSUME NEW n \in 1..k
          PROVE  LET x == Lot(QuantityAt(i, s[n]), s[n], tx[p].created, material.unit, i)
                 IN  LotKind(x) /\ x.left = x.qty /\ x.reverses = i
      <4>1. s[n] \in Prices /\ QuantityAt(i, s[n]) \in Nat \ {0}
        BY <2>3, <2>4 DEF ReversalLots
      <4>2. QED
        BY <3>1, <4>1 DEF LotKind, Lot
    <3> SUFFICES ASSUME NEW l \in LotIds' \ LotIds
                 PROVE  LotKind(lots'[l]) /\ lots'[l].left = lots'[l].qty /\ lots'[l].reverses = i
        OBVIOUS
    <3>3. PICK n \in 1..k : l = Len(lots) + n
      BY <2>3 DEF ReversalLots
    <3>4. lots'[l] = Lot(QuantityAt(i, s[n]), s[n], tx[p].created, material.unit, i)
      BY <2>3, <3>3, Zenon DEF ReversalLots
    <3>5. QED
      BY <3>2, <3>4, Zenon
  <2>6. NewLots
    BY <1>1, <2>1, <2>5 DEF NewLots, Appended
  <2>7. ReturnedOnce'
    <3> SUFFICES ASSUME NEW j \in DOMAIN issues, Returning(j)' # {} PROVE ReturnedOf(j)' = issues[j].qty
      BY <1>1 DEF ReturnedOnce, ReturnedOf, Ids
    <3>1. CASE j = i
      BY <2>1, <2>3, <3>1, ReversalReturns
    <3>2. CASE j # i
      <4>1. Returning(j)' = Returning(j) /\ \A l \in Returning(j) : lots'[l].qty = lots[l].qty
        BY <2>1, <3>2 DEF Returning, Ids, Appended, LotIds
      <4>2. QED
        BY <4>1, ReturnedSame DEF Balanced, ReturnedOnce, ReturnedOf, Ids
    <3>3. QED
      BY <3>1, <3>2
  <2>8. QED
    BY <1>1, <1>2, <2>6, <2>7, NewLotsBooks DEF BookKinds, Balanced
<1>5. QED
  BY <1>3, <1>4

-----------------------------------------------------------------------------
\* A lot that was reversed has nothing left.
LEMMA ReversedIsEmpty ==
    ASSUME BooksInv, NEW i \in DOMAIN issues, issues[i].reverses # 0
    PROVE  issues[i].reverses \in LotIds /\ lots[issues[i].reverses].left = 0
<1> DEFINE r == issues[i].reverses
<1>1. /\ r \in LotIds /\ r \in DOMAIN issues[i].taken /\ issues[i].taken[r] = lots[r].qty
      /\ IssueKinds /\ StockInv
  BY DEF BooksInv, BookKinds, IssueKinds, IssueKind
<1>2. lots[r].qty <= TakenOf(r) /\ TakenOf(r) \in Nat
  BY <1>1, TakenBounds DEF Takers
<1>3. lots[r].left + TakenOf(r) = lots[r].qty
  BY <1>1 DEF BooksInv, Balanced, LotsAccounted, Ids, LotIds
<1>4. lots[r].left \in 0..lots[r].qty /\ lots[r].qty \in Nat
  BY <1>1 DEF BooksInv, BookKinds, LotKinds, LotKind
<1>5. QED
  BY <1>1, <1>2, <1>3, <1>4

\* One more issue, and the lots it takes from.
Charges(taken, qty, reverses) ==
    /\ DOMAIN taken \subseteq LotIds /\ qty \in Nat /\ SumFunction(taken) = qty
    /\ \A l \in DOMAIN taken : taken[l] \in 1..lots[l].left
    /\ reverses \in LotIds \cup {0}
    /\ reverses # 0 => /\ DOMAIN taken = {reverses} /\ taken[reverses] = lots[reverses].qty

Lessened(taken) ==
    /\ LotIds' = LotIds
    /\ \A l \in LotIds :
          /\ lots'[l].left = IF l \in DOMAIN taken THEN lots[l].left - taken[l] ELSE lots[l].left
          /\ lots'[l].qty = lots[l].qty /\ lots'[l].price = lots[l].price /\ lots'[l].created = lots[l].created
          /\ lots'[l].unit = lots[l].unit /\ lots'[l].reverses = lots[l].reverses

LEMMA IssuedBooks ==
    ASSUME BooksInv, StockInv', SharedKinds', \A p \in Procs : TxKind(tx[p])',
           NEW taken, NEW qty, NEW reverses, Charges(taken, qty, reverses), Lessened(taken),
           issues' = Issued(taken, qty, reverses)
    PROVE  BooksInv'
<1> USE DEF BooksInv
<1> DEFINE new == Len(issues) + 1
           e == [qty |-> qty, taken |-> taken, cost |-> Cost(taken), reverses |-> reverses]
<1>1. /\ DOMAIN issues' = DOMAIN issues \cup {new} /\ new \notin DOMAIN issues
      /\ \A i \in DOMAIN issues : issues'[i] = issues[i]
      /\ issues'[new] = e /\ issues' = Append(issues, e)
  BY TableAppend, TablesNumbered DEF StockInv, Tables, Issued
<1> DEFINE cost == Cost(taken)
<1>2. e.qty = qty /\ e.taken = taken /\ e.reverses = reverses
  OBVIOUS
<1> HIDE DEF e, new
<1>3. \A l \in LotIds : LotKind(lots[l]) /\ lots[l].reverses \in DOMAIN issues \cup {0}
  BY DEF BookKinds, LotKinds
<1>4. LotKinds'
  <2> SUFFICES ASSUME NEW l \in LotIds PROVE LotKind(lots'[l]) /\ lots'[l].reverses \in DOMAIN issues' \cup {0}
    BY DEF LotKinds, Lessened, LotKind
  <2>1. lots[l].left \in Nat /\ lots[l].qty \in Nat /\ lots'[l].left \in 0..lots[l].left
    BY <1>3 DEF LotKind, Charges, Lessened
  <2>2. QED
    BY <1>1, <1>3, <2>1 DEF LotKind, Lessened
<1>5. \A l \in DOMAIN taken : l \in LotIds /\ taken[l] \in Nat \ {0} /\ lots[l].left \in Nat
  BY <1>3 DEF Charges, LotKind
<1>6. IssueKinds'
  <2> SUFFICES ASSUME NEW i \in DOMAIN issues' PROVE IssueKind(issues[i])'
    BY DEF IssueKinds
  <2>1. CASE i \in DOMAIN issues
    <3>1. issues'[i] = issues[i] /\ IssueKind(issues[i])
      BY <1>1, <2>1 DEF BookKinds, IssueKinds
    <3>2. QED
      BY <3>1 DEF IssueKind, Lessened
  <2>2. CASE i \notin DOMAIN issues
    <3>1. issues'[i] = e
      BY <1>1, <2>2
    <3>2. QED
      BY <1>2, <1>5, <3>1 DEF IssueKind, Charges, Lessened
  <2>3. QED
    BY <2>1, <2>2
<1>7. LotsAccounted'
  <2> SUFFICES ASSUME NEW l \in LotIds PROVE lots'[l].left + TakenOf(l)' = lots'[l].qty
    BY DEF LotsAccounted, Ids, LotIds, Lessened
  <2>1. lots[l].left + TakenOf(l) = lots[l].qty /\ IssueKinds
    BY DEF Balanced, LotsAccounted, Ids, LotIds, BookKinds
  <2>2. TakenOf(l) \in Nat /\ lots[l].left \in Nat /\ (l \in DOMAIN taken => taken[l] \in Nat)
    BY <1>3, <1>5, <2>1, TakenBounds DEF LotKind
  <2>3. TakenOf(l)' = IF l \in DOMAIN taken THEN TakenOf(l) + taken[l] ELSE TakenOf(l)
    BY <1>1, <1>2, <2>1, <2>2, TakenAppend
  <2>4. lots'[l].qty = lots[l].qty /\ lots'[l].left = IF l \in DOMAIN taken THEN lots[l].left - taken[l] ELSE lots[l].left
    BY DEF Lessened
  <2>5. QED
    BY <2>1, <2>2, <2>3, <2>4
<1>8. IssuesCovered'
  BY <1>1, <1>2 DEF IssuesCovered, Balanced, Ids, Charges
<1>9. ReturnedOnce'
  <2>1. \A i \in DOMAIN issues' : Returning(i)' = Returning(i) /\ \A l \in Returning(i) : lots'[l].qty = lots[l].qty
    BY DEF Returning, Ids, LotIds, Lessened
  <2>2. Returning(new) = {}
    BY <1>1, <1>3, TablesNumbered DEF Returning, Ids, LotIds, new
  <2> SUFFICES ASSUME NEW i \in DOMAIN issues', Returning(i) # {} PROVE ReturnedOf(i)' = issues'[i].qty
    BY <2>1 DEF ReturnedOnce, ReturnedOf, Ids
  <2>3. i \in DOMAIN issues
    BY <1>1, <2>2
  <2>4. ReturnedOf(i)' = ReturnedOf(i)
    BY <2>1, ReturnedSame
  <2>5. QED
    BY <1>1, <2>3, <2>4 DEF Balanced, ReturnedOnce, ReturnedOf, Ids
<1>10. WithdrawnWhole'
  <2>1. ASSUME NEW i \in DOMAIN issues, issues[i].reverses # 0 PROVE issues[i].reverses \notin DOMAIN taken
    <3>1. lots[issues[i].reverses].left = 0
      BY <2>1, ReversedIsEmpty
    <3>2. QED
      BY <3>1 DEF Charges
  <2>2. ASSUME NEW j \in DOMAIN issues, reverses # 0 PROVE reverses \notin DOMAIN issues[j].taken
    <3>1. reverses \in LotIds /\ lots[reverses].qty \in Nat \ {0} /\ lots[reverses].qty <= lots[reverses].left
      BY <1>3, <2>2 DEF Charges, LotKind
    <3>2. lots[reverses].left + TakenOf(reverses) = lots[reverses].qty /\ lots[reverses].left \in Nat
      BY <1>3, <3>1 DEF Balanced, LotsAccounted, Ids, LotIds, LotKind
    <3>3. IssueKinds
      BY DEF BookKinds
    <3>4. TakenOf(reverses) = 0
      BY <3>1, <3>2, <3>3, TakenBounds
    <3>5. \A l \in DOMAIN issues[j].taken : issues[j].taken[l] \in Nat /\ issues[j].taken[l] > 0
      BY <3>3 DEF IssueKinds, IssueKind
    <3>6. \A i \in Takers(reverses) : issues[i].taken[reverses] <= 0
      BY <3>3, <3>4, TakenBounds
    <3>7. ASSUME reverses \in DOMAIN issues[j].taken PROVE FALSE
      <4>1. j \in Takers(reverses)
        BY <3>7 DEF Takers
      <4>2. QED
        BY <3>5, <3>6, <3>7, <4>1
    <3>8. QED
      BY <3>7
  <2>3. QED
    BY <1>1, <1>2, <2>1, <2>2 DEF WithdrawnWhole, Balanced, Ids
<1>11. QED
  BY <1>4, <1>6, <1>7, <1>8, <1>9, <1>10 DEF BookKinds, Balanced

\* allocate_fifo takes what was asked for of the lots it holds, which are as it read them.
LEMMA IssueBooks == ASSUME BooksInv, NEW p \in Procs, Issue(p) PROVE BooksInv'
<1> USE DEF BooksInv
<1> DEFINE have == tx[p].have
           qty == tx[p].qty
           taken == Allocated(have, qty)
<1>1. /\ tx[p].at = "locking" /\ End(p) /\ UNCHANGED material
      /\ \/ UNCHANGED <<lots, issues>>
         \/ /\ SumFunction(have) >= qty
            /\ lots' = Decremented(have, taken) /\ issues' = Issued(taken, qty, 0)
  BY DEF Issue
<1>2. StockInv' /\ LotIds' = LotIds
  BY IssueKeeps
<1>3. DOMAIN issues \subseteq DOMAIN issues'
  BY <1>1, TableAppend DEF StockInv, Tables, Issued
<1>4. SharedKinds' /\ \A o \in Procs : TxKind(tx[o])'
  BY <1>1, <1>2, <1>3, EndKinds DEF BookKinds, SharedKinds
<1>5. CASE UNCHANGED <<lots, issues>>
  BY <1>2, <1>4, <1>5, QuietBooks
<1>6. CASE ~UNCHANGED <<lots, issues>>
  <2>1. LockedAndCurrent(p) /\ TxKind(tx[p])
    BY <1>1 DEF StockInv, Decides, BookKinds
  <2>2. /\ DOMAIN have \subseteq LotIds /\ qty \in Nat
        /\ \A l \in DOMAIN have : have[l] = lots[l].left
    BY <1>1, <2>1 DEF LockedAndCurrent, TxKind
  <2>3. \A l \in LotIds : lots[l].left \in Nat /\ lots[l].created \in Nat
    BY DEF BookKinds, LotKinds, LotKind
  <2>4. IsFiniteSet(DOMAIN have) /\ Nats(have, DOMAIN have) /\ Dated(DOMAIN have)
    BY <2>2, <2>3, TablesNumbered, FS_Subset DEF Nats, Dated
  <2>5. /\ SumFunction(taken) = qty /\ DOMAIN taken \subseteq DOMAIN have
        /\ \A l \in DOMAIN taken : taken[l] \in 1..have[l]
    BY <1>1, <1>6, <2>2, <2>4, AllocatedCovers
  <2> HIDE DEF taken, have, qty
  <2>6. Charges(taken, qty, 0)
    BY <2>2, <2>5 DEF Charges
  <2>7. lots' = [l \in LotIds |-> IF l \in DOMAIN taken THEN [lots[l] EXCEPT !.left = have[l] - taken[l]] ELSE lots[l]]
    BY <1>1, <1>6 DEF Decremented, Ids, LotIds
  <2>8. Lessened(taken)
    <3> SUFFICES ASSUME NEW l \in LotIds
                 PROVE  /\ lots'[l].left = IF l \in DOMAIN taken THEN lots[l].left - taken[l] ELSE lots[l].left
                        /\ lots'[l].qty = lots[l].qty /\ lots'[l].price = lots[l].price /\ lots'[l].created = lots[l].created
                        /\ lots'[l].unit = lots[l].unit /\ lots'[l].reverses = lots[l].reverses
      BY <1>2 DEF Lessened
    <3>1. IsLot(lots[l])
      BY DEF StockInv, Tables
    <3>2. CASE l \in DOMAIN taken
      <4>1. lots'[l] = [lots[l] EXCEPT !.left = lots[l].left - taken[l]]
        BY <2>2, <2>5, <2>7, <3>2
      <4>2. QED
        BY <3>1, <3>2, <4>1 DEF IsLot, LotFields
    <3>3. CASE l \notin DOMAIN taken
      BY <2>7, <3>3
    <3>4. QED
      BY <3>2, <3>3
  <2>9. QED
    BY <1>1, <1>2, <1>4, <1>6, <2>6, <2>8, IssuedBooks
<1>7. QED
  BY <1>5, <1>6

\* _reverse_receipt takes a lot nothing was taken from, as a whole.
LEMMA LotReversalBooks == ASSUME BooksInv, NEW p \in Procs, ReverseLot(p) PROVE BooksInv'
<1> USE DEF BooksInv
<1> DEFINE l == tx[p].lot
           taken == [k \in {l} |-> lots[l].qty]
<1>1. /\ tx[p].at = "lockingLot" /\ End(p) /\ UNCHANGED material
      /\ \/ UNCHANGED <<lots, issues>>
         \/ /\ lots[l].left = lots[l].qty
            /\ lots' = [lots EXCEPT ![l].left = @ - lots[l].qty]
            /\ issues' = Issued(taken, lots[l].qty, l)
  BY DEF ReverseLot, Untouched
<1>2. StockInv' /\ LotIds' = LotIds
  BY LotReversalKeeps
<1>3. DOMAIN issues \subseteq DOMAIN issues'
  BY <1>1, TableAppend DEF StockInv, Tables, Issued
<1>4. SharedKinds' /\ \A o \in Procs : TxKind(tx[o])'
  BY <1>1, <1>2, <1>3, EndKinds DEF BookKinds, SharedKinds
<1>5. CASE UNCHANGED <<lots, issues>>
  BY <1>2, <1>4, <1>5, QuietBooks
<1>6. CASE ~UNCHANGED <<lots, issues>>
  <2>1. l \in LotIds /\ l \in Nat \ {0}
    BY <1>1, TablesNumbered DEF StockInv, Decides
  <2>2. lots[l].qty \in Nat \ {0}
    BY <2>1 DEF BookKinds, LotKinds, LotKind
  <2>3. DOMAIN taken = {l} /\ taken[l] = lots[l].qty
    OBVIOUS
  <2> HIDE DEF taken, l
  <2>4. SumFunction(taken) = lots[l].qty
    <3>1. Ints(taken, {l}) /\ IsFiniteSet({l}) /\ {l} \ {l} = {}
      BY <2>2, <2>3, FS_Singleton DEF Ints
    <3>2. SumFunctionOnSet(taken, {l}) = taken[l] + SumFunctionOnSet(taken, {})
      BY <3>1, SumStep
    <3>3. QED
      BY <2>2, <2>3, <3>2, SumEmpty DEF SumFunction
  <2>5. Charges(taken, lots[l].qty, l)
    BY <1>1, <1>6, <2>1, <2>2, <2>3, <2>4 DEF Charges
  <2>6. Lessened(taken)
    <3> SUFFICES ASSUME NEW k \in LotIds
                 PROVE  /\ lots'[k].left = IF k \in DOMAIN taken THEN lots[k].left - taken[k] ELSE lots[k].left
                        /\ lots'[k].qty = lots[k].qty /\ lots'[k].price = lots[k].price /\ lots'[k].created = lots[k].created
                        /\ lots'[k].unit = lots[k].unit /\ lots'[k].reverses = lots[k].reverses
      BY <1>2 DEF Lessened
    <3>1. IsLot(lots[k]) /\ lots = [j \in LotIds |-> lots[j]]
      BY LenProperties DEF StockInv, Tables, IsTable, LotIds
    <3>2. CASE k = l
      <4>1. lots'[k] = [lots[k] EXCEPT !.left = lots[k].left - lots[k].qty]
        BY <1>1, <1>6, <2>1, <3>1, <3>2 DEF LotIds
      <4>2. QED
        BY <2>3, <3>1, <3>2, <4>1 DEF IsLot, LotFields
    <3>3. CASE k # l
      <4>1. lots'[k] = lots[k]
        BY <1>1, <1>6, <3>1, <3>3
      <4>2. QED
        BY <2>3, <3>3, <4>1
    <3>4. QED
      BY <3>2, <3>3
  <2>7. QED
    BY <1>1, <1>2, <1>4, <1>6, <2>5, <2>6, IssuedBooks
<1>7. QED
  BY <1>5, <1>6

-----------------------------------------------------------------------------
\* A transaction that begins.
LEMMA BeginBooks ==
    ASSUME LedgerAssumption, BooksInv, StockInv', NEW p \in Procs, NEW t, Begin(p, t), TxKind(t)
    PROVE  BooksInv'
<1> USE DEF BooksInv
<1>1. /\ tx' = [tx EXCEPT ![p] = t] /\ DOMAIN tx = Procs /\ work' = work + 1 /\ work < MaxWork
      /\ UNCHANGED <<lots, issues, material, lotLock, issueLock>>
  BY DEF Begin, StockInv
<1>2. \A o \in Procs : TxKind(tx[o])
  BY DEF BookKinds
<1>3. \A o \in Procs : tx'[o] = t \/ tx'[o] = tx[o]
  BY <1>1
<1>4. \A o \in Procs : TxKind(tx'[o])
  BY <1>2, <1>3, Zenon
<1>5. SharedKinds'
  BY <1>1 DEF LedgerAssumption, BookKinds, SharedKinds, LotIds
<1>6. QED
  BY <1>1, <1>4, <1>5, QuietBooks DEF TxKind, LotKind

LEMMA BeginsBooks ==
    ASSUME LedgerAssumption, BooksInv, NEW p \in Procs,
           \/ \E qty \in Quantities : BeginIssue(p, qty) \/ \E price \in Prices : BeginReceipt(p, qty, price)
           \/ \E i \in DOMAIN issues : BeginReverseIssue(p, i)
           \/ \E l \in LotIds : BeginReverseLot(p, l)
           \/ \E u \in Units : BeginUnit(p, u)
    PROVE  BooksInv'
<1> USE DEF BooksInv
<1>1. StockInv'
  BY BeginsKeep
<1>2. work \in Nat /\ material.unit \in Units
  BY DEF LedgerAssumption, BookKinds, SharedKinds
<1>3. ASSUME NEW qty \in Quantities, BeginIssue(p, qty) PROVE BooksInv'
  <2> DEFINE t == [at |-> "locking", qty |-> qty, todo |-> {l \in LotIds : lots[l].left > 0}, have |-> <<>>]
  <2>1. Begin(p, t)
    BY <1>3 DEF BeginIssue, Ids, LotIds
  <2>2. TxKind(t)
    BY DEF TxKind, LedgerAssumption
  <2>3. QED
    BY <1>1, <2>1, <2>2, BeginBooks
<1>4. ASSUME NEW qty \in Quantities, NEW price \in Prices, BeginReceipt(p, qty, price) PROVE BooksInv'
  <2> DEFINE t == [at |-> "receiving", lot |-> Lot(qty, price, work, material.unit, 0)]
  <2>1. Begin(p, t)
    BY <1>4 DEF BeginReceipt
  <2>2. TxKind(t)
    BY <1>2, LotFacts DEF TxKind, LedgerAssumption, LotKind
  <2>3. QED
    BY <1>1, <2>1, <2>2, BeginBooks
<1>5. ASSUME NEW i \in DOMAIN issues, BeginReverseIssue(p, i) PROVE BooksInv'
  <2> DEFINE t == [at |-> "lockingIssue", issue |-> i, created |-> work]
  <2>1. Begin(p, t) /\ TxKind(t)
    BY <1>2, <1>5 DEF BeginReverseIssue, TxKind
  <2>2. QED
    BY <1>1, <2>1, BeginBooks
<1>6. ASSUME NEW l \in LotIds, BeginReverseLot(p, l) PROVE BooksInv'
  <2> DEFINE t == [at |-> "lockingLot", lot |-> l]
  <2>1. Begin(p, t) /\ TxKind(t)
    BY <1>6 DEF BeginReverseLot, TxKind
  <2>2. QED
    BY <1>1, <2>1, BeginBooks
<1>7. ASSUME NEW u \in Units, BeginUnit(p, u) PROVE BooksInv'
  <2> DEFINE t == [at |-> "unit", unit |-> u]
  <2>1. Begin(p, t) /\ TxKind(t)
    BY <1>7 DEF BeginUnit, TxKind
  <2>2. QED
    BY <1>1, <2>1, BeginBooks
<1>8. QED
  BY <1>3, <1>4, <1>5, <1>6, <1>7

\* A lock, and what is read under it.
LEMMA LockLotBooks == ASSUME BooksInv, NEW p \in Procs, NEW l \in LotIds, LockLot(p, l) PROVE BooksInv'
<1> USE DEF BooksInv
<1> DEFINE have == IF lots[l].left > 0 THEN Having(tx[p].have, l) ELSE tx[p].have
<1>1. StockInv'
  BY LockLotKeeps
<1>2. /\ UNCHANGED <<lots, issues, material, issueLock, work>> /\ lotLock' = lotLock \cup {<<p, l>>}
      /\ tx[p].at = "locking" /\ DOMAIN tx = Procs
      /\ tx' = [tx EXCEPT ![p].todo = @ \ {l}, ![p].have = have]
  BY DEF LockLot, StockInv
<1>3. Issuing(tx[p]) /\ TxKind(tx[p])
  BY <1>2 DEF StockInv, Decides, BookKinds
<1>4. \A k \in DOMAIN have : have[k] > 0
  BY <1>2, <1>3 DEF Having, TxKind
<1> HIDE DEF have
<1>5. tx'[p].at = "locking" /\ tx'[p].qty = tx[p].qty /\ tx'[p].have = have
  BY <1>2, <1>3 DEF Issuing
<1>6. TxKind(tx'[p])
  BY <1>2, <1>3, <1>4, <1>5 DEF TxKind
<1>7. \A o \in Procs \ {p} : tx'[o] = tx[o]
  BY <1>2
<1>8. \A o \in Procs : TxKind(tx[o])'
  <2>1. \A o \in Procs : TxKind(tx'[o])
    BY <1>6, <1>7, Zenon DEF BookKinds
  <2>2. QED
    BY <2>1 DEF TxKind, LotKind
<1>9. SharedKinds'
  BY <1>2 DEF BookKinds, SharedKinds, LotIds
<1>10. QED
  BY <1>1, <1>2, <1>8, <1>9, QuietBooks

LEMMA LockIssueBooks == ASSUME BooksInv, NEW p \in Procs, LockIssue(p) PROVE BooksInv'
<1> USE DEF BooksInv
<1> DEFINE i == tx[p].issue
           t == [at |-> "reversing", issue |-> i, created |-> tx[p].created,
                 done |-> \E l \in LotIds : lots[l].reverses = i]
<1>1. StockInv'
  BY LockIssueKeeps
<1>2. /\ UNCHANGED <<lots, issues, material, lotLock, work>> /\ issueLock' = issueLock \cup {<<p, i>>}
      /\ tx[p].at = "lockingIssue" /\ DOMAIN tx = Procs /\ i \in DOMAIN issues
      /\ tx' = [tx EXCEPT ![p] = t]
  BY DEF LockIssue, StockInv, Decides, Ids, LotIds
<1>3. TxKind(t)
  BY <1>2 DEF BookKinds, TxKind
<1> HIDE DEF t
<1>4. \A o \in Procs : tx'[o] = t \/ tx'[o] = tx[o]
  BY <1>2
<1>5. \A o \in Procs : TxKind(tx[o])'
  <2>1. \A o \in Procs : TxKind(tx'[o])
    BY <1>3, <1>4, Zenon DEF BookKinds
  <2>2. QED
    BY <2>1 DEF TxKind, LotKind
<1>6. SharedKinds'
  BY <1>2 DEF BookKinds, SharedKinds, LotIds
<1>7. QED
  BY <1>1, <1>2, <1>5, <1>6, QuietBooks

\* The unit of the card changes with a transaction, its activity at any time.
LEMMA CardBooks == ASSUME BooksInv, NEW p \in Procs, ChangeUnit(p) \/ Rollback(p) PROVE BooksInv'
<1> USE DEF BooksInv
<1>1. StockInv' /\ UNCHANGED <<lots, issues>> /\ End(p)
  BY QuietEndKeeps DEF ChangeUnit, Rollback
<1>2. material' \in [unit : Units, active : BOOLEAN]
  BY DEF ChangeUnit, Rollback, BookKinds, SharedKinds, TxKind
<1>3. SharedKinds' /\ \A o \in Procs : TxKind(tx[o])'
  BY <1>1, <1>2, EndKinds DEF LotIds
<1>4. QED
  BY <1>1, <1>3, QuietBooks

LEMMA ActiveBooks == ASSUME LedgerAssumption, BooksInv, SetActive \/ UNCHANGED stockVars PROVE BooksInv'
<1> USE DEF BooksInv
<1>1. UNCHANGED <<lots, issues, lotLock, issueLock, tx>>
  BY DEF SetActive, stockVars
<1>2. StockInv'
  BY <1>1, UnchangedKeeps
<1>3. SharedKinds'
  <2>1. material \in [unit : Units, active : BOOLEAN] /\ work \in 0..MaxWork /\ MaxWork \in Nat
    BY DEF BookKinds, SharedKinds, LedgerAssumption
  <2>2. material' \in [unit : Units, active : BOOLEAN]
    <3>1. CASE SetActive
      <4> DEFINE a == ~material.active
      <4>1. material.unit \in Units
        BY <2>1
      <4>2. a \in BOOLEAN
        BY Zenon
      <4>3. material' = [unit |-> material.unit, active |-> a]
        BY <2>1, <3>1 DEF SetActive
      <4> HIDE DEF a
      <4>4. QED
        BY <4>1, <4>2, <4>3
    <3>2. CASE UNCHANGED stockVars
      BY <2>1, <3>2 DEF stockVars
    <3>3. QED
      BY <3>1, <3>2
  <2>3. work' \in 0..MaxWork
    <3>1. CASE SetActive
      BY <2>1, <3>1 DEF SetActive
    <3>2. CASE UNCHANGED stockVars
      BY <2>1, <3>2 DEF stockVars
    <3>3. QED
      BY <3>1, <3>2
  <2>4. /\ lotLock' \subseteq Procs \X LotIds'
        /\ issueLock' \subseteq Procs \X DOMAIN issues'
    BY <1>1 DEF BookKinds, SharedKinds, LotIds
  <2>5. QED
    BY <2>2, <2>3, <2>4 DEF SharedKinds
<1>4. \A o \in Procs : TxKind(tx[o])'
  BY <1>1 DEF BookKinds, TxKind, LotKind
<1>5. QED
  BY <1>1, <1>2, <1>3, <1>4, QuietBooks

LEMMA BooksInit == LedgerAssumption /\ StockInit => BooksInv
<1> SUFFICES ASSUME LedgerAssumption, StockInit PROVE BooksInv
    OBVIOUS
<1>1. StockInv
  BY StockInvInit
<1>2. /\ lots = <<>> /\ issues = <<>> /\ material \in [unit : Units, active : {TRUE}]
      /\ lotLock = {} /\ issueLock = {} /\ work = 0 /\ tx = [p \in Procs |-> NoTransaction]
  BY DEF StockInit
<1>3. LotIds = {} /\ DOMAIN issues = {} /\ Ids(lots) = {} /\ Ids(issues) = {}
  BY <1>2 DEF LotIds, Ids
<1>4. BookKinds
  <2>1. LotKinds /\ IssueKinds
    BY <1>3 DEF LotKinds, IssueKinds
  <2>2. SharedKinds
    <3>1. material \in [unit : Units, active : BOOLEAN]
      BY <1>2
    <3>2. work \in 0..MaxWork
      BY <1>2 DEF LedgerAssumption
    <3>3. QED
      BY <1>2, <3>1, <3>2 DEF SharedKinds
  <2>3. TxKind(NoTransaction)
    BY DEF TxKind, NoTransaction
  <2>4. \A p \in Procs : TxKind(tx[p])
    BY <1>2, <2>3
  <2>5. QED
    BY <2>1, <2>2, <2>4 DEF BookKinds
<1>5. Balanced
  BY <1>3 DEF Balanced, LotsAccounted, IssuesCovered, ReturnedOnce, WithdrawnWhole
<1>6. QED
  BY <1>1, <1>4, <1>5 DEF BooksInv

LEMMA BooksStep == LedgerAssumption /\ BooksInv /\ [StockNext]_stockVars => BooksInv'
<1> SUFFICES ASSUME LedgerAssumption, BooksInv, [StockNext]_stockVars PROVE BooksInv'
    OBVIOUS
<1>1. ASSUME NEW p \in Procs, Receive(p) PROVE BooksInv'
  BY <1>1, ReceiptBooks
<1>2. ASSUME NEW p \in Procs, Issue(p) PROVE BooksInv'
  BY <1>2, IssueBooks
<1>3. ASSUME NEW p \in Procs, ReverseIssue(p) PROVE BooksInv'
  BY <1>3, IssueReversalBooks
<1>4. ASSUME NEW p \in Procs, ReverseLot(p) PROVE BooksInv'
  BY <1>4, LotReversalBooks
<1>5. ASSUME NEW p \in Procs, LockIssue(p) PROVE BooksInv'
  BY <1>5, LockIssueBooks
<1>6. ASSUME NEW p \in Procs, NEW l \in LotIds, LockLot(p, l) PROVE BooksInv'
  BY <1>6, LockLotBooks
<1>7. ASSUME NEW p \in Procs, ChangeUnit(p) \/ Rollback(p) PROVE BooksInv'
  BY <1>7, CardBooks
<1>8. ASSUME NEW p \in Procs,
             \/ \E qty \in Quantities : BeginIssue(p, qty) \/ \E price \in Prices : BeginReceipt(p, qty, price)
             \/ \E i \in DOMAIN issues : BeginReverseIssue(p, i)
             \/ \E l \in LotIds : BeginReverseLot(p, l)
             \/ \E u \in Units : BeginUnit(p, u)
      PROVE BooksInv'
  BY <1>8, BeginsBooks
<1>9. CASE SetActive \/ UNCHANGED stockVars
  BY <1>9, ActiveBooks
<1>10. CASE StockNext
  BY <1>1, <1>2, <1>3, <1>4, <1>5, <1>6, <1>7, <1>8, <1>9, <1>10 DEF StockNext, Progress, Ids, LotIds
<1>11. QED
  BY <1>9, <1>10

\* allocate_fifo, _decrement_batches, _reverse_issue, _reverse_receipt: for any number of
\* transactions, however they overlap, what is left of a lot is what was received minus
\* what issues took of it, an issue takes what it was asked for, and what is reversed is
\* reversed as a whole and once.
THEOREM StockBalanced == LedgerAssumption => (StockSpec => []Balanced)
<1> SUFFICES ASSUME LedgerAssumption PROVE StockSpec => []Balanced
    OBVIOUS
<1>1. StockInit => BooksInv
  BY BooksInit
<1>2. BooksInv /\ [StockNext]_stockVars => BooksInv'
  BY BooksStep
<1>3. BooksInv => Balanced
  BY DEF BooksInv
<1>4. QED
  BY <1>1, <1>2, <1>3, PTL DEF StockSpec

\* No lot falls below nothing or rises above what was received (_decrement_batches), and
\* lots, issues and locks refer to rows that are there.
THEOREM StockTypeCorrect == LedgerAssumption => (StockSpec => []StockTypeOK)
<1> SUFFICES ASSUME LedgerAssumption PROVE StockSpec => []StockTypeOK
    OBVIOUS
<1>1. StockInit => BooksInv
  BY BooksInit
<1>2. BooksInv /\ [StockNext]_stockVars => BooksInv'
  BY BooksStep
<1>3. BooksInv => StockTypeOK
  <2> SUFFICES ASSUME BooksInv PROVE StockTypeOK
      OBVIOUS
  <2>1. \A l \in Ids(lots) : /\ lots[l].left \in 0..lots[l].qty /\ lots[l].qty > 0
                             /\ lots[l].price \in Prices /\ lots[l].unit \in Units
                             /\ lots[l].reverses \in Ids(issues) \cup {0}
    BY DEF BooksInv, BookKinds, LotKinds, LotKind, Ids, LotIds
  <2>2. \A i \in Ids(issues) : /\ DOMAIN issues[i].taken \subseteq Ids(lots)
                               /\ issues[i].reverses \in Ids(lots) \cup {0}
    BY DEF BooksInv, StockInv, Tables, BookKinds, IssueKinds, IssueKind, Ids, LotIds
  <2>3. QED
    BY <2>1, <2>2 DEF StockTypeOK, BooksInv, BookKinds, SharedKinds, Ids, LotIds
<1>4. QED
  BY <1>1, <1>2, <1>3, PTL DEF StockSpec

-----------------------------------------------------------------------------
\* What an issue leaves of an older lot that it has read, when it takes from a younger one.
OldestFirst ==
    \A p \in Procs :
        tx[p].at = "locking" /\ tx'[p].at = "idle" =>
            \A l, k \in DOMAIN tx[p].have :
                Older(l, k) /\ lots'[k].left < lots[k].left => lots'[l].left = 0

\* Who takes from a lot takes all of the older ones.
LEMMA OlderUsedUp ==
    ASSUME NEW have, IsFiniteSet(DOMAIN have), Nats(have, DOMAIN have), Dated(DOMAIN have), NEW qty \in Nat,
           NEW l \in DOMAIN have, NEW k \in DOMAIN have, Older(l, k), Takes(have, qty, k) > 0
    PROVE  Takes(have, qty, l) = have[l]
<1> DEFINE D == DOMAIN have
           E == {j \in D : Older(j, l)}
           F == {j \in D : Older(j, k)}
           Sum(S) == SumFunctionOnSet(have, S)
<1>1. /\ \A j \in D : j \in Nat /\ lots[j].created \in Nat /\ have[j] \in Nat
      /\ l \notin E /\ E \cup {l} \subseteq F
  BY DEF Dated, Nats, Older
<1>2. \A S \in SUBSET D : IsFiniteSet(S) /\ Nats(have, S) /\ Ints(have, S) /\ Sum(S) \in Nat
  BY FS_Subset, SumNat DEF Nats, Ints
<1>3. Sum(E \cup {l}) = have[l] + Sum(E)
  BY <1>1, <1>2, SumAdd
<1>4. Sum(F) = Sum(E \cup {l}) + Sum(F \ (E \cup {l}))
  <2> DEFINE S == E \cup {l}
             T == F \ S
  <2>1. F = S \cup T /\ S \cap T = {} /\ S \in SUBSET D /\ T \in SUBSET D
    BY <1>1
  <2>2. IsFiniteSet(S) /\ IsFiniteSet(T) /\ Ints(have, S \cup T)
    BY <1>2, <2>1
  <2>3. SumFunctionOnSet(have, S \cup T) = SumFunctionOnSet(have, S) + SumFunctionOnSet(have, T)
    <3> HIDE DEF S, T
    <3>1. QED
      BY <2>1, <2>2, SumUnion
  <2>4. QED
    BY <2>1, <2>3
<1>5. Sum(F) < qty
  BY <1>2 DEF Takes
<1>6. /\ Sum(E) \in Nat /\ Sum(F) \in Nat /\ Sum(F \ (E \cup {l})) \in Nat
      /\ have[l] \in Nat
  BY <1>1, <1>2
<1> DEFINE e == Sum(E)
<1>7. Takes(have, qty, l) = IF e >= qty THEN 0 ELSE Min({have[l], qty - e})
  BY DEF Takes
<1>8. e \in Nat /\ e + have[l] < qty
  BY <1>3, <1>4, <1>5, <1>6
<1> HIDE DEF e, Sum, E, F
<1>9. qty - e \in Int /\ have[l] \in Int /\ have[l] <= qty - e
  BY <1>6, <1>8
<1>10. QED
  BY <1>6, <1>7, <1>8, <1>9, MinOfTwo

LEMMA IssueTakesOldest ==
    ASSUME BooksInv, NEW p \in Procs, Issue(p), NEW l \in DOMAIN tx[p].have, NEW k \in DOMAIN tx[p].have,
           Older(l, k), lots'[k].left < lots[k].left
    PROVE  lots'[l].left = 0
<1> USE DEF BooksInv
<1> DEFINE have == tx[p].have
           qty == tx[p].qty
           taken == Allocated(have, qty)
<1>1. LockedAndCurrent(p) /\ TxKind(tx[p]) /\ tx[p].at = "locking"
  BY DEF Issue, StockInv, Decides, BookKinds
<1>2. /\ DOMAIN have \subseteq LotIds /\ qty \in Nat
      /\ \A j \in DOMAIN have : have[j] = lots[j].left
  BY <1>1 DEF LockedAndCurrent, TxKind
<1>3. \A j \in LotIds : IsLot(lots[j]) /\ lots[j].left \in Nat /\ lots[j].created \in Nat
  BY DEF BookKinds, LotKinds, LotKind, StockInv, Tables
<1>4. IsFiniteSet(DOMAIN have) /\ Nats(have, DOMAIN have) /\ Dated(DOMAIN have)
  <2>1. IsFiniteSet(LotIds) /\ LotIds \subseteq Nat
    BY TablesNumbered
  <2>2. QED
    BY <1>2, <1>3, <2>1, FS_Subset DEF Nats, Dated
<1>5. lots' = Decremented(have, taken)
  BY <1>2, <1>3 DEF Issue
<1>6. \A j \in DOMAIN have : Takes(have, qty, j) \in 0..have[j]
  BY <1>2, <1>4, TakesBounds
<1>7. /\ DOMAIN taken = {j \in DOMAIN have : Takes(have, qty, j) > 0}
      /\ \A j \in DOMAIN taken : taken[j] = Takes(have, qty, j)
  BY DEF Allocated
<1> HIDE DEF taken, have, qty
<1>8. \A j \in DOMAIN have : lots'[j].left = have[j] - Takes(have, qty, j)
  <2> SUFFICES ASSUME NEW j \in DOMAIN have PROVE lots'[j].left = have[j] - Takes(have, qty, j)
    OBVIOUS
  <2>1. CASE j \in DOMAIN taken
    <3>1. lots'[j] = [lots[j] EXCEPT !.left = have[j] - taken[j]]
      BY <1>2, <1>5, <2>1 DEF Decremented, Ids, LotIds
    <3>2. QED
      BY <1>2, <1>3, <1>7, <2>1, <3>1 DEF IsLot, LotFields
  <2>2. CASE j \notin DOMAIN taken
    <3>1. lots'[j] = lots[j]
      BY <1>2, <1>5, <2>2 DEF Decremented, Ids, LotIds
    <3>2. Takes(have, qty, j) = 0
      BY <1>2, <1>3, <1>6, <1>7, <2>2
    <3>3. QED
      BY <1>2, <1>3, <3>1, <3>2
  <2>3. QED
    BY <2>1, <2>2
<1>9. l \in DOMAIN have /\ k \in DOMAIN have
  BY DEF have
<1>10. Takes(have, qty, k) > 0
  BY <1>2, <1>3, <1>6, <1>8, <1>9
<1>11. Takes(have, qty, l) = have[l]
  BY <1>2, <1>4, <1>9, <1>10, OlderUsedUp
<1>12. QED
  BY <1>2, <1>3, <1>8, <1>9, <1>11

\* Only its own issue or its failure ends a transaction that is locking lots.
LEMMA LockingEnds ==
    ASSUME StockInv, StockNext, NEW p \in Procs, tx[p].at = "locking", tx'[p].at = "idle"
    PROVE  Issue(p) \/ Rollback(p)
<1>1. DOMAIN tx = Procs /\ Issuing(tx[p])
  BY DEF StockInv, Decides
<1>2. ASSUME NEW o \in Procs, Progress(o) PROVE Issue(p)
  <2>1. CASE o = p
    <3>1. ASSUME NEW l \in Ids(lots), LockLot(p, l) PROVE FALSE
      BY <1>1, <3>1 DEF LockLot, Issuing
    <3>2. QED
      BY <1>2, <2>1, <3>1 DEF Progress, Receive, LockIssue, ReverseIssue, ReverseLot, ChangeUnit
  <2>2. CASE o # p
    <3>1. tx'[p] = tx[p]
      BY <1>1, <1>2, <2>2 DEF Progress, Receive, Issue, LockIssue, ReverseIssue, ReverseLot, ChangeUnit, LockLot, End
    <3>2. QED
      BY <3>1
  <2>3. QED
    BY <2>1, <2>2
<1>3. ASSUME NEW o \in Procs, Rollback(o) PROVE Rollback(p)
  BY <1>1, <1>3 DEF Rollback, End
<1>4. ASSUME NEW o \in Procs, NEW t, Begin(o, t) PROVE FALSE
  BY <1>1, <1>4 DEF Begin
<1>5. CASE SetActive
  BY <1>5 DEF SetActive
<1>6. QED
  BY <1>2, <1>3, <1>4, <1>5
  DEF StockNext, BeginIssue, BeginReceipt, BeginReverseIssue, BeginReverseLot, BeginUnit

\* allocate_fifo: lots are used up in the order of their creation.  An issue that takes
\* anything of a lot leaves nothing of the older ones it has read, whatever the other
\* transactions did to them before it had the locks.
THEOREM IssuesOldestFirst == LedgerAssumption => (StockSpec => [][OldestFirst]_stockVars)
<1> SUFFICES ASSUME LedgerAssumption PROVE StockSpec => [][OldestFirst]_stockVars
    OBVIOUS
<1>1. StockInit => BooksInv
  BY BooksInit
<1>2. BooksInv /\ [StockNext]_stockVars => BooksInv'
  BY BooksStep
<1>3. BooksInv /\ [StockNext]_stockVars => [OldestFirst]_stockVars
  <2> SUFFICES ASSUME BooksInv, StockNext, NEW p \in Procs, tx[p].at = "locking", tx'[p].at = "idle",
                      NEW l \in DOMAIN tx[p].have, NEW k \in DOMAIN tx[p].have,
                      Older(l, k), lots'[k].left < lots[k].left
               PROVE  lots'[l].left = 0
    BY DEF OldestFirst
  <2>1. Issue(p) \/ Rollback(p)
    BY LockingEnds DEF BooksInv
  <2>2. CASE Rollback(p)
    <3>1. k \in LotIds
      BY DEF BooksInv, StockInv, Decides, LockedAndCurrent
    <3>2. lots[k].left \in Nat
      BY <3>1 DEF BooksInv, BookKinds, LotKinds, LotKind
    <3>3. UNCHANGED lots
      BY <2>2 DEF Rollback
    <3>4. QED
      BY <3>2, <3>3
  <2>3. CASE Issue(p)
    BY <2>3, IssueTakesOldest
  <2>4. QED
    BY <2>1, <2>2, <2>3
<1>4. QED
  BY <1>1, <1>2, <1>3, PTL DEF StockSpec

=============================================================================
