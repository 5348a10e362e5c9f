---------------------------- MODULE RecordProofs -----------------------------
(***************************************************************************)
(* Proofs about ChangeCapture, for any records, tables of a later          *)
(* migration, depth of the operations and length of the log, and about     *)
(* RowReplication, for any nodes, writers, values, items, blocks and       *)
(* clones.                                                                 *)
(*                                                                         *)
(* A history is FoldLeft over the log, so what it becomes is told by the   *)
(* run of its steps (FoldExists, FoldSteps).  The invariant (Accounts)     *)
(* says, now and at every savepoint, that the log makes of the history     *)
(* what the local changes left, and that its last entry of a record is the *)
(* record as it is: a failed operation then puts back a state of which the *)
(* same holds, and the outermost one closes the account.                   *)
(*                                                                         *)
(* The row of a node that only receives it is told by the set of the       *)
(* blocks applied there: its array has their items, in whatever order they *)
(* came (Arrays); its plain field is that of the first of them that has    *)
(* one, when they come in the order of their making, which one writer, no  *)
(* gap and no preset row make sure of (Plains, Told).                      *)
(***************************************************************************)
EXTENDS ChangeCapture, RowReplication, SequenceTheorems, FiniteSetTheorems, Extrema, TLAPS

\* The steps of a run of n steps over V.
StepsOver(n, V) == [1..n -> [V -> V]]

\* A run of n steps exists.
LEMMA RunExists ==
  ASSUME NEW n \in Nat, NEW V, NEW b \in V, NEW step \in [1..n -> [V -> V]]
  PROVE  \E f \in [0..n -> V] : f[0] = b /\ \A i \in 1..n : f[i] = step[i][f[i - 1]]
<1> DEFINE Run(k, f) == f[0] = b /\ \A i \in 1..k : f[i] = step[i][f[i - 1]]
           S == {k \in 0..n : \E f \in [0..k -> V] : Run(k, f)}
<1>1. 0 \in S
  <2> DEFINE f == [i \in 0..0 |-> b]
  <2>1. f \in [0..0 -> V] /\ f[0] = b /\ \A i \in 1..0 : f[i] = step[i][f[i - 1]]
    OBVIOUS
  <2> HIDE DEF f
  <2>2. \E g \in [0..0 -> V] : Run(0, g)
    BY <2>1
  <2>3. 0 \in 0..n
    OBVIOUS
  <2> QED BY <2>2, <2>3
<1>2. ASSUME NEW k \in 0..n, k # n, k \in S PROVE k + 1 \in S
  <2>1. PICK f \in [0..k -> V] : Run(k, f)
    BY <1>2
  <2> DEFINE g == [i \in 0..(k + 1) |-> IF i = k + 1 THEN step[k + 1][f[k]] ELSE f[i]]
  <2>2. k \in 0..k /\ k + 1 \in 1..n
    BY <1>2
  <2>3. step[k + 1][f[k]] \in V
    BY <2>2
  <2>4. g \in [0..(k + 1) -> V]
    BY <2>3
  <2>5. Run(k + 1, g)
    <3>1. g[0] = b
      BY <2>1
    <3>2. ASSUME NEW i \in 1..(k + 1) PROVE g[i] = step[i][g[i - 1]]
      <4>1. CASE i = k + 1
        BY <4>1, <2>2
      <4>2. CASE i # k + 1
        <5>1. i \in 1..k /\ i - 1 \in 0..k
          BY <4>2
        <5>2. g[i] = f[i] /\ g[i - 1] = f[i - 1]
          BY <5>1
        <5> QED BY <2>1, <5>1, <5>2
      <4> QED BY <4>1, <4>2
    <3> QED BY <3>1, <3>2
  <2>6. k + 1 \in 0..n
    BY <2>2
  <2> HIDE DEF g
  <2> QED BY <2>4, <2>5, <2>6
<1> HIDE DEF S
<1>3. 0 \in 0..n /\ n \in 0..n
  OBVIOUS
<1>4. n \in S
  BY <1>1, <1>2, <1>3, IntervalInduction
<1> QED BY <1>4 DEF S

\* f is a run of n steps over V that begins with b.
RunsOver(f, n, V, b, step) ==
  f \in [0..n -> V] /\ f[0] = b /\ \A i \in 1..n : f[i] = step[i][f[i - 1]]

\* it is, over the sets of the first n positions, the recursion that FoldLeft
\* evaluates.
FoldsOver(it, n, V, b, step) ==
  /\ it \in [SUBSET (1..n) -> V]
  /\ \A t \in SUBSET (1..n) : it[t] = IF t = {} THEN b ELSE step[Max(t)][it[t \ {Max(t)}]]

\* The recursion that FoldLeft evaluates, over the sets of positions, has a
\* solution: of a set it is the run that takes the steps of that set only.
LEMMA FoldExists ==
  ASSUME NEW n \in Nat, NEW V, NEW b \in V, NEW step \in StepsOver(n, V)
  PROVE  \E it : FoldsOver(it, n, V, b, step)
<1> USE DEF StepsOver
<1>0. \A st \in [1..n -> [V -> V]] :
        \E f \in [0..n -> V] : f[0] = b /\ \A i \in 1..n : f[i] = st[i][f[i - 1]]
  BY RunExists
<1> DEFINE Run(t, f) == f[0] = b /\ \A i \in 1..n : f[i] = IF i \in t THEN step[i][f[i - 1]]
                                                         ELSE f[i - 1]
           F == [t \in SUBSET (1..n) |-> CHOOSE f \in [0..n -> V] : Run(t, f)]
           it == [t \in SUBSET (1..n) |-> F[t][n]]
<1>1. ASSUME NEW t \in SUBSET (1..n) PROVE F[t] \in [0..n -> V] /\ Run(t, F[t])
  <2> DEFINE only == [i \in 1..n |-> IF i \in t THEN step[i] ELSE [x \in V |-> x]]
  <2>1. only \in [1..n -> [V -> V]]
    OBVIOUS
  <2>2. \A i \in 1..n, x \in V : only[i][x] = IF i \in t THEN step[i][x] ELSE x
    OBVIOUS
  <2> HIDE DEF only
  <2>3. PICK f \in [0..n -> V] : f[0] = b /\ \A i \in 1..n : f[i] = only[i][f[i - 1]]
    <3> HIDE DEF Run, F, it
    <3> QED BY ONLY <1>0, <2>1
  <2>4. \A i \in 1..n : f[i - 1] \in V
    OBVIOUS
  <2>5. Run(t, f)
    BY <2>2, <2>3, <2>4
  <2>6. \E g \in [0..n -> V] : Run(t, g)
    BY <2>5
  <2> HIDE DEF Run
  <2> QED BY <2>6
<1> HIDE DEF F
<1>2. it \in [SUBSET (1..n) -> V]
  BY <1>1
<1>3. ASSUME NEW t \in SUBSET (1..n), t = {} PROVE it[t] = b
  <2> DEFINE S == {i \in 0..n : F[t][i] = b}
  <2>1. 0 \in S
    BY <1>1
  <2>2. ASSUME NEW i \in 0..n, i # n, i \in S PROVE i + 1 \in S
    <3>1. i + 1 \in 1..n /\ i + 1 \notin t /\ i + 1 - 1 = i
      BY <1>3, <2>2
    <3>2. F[t][i + 1] = F[t][i]
      BY <1>1, <3>1
    <3> QED BY <2>2, <3>1, <3>2
  <2>4. 0 \in Nat /\ n \in 0..n
    OBVIOUS
  <2> HIDE DEF S
  <2>3. n \in S
    BY <2>1, <2>2, <2>4, IntervalInduction
  <2> QED BY <2>3 DEF S
<1>4. ASSUME NEW t \in SUBSET (1..n), t # {}
      PROVE  it[t] = step[Max(t)][it[t \ {Max(t)}]]
  <2> DEFINE m == Max(t)
             u == t \ {m}
  <2>1. m \in t /\ \A i \in t : i <= m
    <3>1. PICK x \in t : \A i \in t : i <= x
      BY <1>4, MaxExists
    <3>2. \A i \in t : x >= i
      BY <3>1
    <3>3. m \in t /\ \A i \in t : m >= i
      BY <3>2 DEF Max
    <3> HIDE DEF m
    <3> QED BY <3>3
  <2>2. u \in SUBSET (1..n) /\ m \in 1..n
    BY <2>1
  <2> HIDE DEF m
  <2>3. \A i \in 1..n : i < m => (i \in t <=> i \in u)
    OBVIOUS
  <2>4. \A i \in 1..n : i >= m => i \notin u /\ (i # m => i \notin t)
    BY <2>1
  <2> HIDE DEF u
  <2>5. F[t][m - 1] = F[u][m - 1]
    <3> DEFINE S == {i \in 0..(m - 1) : F[t][i] = F[u][i]}
    <3>1. 0 \in S
      BY <1>1, <2>2
    <3>2. ASSUME NEW i \in 0..(m - 1), i # m - 1, i \in S PROVE i + 1 \in S
      <4>1. i + 1 \in 1..n /\ i + 1 < m /\ i + 1 - 1 = i /\ i + 1 \in 0..(m - 1)
        BY <2>2, <3>2
      <4>2. F[t][i] = F[u][i]
        BY <3>2
      <4>3. F[t][i + 1] = F[u][i + 1]
        BY <1>1, <2>2, <2>3, <4>1, <4>2
      <4> QED BY <4>1, <4>3
    <3>3. 0 \in Nat /\ m - 1 \in Nat /\ m - 1 \in 0..(m - 1)
      BY <2>2
    <3> HIDE DEF S
    <3>4. m - 1 \in S
      BY <3>1, <3>2, <3>3, IntervalInduction
    <3> QED BY <3>4 DEF S
  <2>6. F[t][m] = step[m][F[u][m - 1]] /\ F[u][m] = F[u][m - 1]
    BY <1>1, <2>1, <2>2, <2>4, <2>5
  <2>7. F[t][n] = F[t][m] /\ F[u][n] = F[u][m]
    <3> DEFINE S == {i \in m..n : F[t][i] = F[t][m] /\ F[u][i] = F[u][m]}
    <3>1. m \in S
      BY <2>2
    <3>2. ASSUME NEW i \in m..n, i # n, i \in S PROVE i + 1 \in S
      <4>1. i + 1 \in 1..n /\ i + 1 >= m /\ i + 1 # m /\ i + 1 - 1 = i /\ i + 1 \in m..n
        BY <2>2, <3>2
      <4>2. i + 1 \notin t /\ i + 1 \notin u
        BY <2>4, <4>1
      <4>3. F[t][i + 1] = F[t][i] /\ F[u][i + 1] = F[u][i]
        BY <1>1, <2>2, <4>1, <4>2
      <4> QED BY <3>2, <4>1, <4>3
    <3>3. m \in Nat /\ n \in m..n
      BY <2>2
    <3> HIDE DEF S
    <3>4. n \in S
      BY <3>1, <3>2, <3>3, IntervalInduction
    <3> QED BY <3>4 DEF S
  <2>8. it[t] = step[m][it[u]]
    BY <2>2, <2>6, <2>7
  <2> QED BY <2>8 DEF m, u
<1>5. \A t \in SUBSET (1..n) :
        it[t] = IF t = {} THEN b ELSE step[Max(t)][it[t \ {Max(t)}]]
  BY <1>3, <1>4
<1> HIDE DEF it
<1> QED BY <1>2, <1>5 DEF FoldsOver

\* The greatest of the first i positions, and what is left without it.
LEMMA FirstPositions ==
  ASSUME NEW n \in Nat, NEW i \in 1..n
  PROVE  /\ 1..i \in SUBSET (1..n) /\ 1..i # {}
         /\ Max(1..i) = i
         /\ (1..i) \ {i} = 1..(i - 1)
<1>1. 1..i \in SUBSET (1..n) /\ 1..i # {} /\ (1..i) \ {i} = 1..(i - 1)
  OBVIOUS
<1>2. i \in 1..i /\ \A j \in 1..i : i >= j
  OBVIOUS
<1>3. \A x \in 1..i : (\A j \in 1..i : x >= j) => x = i
  BY <1>2
<1>4. Max(1..i) = i
  BY <1>2, <1>3 DEF Max
<1> QED BY <1>1, <1>4

\* The values of a solution on the first positions are a run.
LEMMA FoldSteps ==
  ASSUME NEW n \in Nat, NEW V, NEW b \in V, NEW step \in StepsOver(n, V),
         NEW it, it[1..0] = b,
         \A i \in 1..n : it[1..(i - 1)] \in V => it[1..i] = step[i][it[1..(i - 1)]]
  PROVE  \E f : RunsOver(f, n, V, b, step) /\ f[n] = it[1..n]
<1> USE DEF StepsOver
<1> DEFINE S == {i \in 0..n : it[1..i] \in V}
           f == [i \in 0..n |-> it[1..i]]
<1>1. 0 \in S /\ 0 \in Nat
  OBVIOUS
<1>2. ASSUME NEW i \in 0..n, i # n, i \in S PROVE i + 1 \in S
  <2>1. PICK j \in 1..n : j = i + 1
    BY <1>2
  <2>2. it[1..i] \in V /\ j - 1 = i
    BY <1>2, <2>1
  <2>3. it[1..(j - 1)] \in V
    BY <2>2
  <2>4. it[1..j] = step[j][it[1..(j - 1)]]
    BY <2>3
  <2>5. step[j] \in [V -> V] /\ j \in 0..n
    OBVIOUS
  <2>6. step[j][it[1..(j - 1)]] \in V
    BY ONLY <2>3, <2>5
  <2>7. it[1..j] \in V
    BY <2>4, <2>6
  <2>8. j \in S
    BY <2>5, <2>7
  <2> QED BY <2>1, <2>8
<1> HIDE DEF S
<1>3. \A i \in 0..n : i \in S
  BY <1>1, <1>2, IntervalInduction
<1>4. \A i \in 0..n : it[1..i] \in V
  BY <1>3 DEF S
<1>5. f \in [0..n -> V] /\ f[0] = b /\ f[n] = it[1..n]
  BY <1>4
<1>6. ASSUME NEW i \in 1..n PROVE f[i] = step[i][f[i - 1]]
  <2>1. i \in 0..n /\ i - 1 \in 0..n
    OBVIOUS
  <2>2. f[i] = it[1..i] /\ f[i - 1] = it[1..(i - 1)] /\ it[1..(i - 1)] \in V
    BY <1>4, <2>1
  <2> QED BY <2>2
<1> HIDE DEF f
<1> QED BY <1>5, <1>6 DEF RunsOver

-----------------------------------------------------------------------------
\* ChangeCapture

\* vociDi makes of values of the fields values of the fields.
LEMMA RecordedKeeps ==
  ASSUME NEW h \in FieldValues, NEW c \in ChangeEntry
  PROVE  Recorded(h, c) \in FieldValues
BY DEF Recorded, Field, FieldValues, ChangeEntry

\* inoltra makes of values of the records values of the records.
LEMMA ForwardedKeeps ==
  ASSUME NEW t \in RecordValues, NEW c \in ChangeEntry, rows \in RecordValues
  PROVE  Forwarded(t, c) \in RecordValues
BY DEF Forwarded, RecordValues, ChangeEntry

\* The history after a log of changes is that of its entries taken one by one.
LEMMA RecordedRun ==
  ASSUME NEW h \in FieldValues, NEW s \in Seq(ChangeEntry)
  PROVE  \E f \in [0..Len(s) -> FieldValues] :
           /\ f[0] = h /\ f[Len(s)] = FoldLeft(Recorded, h, s)
           /\ \A i \in 1..Len(s) : f[i] = Recorded(f[i - 1], s[i])
<1> DEFINE n == Len(s)
           Solves(g) == g = [t \in SUBSET (1..n) |->
                               IF t = {} THEN h ELSE Recorded(g[t \ {Max(t)}], s[Max(t)])]
           step == [i \in 1..n |-> [x \in FieldValues |-> Recorded(x, s[i])]]
           it == CHOOSE g : Solves(g)
<1>1. n \in Nat /\ DOMAIN s = 1..n /\ \A i \in 1..n : s[i] \in ChangeEntry
  OBVIOUS
<1>2. FoldLeft(Recorded, h, s) = it[1..n]
  BY <1>1 DEF FoldLeft, MapThenFoldSet
<1>3. step \in StepsOver(n, FieldValues)
  BY <1>1, RecordedKeeps DEF StepsOver
<1> HIDE DEF n, step
<1>4. \E g : Solves(g)
  <2>1. PICK g : FoldsOver(g, n, FieldValues, h, step)
    BY <1>1, <1>3, FoldExists
  <2>2. ASSUME NEW t \in SUBSET (1..n), t # {}
        PROVE  g[t] = Recorded(g[t \ {Max(t)}], s[Max(t)])
    <3>1. PICK x \in t : \A y \in t : y <= x
      BY <1>1, <2>2, MaxExists
    <3>2. \A y \in t : x >= y
      BY <3>1
    <3>3. Max(t) \in t
      BY <3>2 DEF Max
    <3>4. Max(t) \in 1..n /\ g[t \ {Max(t)}] \in FieldValues
      BY <2>1, <3>3 DEF FoldsOver
    <3>5. g[t] = step[Max(t)][g[t \ {Max(t)}]]
      BY <2>1, <2>2 DEF FoldsOver
    <3> QED BY <3>4, <3>5 DEF step
  <2>3. g \in [SUBSET (1..n) -> FieldValues] /\ g[{}] = h
    BY <2>1 DEF FoldsOver
  <2>4. Solves(g)
    BY <2>2, <2>3
  <2> QED BY <2>4
<1>5. Solves(it)
  <2> HIDE DEF Solves
  <2> QED BY <1>4
<1> HIDE DEF it
<1>6. it[1..0] = h
  <2>1. 1..0 = {} /\ {} \in SUBSET (1..n)
    OBVIOUS
  <2>2. it[{}] = h
    BY <1>5, <2>1
  <2> QED BY <2>1, <2>2
<1>7. ASSUME NEW i \in 1..n PROVE it[1..i] = Recorded(it[1..(i - 1)], s[i])
  <2> DEFINE t == 1..i
  <2>1. t \in SUBSET (1..n) /\ t # {} /\ Max(t) = i /\ t \ {i} = 1..(i - 1)
    BY <1>1, FirstPositions
  <2>2. it[t] = IF t = {} THEN h ELSE Recorded(it[t \ {Max(t)}], s[Max(t)])
    BY <1>5, <2>1
  <2> QED BY <2>1, <2>2
<1>8. \A i \in 1..n : it[1..(i - 1)] \in FieldValues => it[1..i] = step[i][it[1..(i - 1)]]
  BY <1>7 DEF step
<1> HIDE DEF Solves
<1>9. PICK f : RunsOver(f, n, FieldValues, h, step) /\ f[n] = it[1..n]
  BY <1>1, <1>3, <1>6, <1>8, FoldSteps
<1>10. ASSUME NEW i \in 1..n PROVE f[i] = Recorded(f[i - 1], s[i])
  <2>1. i - 1 \in 0..n
    BY <1>1
  <2>2. f[i - 1] \in FieldValues
    BY <1>9, <2>1 DEF RunsOver
  <2>3. f[i] = step[i][f[i - 1]]
    BY <1>9 DEF RunsOver
  <2> QED BY <2>2, <2>3 DEF step
<1> QED BY <1>2, <1>9, <1>10 DEF n, RunsOver

\* So are the blocks made of a log.
LEMMA ForwardedRun ==
  ASSUME NEW was \in RecordValues, NEW s \in Seq(ChangeEntry), rows \in RecordValues
  PROVE  \E f \in [0..Len(s) -> RecordValues] :
           /\ f[0] = was /\ f[Len(s)] = FoldLeft(Forwarded, was, s)
           /\ \A i \in 1..Len(s) : f[i] = Forwarded(f[i - 1], s[i])
<1> DEFINE n == Len(s)
           Solves(g) == g = [t \in SUBSET (1..n) |->
                               IF t = {} THEN was ELSE Forwarded(g[t \ {Max(t)}], s[Max(t)])]
           step == [i \in 1..n |-> [x \in RecordValues |-> Forwarded(x, s[i])]]
           it == CHOOSE g : Solves(g)
<1>1. n \in Nat /\ DOMAIN s = 1..n /\ \A i \in 1..n : s[i] \in ChangeEntry
  OBVIOUS
<1>2. FoldLeft(Forwarded, was, s) = it[1..n]
  BY <1>1 DEF FoldLeft, MapThenFoldSet
<1>3. step \in StepsOver(n, RecordValues)
  BY <1>1, ForwardedKeeps DEF StepsOver
<1> HIDE DEF n, step
<1>4. \E g : Solves(g)
  <2>1. PICK g : FoldsOver(g, n, RecordValues, was, step)
    BY <1>1, <1>3, FoldExists
  <2>2. ASSUME NEW t \in SUBSET (1..n), t # {}
        PROVE  g[t] = Forwarded(g[t \ {Max(t)}], s[Max(t)])
    <3>1. PICK x \in t : \A y \in t : y <= x
      BY <1>1, <2>2, MaxExists
    <3>2. \A y \in t : x >= y
      BY <3>1
    <3>3. Max(t) \in t
      BY <3>2 DEF Max
    <3>4. Max(t) \in 1..n /\ g[t \ {Max(t)}] \in RecordValues
      BY <2>1, <3>3 DEF FoldsOver
    <3>5. g[t] = step[Max(t)][g[t \ {Max(t)}]]
      BY <2>1, <2>2 DEF FoldsOver
    <3> QED BY <3>4, <3>5 DEF step
  <2>3. g \in [SUBSET (1..n) -> RecordValues] /\ g[{}] = was
    BY <2>1 DEF FoldsOver
  <2>4. Solves(g)
    BY <2>2, <2>3
  <2> QED BY <2>4
<1>5. Solves(it)
  <2> HIDE DEF Solves
  <2> QED BY <1>4
<1> HIDE DEF it
<1>6. it[1..0] = was
  <2>1. 1..0 = {} /\ {} \in SUBSET (1..n)
    OBVIOUS
  <2>2. it[{}] = was
    BY <1>5, <2>1
  <2> QED BY <2>1, <2>2
<1>7. ASSUME NEW i \in 1..n PROVE it[1..i] = Forwarded(it[1..(i - 1)], s[i])
  <2> DEFINE t == 1..i
  <2>1. t \in SUBSET (1..n) /\ t # {} /\ Max(t) = i /\ t \ {i} = 1..(i - 1)
    BY <1>1, FirstPositions
  <2>2. it[t] = IF t = {} THEN was ELSE Forwarded(it[t \ {Max(t)}], s[Max(t)])
    BY <1>5, <2>1
  <2> QED BY <2>1, <2>2
<1>8. \A i \in 1..n : it[1..(i - 1)] \in RecordValues => it[1..i] = step[i][it[1..(i - 1)]]
  BY <1>7 DEF step
<1> HIDE DEF Solves
<1>9. PICK f : RunsOver(f, n, RecordValues, was, step) /\ f[n] = it[1..n]
  BY <1>1, <1>3, <1>6, <1>8, FoldSteps
<1>10. ASSUME NEW i \in 1..n PROVE f[i] = Forwarded(f[i - 1], s[i])
  <2>1. i - 1 \in 0..n
    BY <1>1
  <2>2. f[i - 1] \in RecordValues
    BY <1>9, <2>1 DEF RunsOver
  <2>3. f[i] = step[i][f[i - 1]]
    BY <1>9 DEF RunsOver
  <2> QED BY <2>2, <2>3 DEF step
<1> QED BY <1>2, <1>9, <1>10 DEF n, RunsOver

\* An empty log leaves the history as it is.
LEMMA RecordedNone ==
  ASSUME NEW h \in FieldValues
  PROVE  FoldLeft(Recorded, h, <<>>) = h
<1> DEFINE s == <<>>
<1>1. s \in Seq(ChangeEntry) /\ Len(s) = 0
  OBVIOUS
<1> HIDE DEF s
<1>2. PICK f \in [0..Len(s) -> FieldValues] :
         f[0] = h /\ f[Len(s)] = FoldLeft(Recorded, h, s)
  BY <1>1, RecordedRun
<1>3. FoldLeft(Recorded, h, s) = h
  BY <1>1, <1>2
<1> QED BY <1>3 DEF s

\* A history after a log of changes is a history.
LEMMA RecordedFits ==
  ASSUME NEW h \in FieldValues, NEW s \in Seq(ChangeEntry)
  PROVE  FoldLeft(Recorded, h, s) \in FieldValues
<1>1. PICK f \in [0..Len(s) -> FieldValues] : f[Len(s)] = FoldLeft(Recorded, h, s)
  BY RecordedRun
<1>2. Len(s) \in 0..Len(s)
  OBVIOUS
<1>3. f[Len(s)] \in FieldValues
  BY <1>2
<1> QED BY <1>1, <1>3

\* One more entry of the log goes to the history after the others.
LEMMA RecordedMore ==
  ASSUME NEW h \in FieldValues, NEW s \in Seq(ChangeEntry), NEW c \in ChangeEntry
  PROVE  FoldLeft(Recorded, h, Append(s, c)) = Recorded(FoldLeft(Recorded, h, s), c)
<1> DEFINE z == Append(s, c)
           n == Len(s)
<1>1. /\ z \in Seq(ChangeEntry) /\ n \in Nat /\ Len(z) = n + 1
      /\ z[n + 1] = c /\ \A i \in 1..n : z[i] = s[i]
  BY AppendProperties
<1>2. PICK f \in [0..n -> FieldValues] :
         /\ f[0] = h /\ f[n] = FoldLeft(Recorded, h, s)
         /\ \A i \in 1..n : f[i] = Recorded(f[i - 1], s[i])
  BY RecordedRun
<1>3. PICK g \in [0..Len(z) -> FieldValues] :
         /\ g[0] = h /\ g[Len(z)] = FoldLeft(Recorded, h, z)
         /\ \A i \in 1..Len(z) : g[i] = Recorded(g[i - 1], z[i])
  <2> HIDE DEF z
  <2> QED BY <1>1, RecordedRun
<1> HIDE DEF z, n
<1> DEFINE S == {i \in 0..n : f[i] = g[i]}
<1>4. 0 \in S /\ 0 \in Nat /\ n \in 0..n
  BY <1>1, <1>2, <1>3
<1>5. ASSUME NEW i \in 0..n, i # n, i \in S PROVE i + 1 \in S
  <2>1. PICK j \in 1..n : j = i + 1
    BY <1>1, <1>5
  <2>2. j - 1 = i /\ j \in 1..Len(z) /\ j \in 0..n
    BY <1>1, <2>1
  <2>3. f[j] = Recorded(f[i], s[j]) /\ g[j] = Recorded(g[i], z[j]) /\ z[j] = s[j]
    BY <1>1, <1>2, <1>3, <2>2
  <2>4. f[i] = g[i]
    BY <1>5
  <2>5. j \in S
    BY <2>2, <2>3, <2>4
  <2> QED BY <2>1, <2>5
<1> HIDE DEF S
<1>6. n \in S
  BY <1>1, <1>4, <1>5, IntervalInduction
<1>7. f[n] = g[n]
  BY <1>6 DEF S
<1>8. n + 1 \in 1..Len(z) /\ n + 1 - 1 = n /\ Len(z) = n + 1
  BY <1>1
<1>9. PICK m \in 1..Len(z) : m = n + 1 /\ m - 1 = n
  BY <1>1, <1>8
<1>10. g[m] = Recorded(g[n], z[m])
  BY <1>3, <1>9
<1> QED BY <1>1, <1>2, <1>3, <1>7, <1>8, <1>9, <1>10 DEF z

\* w is what t becomes by the changes of the log c: a record of which the log
\* says nothing is the same in both, another one is what its last entry says.
Tells(w, t, c) ==
  /\ \A i \in 1..Len(c) : (c[i].azione = "DELETE") <=> (c[i].dopo = Absent)
  /\ \A r \in Record : (\A i \in 1..Len(c) : c[i].record # r) => t[r] = w[r]
  /\ \A i \in 1..Len(c) :
       (\A j \in 1..Len(c) : j > i => c[j].record # c[i].record) => c[i].dopo = w[c[i].record]

\* The blocks made of such a log tell the records as they are.
LEMMA ForwardedTells ==
  ASSUME rows \in RecordValues, NEW was \in RecordValues, NEW s \in Seq(ChangeEntry),
         Tells(rows, was, s)
  PROVE  FoldLeft(Forwarded, was, s) = rows
<1> DEFINE n == Len(s)
<1>1. n \in Nat /\ \A i \in 1..n : s[i] \in ChangeEntry
  OBVIOUS
<1>2. PICK f \in [0..n -> RecordValues] :
         /\ f[0] = was /\ f[n] = FoldLeft(Forwarded, was, s)
         /\ \A i \in 1..n : f[i] = Forwarded(f[i - 1], s[i])
  BY ForwardedRun
<1> HIDE DEF n
\* Only the entries of a record change what its blocks say.
<1>3. ASSUME NEW r \in Record, NEW a \in 0..n, \A i \in 1..n : i > a => s[i].record # r
      PROVE  f[n][r] = f[a][r]
  <2> DEFINE S == {i \in a..n : f[i][r] = f[a][r]}
  <2>1. a \in S /\ a \in Nat /\ n \in a..n
    BY <1>1
  <2>2. ASSUME NEW i \in a..n, i # n, i \in S PROVE i + 1 \in S
    <3>1. PICK j \in 1..n : j = i + 1
      BY <1>1, <2>2
    <3>2. j - 1 = i /\ j > a /\ j \in a..n /\ i \in 0..n
      BY <1>1, <3>1
    <3>3. s[j].record # r /\ s[j] \in ChangeEntry /\ f[i] \in RecordValues
      BY <1>1, <1>3, <3>2
    <3>4. f[j] = Forwarded(f[i], s[j])
      BY <1>2, <3>2
    <3>5. f[j][r] = f[i][r]
      BY <3>3, <3>4 DEF Forwarded, RecordValues, ChangeEntry
    <3>6. f[i][r] = f[a][r]
      BY <2>2
    <3>7. j \in S
      BY <3>2, <3>5, <3>6
    <3> QED BY <3>1, <3>7
  <2> HIDE DEF S
  <2>3. n \in S
    BY <1>1, <2>1, <2>2, IntervalInduction
  <2> QED BY <2>3 DEF S
<1>4. ASSUME NEW r \in Record PROVE f[n][r] = rows[r]
  <2>1. CASE \A i \in 1..n : s[i].record # r
    <3>1. 0 \in 0..n
      BY <1>1
    <3>2. f[n][r] = f[0][r]
      BY <1>3, <2>1, <3>1
    <3> QED BY <1>2, <2>1, <3>2 DEF Tells, n
  <2>2. CASE ~ \A i \in 1..n : s[i].record # r
    <3> DEFINE P == {i \in 1..n : s[i].record = r}
    <3>1. P \in SUBSET (1..n) /\ P # {}
      BY <2>2
    <3>2. PICK k \in P : \A i \in P : i <= k
      <4> HIDE DEF P
      <4> QED BY <1>1, <3>1, MaxExists
    <3>3. k \in 1..n /\ k \in 0..n /\ s[k].record = r /\ \A i \in 1..n : i > k => s[i].record # r
      BY <1>1, <3>2
    <3>4. s[k].dopo = rows[r] /\ ((s[k].azione = "DELETE") <=> (s[k].dopo = Absent))
      BY <3>3 DEF Tells, n
    <3>5. f[k] = Forwarded(f[k - 1], s[k]) /\ f[k - 1] \in RecordValues
      BY <1>1, <1>2, <3>3
    <3>6. f[k][r] = rows[r]
      BY <3>3, <3>4, <3>5 DEF Forwarded, RecordValues
    <3>7. f[n][r] = f[k][r]
      BY <1>3, <3>3
    <3> QED BY <3>6, <3>7
  <2> QED BY <2>1, <2>2
<1>5. f[n] \in RecordValues
  BY <1>1
<1>6. f[n] = rows
  BY <1>4, <1>5 DEF RecordValues
<1> QED BY <1>2, <1>6

Savepoint == [rows : RecordValues, triggers : SUBSET Record, cambi : Seq(ChangeEntry),
              history : FieldValues, mine : MineValues]

CaptureShape ==
  /\ rows \in RecordValues /\ told \in RecordValues
  /\ history \in FieldValues /\ mine \in MineValues
  /\ schema \in 1..2 /\ versioni \in 0..2
  /\ triggers \subseteq Record /\ attiva \in BOOLEAN
  /\ cambi \in Seq(ChangeEntry) /\ Len(cambi) <= MaxChanges
  /\ open \in Seq(Savepoint) /\ Len(open) <= MaxDepth

\* Of the session: it is open while an operation is, and then every table has
\* the triggers, also those that a savepoint would put back; the log is empty
\* when the outermost operation begins.
Sessions ==
  /\ attiva <=> open # <<>>
  /\ open = <<>> => cambi = <<>>
  /\ open # <<>> => versioni = schema /\ open[1].cambi = <<>>
  /\ versioni # 0 => triggers = Stored(versioni)
  /\ \A i \in 1..Len(open) : /\ open[i].triggers = Stored(schema)
                             /\ open[i].history = history
                             /\ Len(open[i].cambi) <= Len(cambi)
  /\ \A i, j \in 1..Len(open) : i <= j => Len(open[i].cambi) <= Len(open[j].cambi)

\* m is what the history h tells, or was emptied by a change that leaves no entry.
Agrees(m, h) == \A r \in Record : m[r] \in {h[r], Unlogged}

\* Now, and at every savepoint, the log makes of the history what the local
\* changes left, and of what the blocks told the records as they are.
Account(w, t, m, h, c) == Tells(w, t, c) /\ Agrees(m, FoldLeft(Recorded, h, c))
Accounts ==
  /\ Account(rows, told, mine, history, cambi)
  /\ \A i \in 1..Len(open) : Account(open[i].rows, told, open[i].mine, history, open[i].cambi)

CaptureInv == CaptureShape /\ Sessions /\ Accounts

\* They hold at the start.
LEMMA CaptureStarts == CaptureAssumption /\ CaptureInit => CaptureInv
<1> SUFFICES ASSUME CaptureAssumption, CaptureInit PROVE CaptureInv
  OBVIOUS
<1>1. Len(open) = 0 /\ Len(cambi) = 0 /\ cambi = <<>> /\ open = <<>>
  BY DEF CaptureInit
<1>2. CaptureShape
  <2>1. rows \in RecordValues /\ history \in FieldValues
    BY DEF CaptureInit, RecordValues, FieldValues
  <2>2. cambi \in Seq(ChangeEntry) /\ open \in Seq(Savepoint)
    BY <1>1
  <2>3. Len(cambi) <= MaxChanges /\ Len(open) <= MaxDepth
    BY <1>1 DEF CaptureAssumption
  <2>4. told \in RecordValues /\ mine \in MineValues
    BY <2>1 DEF CaptureInit, FieldValues, MineValues
  <2>5. schema \in 1..2 /\ versioni \in 0..2 /\ triggers \subseteq Record
    BY DEF CaptureInit
  <2>6. attiva \in BOOLEAN
    BY DEF CaptureInit
  <2> QED BY <2>1, <2>2, <2>3, <2>4, <2>5, <2>6 DEF CaptureShape
<1>3. Sessions
  BY <1>1 DEF CaptureInit, Sessions
<1>4. Account(rows, told, mine, history, cambi)
  <2>1. Tells(rows, told, cambi)
    BY <1>1 DEF CaptureInit, Tells
  <2>2. Agrees(mine, FoldLeft(Recorded, history, cambi))
    <3>1. mine = FoldLeft(Recorded, history, cambi)
      BY <1>1, <1>2, RecordedNone DEF CaptureInit, CaptureShape
    <3> QED BY <3>1 DEF Agrees
  <2> QED BY <2>1, <2>2 DEF Account
<1> QED BY <1>1, <1>2, <1>3, <1>4 DEF CaptureInv, Accounts

\* What is left of the savepoints when the last one is taken away.
LEMMA Dropped ==
  ASSUME NEW S, NEW s \in Seq(S), s # <<>>
  PROVE  /\ Front(s) \in Seq(S) /\ Len(Front(s)) = Len(s) - 1
         /\ \A i \in 1..(Len(s) - 1) : i \in 1..Len(s) /\ Front(s)[i] = s[i]
         /\ Len(s) \in Nat \ {0} /\ Len(s) \in 1..Len(s) /\ Last(s) = s[Len(s)]
<1>1. Len(s) \in Nat \ {0}
  BY EmptySeq
<1>2. \A i \in 1..(Len(s) - 1) : i \in 1..Len(s) /\ s[i] \in S
  BY <1>1
<1> DEFINE z == SubSeq(s, 1, Len(s) - 1)
<1>3. /\ z \in Seq(S)
      /\ Len(z) = IF 1 <= Len(s) - 1 THEN Len(s) - 1 - 1 + 1 ELSE 0
      /\ \A i \in 1..(Len(s) - 1 - 1 + 1) : z[i] = s[1 + i - 1]
  BY <1>1, <1>2, SubSeqProperties
<1> HIDE DEF z
<1>4. Len(z) = Len(s) - 1
  <2>1. PICK k \in Nat \ {0} : k = Len(s)
    BY <1>1
  <2>2. Len(z) = IF 1 <= k - 1 THEN k - 1 - 1 + 1 ELSE 0
    BY <1>3, <2>1
  <2>3. Len(z) = k - 1
    BY <2>2
  <2> QED BY <2>1, <2>3
<1>5. \A i \in 1..(Len(s) - 1) : z[i] = s[i]
  <2> TAKE i \in 1..(Len(s) - 1)
  <2>1. i \in 1..(Len(s) - 1 - 1 + 1) /\ 1 + i - 1 = i
    BY <1>1
  <2>2. z[i] = s[1 + i - 1]
    BY <1>3, <2>1
  <2> QED BY <2>1, <2>2
<1>6. Front(s) = z /\ Last(s) = s[Len(s)]
  BY DEF Front, Last, z
<1> QED BY <1>1, <1>2, <1>3, <1>4, <1>5, <1>6

\* An operation that opens finds, or makes, the triggers of every table, and
\* keeps a savepoint of what there is.
LEMMA OpenKeeps ==
  ASSUME CaptureInv, OpenOperation PROVE CaptureInv'
<1> DEFINE s == [rows |-> rows, triggers |-> triggers', cambi |-> cambi, history |-> history,
                 mine |-> mine]
<1>1. /\ UNCHANGED <<rows, schema, cambi, history, told, mine>>
      /\ versioni' = schema /\ open' = Append(open, s) /\ Len(open) < MaxDepth
      /\ attiva' = (attiva \/ open = <<>>)
  BY DEF OpenOperation
<1>2. triggers' = Stored(schema) /\ Stored(schema) \subseteq Record /\ schema # 0
  <2>1. schema # 0 /\ (versioni # 0 => triggers = Stored(versioni))
    BY DEF CaptureInv, CaptureShape, Sessions
  <2>2. triggers' = IF versioni = schema THEN triggers ELSE Stored(schema)
    BY DEF OpenOperation, Aligned
  <2>3. Stored(schema) \subseteq Record
    BY DEF Stored
  <2> QED BY <2>1, <2>2, <2>3
<1>3. s \in Savepoint
  BY <1>2 DEF CaptureInv, CaptureShape, Savepoint
<1>4. /\ open' \in Seq(Savepoint) /\ Len(open') = Len(open) + 1 /\ open' # <<>>
      /\ \A i \in 1..Len(open) : open'[i] = open[i]
      /\ open'[Len(open) + 1] = s
      /\ Len(open) \in Nat
  BY <1>1, <1>3, AppendProperties DEF CaptureInv, CaptureShape
<1>5. s.triggers = Stored(schema) /\ s.history = history /\ s.cambi = cambi /\ s.rows = rows
      /\ s.mine = mine
  BY <1>2
<1> HIDE DEF s
<1>6. \A i \in 1..Len(open') : (i \in 1..Len(open) /\ open'[i] = open[i]) \/ open'[i] = s
  BY <1>4
<1>7. CaptureShape'
  <2>1. attiva' \in BOOLEAN
    BY <1>1
  <2>2. versioni' \in 0..2
    BY <1>1 DEF CaptureInv, CaptureShape
  <2>3. Len(open') <= MaxDepth
    BY <1>1, <1>4, CaptureAssumption DEF CaptureAssumption, CaptureInv, CaptureShape
  <2> QED BY <1>1, <1>2, <1>4, <2>1, <2>2, <2>3 DEF CaptureInv, CaptureShape
<1>8. Sessions'
  <2>1. (attiva <=> open # <<>>)'
    BY <1>1, <1>4 DEF CaptureInv, Sessions
  <2>2. (open # <<>> => versioni = schema /\ open[1].cambi = <<>>)'
    <3>1. CASE open = <<>>
      <4>1. Len(open) = 0 /\ cambi = <<>>
        BY <3>1 DEF CaptureInv, Sessions
      <4> QED BY <1>1, <1>4, <1>5, <4>1
    <3>2. CASE open # <<>>
      <4>1. 1 \in 1..Len(open)
        BY <1>4, <3>2, EmptySeq DEF CaptureInv, CaptureShape
      <4> QED BY <1>1, <1>4, <3>2, <4>1 DEF CaptureInv, Sessions
    <3> QED BY <3>1, <3>2
  <2>3. (versioni # 0 => triggers = Stored(versioni))'
    BY <1>1, <1>2 DEF Stored
  <2>4. \A i \in 1..Len(open') : /\ open'[i].triggers = Stored(schema)
                                 /\ open'[i].history = history
                                 /\ Len(open'[i].cambi) <= Len(cambi)
    <3>1. Len(cambi) \in Nat
      BY DEF CaptureInv, CaptureShape
    <3> QED BY <1>5, <1>6, <3>1 DEF CaptureInv, Sessions
  <2>5. \A i, j \in 1..Len(open') : i <= j => Len(open'[i].cambi) <= Len(open'[j].cambi)
    <3> TAKE i, j \in 1..Len(open')
    <3> HAVE i <= j
    <3>1. CASE j \in 1..Len(open)
      <4>1. i \in 1..Len(open)
        BY <3>1
      <4> QED BY <1>4, <3>1, <4>1 DEF CaptureInv, Sessions
    <3>2. CASE j \notin 1..Len(open)
      <4>1. open'[j] = s
        BY <1>6, <3>2
      <4> QED BY <1>5, <2>4, <4>1
    <3> QED BY <3>1, <3>2
  <2> QED BY <1>1, <1>4, <2>1, <2>2, <2>3, <2>4, <2>5 DEF Sessions, Stored
<1>9. Accounts'
  BY <1>1, <1>5, <1>6 DEF CaptureInv, Accounts
<1> QED BY <1>7, <1>8, <1>9 DEF CaptureInv

\* A statement of the application is in the log: its entry says what the record
\* becomes, and changes the history exactly as the statement does, unless the
\* triggers do not see the value it empties.
LEMMA WriteKeeps ==
  ASSUME CaptureInv, NEW r \in Record, NEW v \in Content \cup {Absent, Empty},
         NEW was \in {rows[r], Absent}, v # Absent \/ was # Absent, Changes(r, v, was)
  PROVE  CaptureInv'
<1> DEFINE a == CASE v = Absent   -> "DELETE"
                  [] was = Absent -> "INSERT"
                  [] OTHER        -> "UPDATE"
           e == [record |-> r, prima |-> was, dopo |-> v, azione |-> a]
           w == IF v = Absent \/ Field(was) # v THEN Field(v)
                ELSE IF Field(rows[r]) = v THEN mine[r] ELSE Unlogged
           n == Len(cambi)
<1>1. /\ open # <<>> /\ n < MaxChanges /\ r \in Stored(schema)
      /\ rows' = [rows EXCEPT ![r] = v]
      /\ UNCHANGED <<schema, versioni, triggers, attiva, open, history, told>>
      /\ mine' = [mine EXCEPT ![r] = w]
  BY DEF Changes, Statement
<1> HIDE DEF w
<1>2. Captured(r)
  <2>1. attiva /\ versioni = schema /\ schema # 0
    BY <1>1 DEF CaptureInv, CaptureShape, Sessions
  <2>2. triggers = Stored(schema)
    BY <2>1 DEF CaptureInv, Sessions
  <2> QED BY <1>1, <2>1, <2>2 DEF Captured
<1>3. cambi' = Append(cambi, e)
  BY <1>2 DEF Changes, Statement
<1>4. was \in Content \cup {Absent, Empty}
  BY DEF CaptureInv, CaptureShape, RecordValues
<1>5. a \in {"INSERT", "UPDATE", "DELETE"} /\ ((a = "DELETE") <=> (v = Absent))
  <2>1. CASE v = Absent
    BY <2>1
  <2>2. CASE v # Absent /\ was = Absent
    BY <2>2
  <2>3. CASE v # Absent /\ was # Absent
    BY <2>3
  <2> QED BY <2>1, <2>2, <2>3
<1> HIDE DEF a
<1>6. e \in ChangeEntry /\ e.record = r /\ e.prima = was /\ e.dopo = v /\ e.azione = a
  BY <1>4, <1>5 DEF ChangeEntry
<1> HIDE DEF e
<1>7. /\ cambi' \in Seq(ChangeEntry) /\ n \in Nat /\ Len(cambi') = n + 1
      /\ cambi'[n + 1] = e /\ \A i \in 1..n : cambi'[i] = cambi[i]
  BY <1>3, <1>6, AppendProperties DEF CaptureInv, CaptureShape
<1>8. CaptureShape'
  <2>1. rows' \in RecordValues
    BY <1>1 DEF CaptureInv, CaptureShape, RecordValues
  <2>2. Field(v) \in Content \cup {Empty}
    BY DEF Field
  <2>3. mine' \in MineValues
    <3>1. mine \in MineValues
      BY DEF CaptureInv, CaptureShape
    <3>2. w \in Content \cup {Empty, Unlogged}
      BY <2>2, <3>1 DEF w, MineValues
    <3> QED BY <1>1, <3>1, <3>2 DEF MineValues
  <2>4. Len(cambi') <= MaxChanges
    BY <1>1, <1>7, CaptureAssumption DEF CaptureAssumption
  <2> QED BY <1>1, <1>7, <2>1, <2>3, <2>4 DEF CaptureInv, CaptureShape
<1>9. Sessions'
  <2>1. \A i \in 1..Len(open) : Len(open[i].cambi) <= Len(cambi')
    <3> TAKE i \in 1..Len(open)
    <3>1. Len(open[i].cambi) <= n
      BY DEF CaptureInv, Sessions
    <3>2. open[i] \in Savepoint
      BY DEF CaptureInv, CaptureShape
    <3>3. Len(open[i].cambi) \in Nat
      BY <3>2 DEF Savepoint
    <3> QED BY <1>7, <3>1, <3>3
  <2> QED BY <1>1, <2>1 DEF CaptureInv, Sessions, Stored
<1>10. Tells(rows', told, cambi')
  <2>1. Tells(rows, told, cambi)
    BY DEF CaptureInv, Accounts, Account
  <2>2. rows'[r] = v /\ \A q \in Record : q # r => rows'[q] = rows[q]
    BY <1>1 DEF CaptureInv, CaptureShape, RecordValues
  <2>3. \A i \in 1..Len(cambi') : (i \in 1..n /\ cambi'[i] = cambi[i]) \/ (i = n + 1 /\ cambi'[i] = e)
    BY <1>7
  <2>4. \A i \in 1..Len(cambi') : (cambi'[i].azione = "DELETE") <=> (cambi'[i].dopo = Absent)
    BY <1>5, <1>6, <2>1, <2>3 DEF Tells
  <2>5. n + 1 \in 1..Len(cambi') /\ \A i \in 1..n : i \in 1..Len(cambi')
    BY <1>7
  <2>6. ASSUME NEW q \in Record, \A i \in 1..Len(cambi') : cambi'[i].record # q
        PROVE  told[q] = rows'[q]
    <3>1. q # r
      BY <1>6, <1>7, <2>5, <2>6
    <3>2. \A i \in 1..n : cambi[i].record # q
      BY <1>7, <2>5, <2>6
    <3> QED BY <2>1, <2>2, <3>1, <3>2 DEF Tells
  <2>7. ASSUME NEW i \in 1..Len(cambi'),
               \A j \in 1..Len(cambi') : j > i => cambi'[j].record # cambi'[i].record
        PROVE  cambi'[i].dopo = rows'[cambi'[i].record]
    <3>1. CASE i = n + 1
      BY <1>6, <1>7, <2>2, <3>1
    <3>2. CASE i # n + 1
      <4>1. i \in 1..n /\ cambi'[i] = cambi[i]
        BY <2>3, <3>2
      <4>2. n + 1 > i
        BY <1>7, <4>1
      <4>3. cambi[i].record # r
        BY <1>6, <1>7, <2>5, <2>7, <4>1, <4>2
      <4>4. \A j \in 1..n : j > i => cambi[j].record # cambi[i].record
        BY <1>7, <2>5, <2>7, <4>1
      <4>5. cambi[i].record \in Record
        <5>1. cambi[i] \in ChangeEntry
          BY <4>1 DEF CaptureInv, CaptureShape
        <5> QED BY <5>1 DEF ChangeEntry
      <4> QED BY <2>1, <2>2, <4>1, <4>3, <4>4, <4>5 DEF Tells
    <3> QED BY <3>1, <3>2
  <2> QED BY <2>4, <2>6, <2>7 DEF Tells
<1>11. Agrees(mine', FoldLeft(Recorded, history, cambi'))
  <2> DEFINE h == FoldLeft(Recorded, history, cambi)
             k == FoldLeft(Recorded, history, cambi')
  <2>1. Agrees(mine, h)
    BY DEF CaptureInv, Accounts, Account
  <2>2. k = Recorded(h, e)
    BY <1>3, <1>6, RecordedMore DEF CaptureInv, CaptureShape
  <2>3. h \in FieldValues
    BY RecordedFits DEF CaptureInv, CaptureShape
  <2> HIDE DEF h, k
  <2>4. k = IF v # Absent /\ Field(was) = Field(v) THEN h ELSE [h EXCEPT ![r] = Field(v)]
    BY <1>5, <1>6, <2>2 DEF Recorded
  <2>5. v # Absent => Field(v) = v
    BY DEF Field
  <2>6. mine'[r] = w /\ \A q \in Record : q # r => mine'[q] = mine[q]
    BY <1>1 DEF CaptureInv, CaptureShape, MineValues
  <2>7. \A q \in Record : q # r => k[q] = h[q]
    BY <2>3, <2>4 DEF FieldValues
  <2>8. w \in {k[r], Unlogged}
    <3>1. CASE v = Absent \/ Field(was) # v
      <4>1. w = Field(v) /\ k = [h EXCEPT ![r] = Field(v)]
        BY <2>4, <2>5, <3>1 DEF w
      <4> QED BY <2>3, <4>1 DEF FieldValues
    <3>2. CASE ~(v = Absent \/ Field(was) # v)
      <4>1. k = h /\ w \in {mine[r], Unlogged}
        BY <2>4, <2>5, <3>2 DEF w
      <4> QED BY <2>1, <4>1 DEF Agrees
    <3> QED BY <3>1, <3>2
  <2>9. Agrees(mine', k)
    BY <2>1, <2>6, <2>7, <2>8 DEF Agrees
  <2> QED BY <2>9 DEF k
<1>12. Accounts'
  BY <1>1, <1>10, <1>11 DEF CaptureInv, Accounts, Account
<1> QED BY <1>8, <1>9, <1>12 DEF CaptureInv

\* Between operations the log is empty: then the blocks tell every record.
LEMMA BetweenOperations ==
  ASSUME CaptureInv, open = <<>>
  PROVE  cambi = <<>> /\ Len(cambi) = 0 /\ Len(open) = 0 /\ told = rows
         /\ Agrees(mine, history) /\ ~attiva
<1>1. cambi = <<>> /\ Len(cambi) = 0 /\ Len(open) = 0 /\ ~attiva
  BY DEF CaptureInv, Sessions
<1>2. \A r \in Record : told[r] = rows[r]
  BY <1>1 DEF CaptureInv, Accounts, Account, Tells
<1>3. told = rows
  BY <1>2 DEF CaptureInv, CaptureShape, RecordValues
<1>4. Agrees(mine, FoldLeft(Recorded, history, <<>>))
  BY <1>1 DEF CaptureInv, Accounts, Account
<1>5. Agrees(mine, history)
  BY <1>4, RecordedNone DEF CaptureInv, CaptureShape
<1> QED BY <1>1, <1>3, <1>5

\* What a block of another node writes is not logged, and is what it told.
LEMMA RemoteKeeps ==
  ASSUME CaptureInv, NEW r \in Record, NEW v \in Content \cup {Absent, Empty},
         RemoteWrite(r, v)
  PROVE  CaptureInv'
<1>1. /\ open = <<>> /\ rows' = [rows EXCEPT ![r] = v] /\ told' = [told EXCEPT ![r] = v]
      /\ UNCHANGED <<schema, versioni, triggers, attiva, open, history, mine>>
  BY DEF RemoteWrite, Statement
<1>2. cambi = <<>> /\ Len(cambi) = 0 /\ Len(open) = 0 /\ told = rows /\ ~attiva
  BY <1>1, BetweenOperations
<1>3. cambi' = cambi
  BY <1>2 DEF RemoteWrite, Statement, Captured
<1>4. CaptureShape'
  <2>1. rows' \in RecordValues /\ told' \in RecordValues
    BY <1>1 DEF CaptureInv, CaptureShape, RecordValues
  <2> QED BY <1>1, <1>3, <2>1 DEF CaptureInv, CaptureShape
<1>5. Sessions'
  BY <1>1, <1>3 DEF CaptureInv, Sessions, Stored
<1>6. Accounts'
  <2>1. Tells(rows', told', cambi')
    BY <1>1, <1>2, <1>3 DEF Tells
  <2>2. Agrees(mine', FoldLeft(Recorded, history', cambi'))
    BY <1>1, <1>3 DEF CaptureInv, Accounts, Account
  <2> QED BY <1>1, <1>2, <2>1, <2>2 DEF Accounts, Account
<1> QED BY <1>4, <1>5, <1>6 DEF CaptureInv

\* At the end of the outermost operation the history becomes what the local
\* changes left, and the blocks tell the records; an inner one only ends.
LEMMA CloseKeeps ==
  ASSUME CaptureInv, CloseOperation PROVE CaptureInv'
<1> DEFINE n == Len(open)
<1>1. /\ open # <<>> /\ open' = Front(open) /\ attiva' = (n # 1)
      /\ UNCHANGED <<rows, schema, versioni, triggers, mine>>
  BY DEF CloseOperation
<1>2. /\ open' \in Seq(Savepoint) /\ Len(open') = n - 1 /\ n \in Nat \ {0}
      /\ \A i \in 1..(n - 1) : i \in 1..n /\ open'[i] = open[i]
  <2>1. open \in Seq(Savepoint)
    BY DEF CaptureInv, CaptureShape
  <2> QED BY <1>1, <2>1, Dropped
<1>3. CASE n = 1
  <2>1. /\ history' = FoldLeft(Recorded, history, cambi)
        /\ told' = FoldLeft(Forwarded, told, cambi)
        /\ cambi' = <<>>
    BY <1>3 DEF CloseOperation, Extracts
  <2>2. Agrees(mine, history') /\ history' \in FieldValues
    <3>1. Agrees(mine, FoldLeft(Recorded, history, cambi))
      BY DEF CaptureInv, Accounts, Account
    <3>2. FoldLeft(Recorded, history, cambi) \in FieldValues
      BY RecordedFits DEF CaptureInv, CaptureShape
    <3> QED BY <2>1, <3>1, <3>2
  <2>3. told' = rows
    BY <2>1, ForwardedTells DEF CaptureInv, CaptureShape, Accounts, Account
  <2>4. Len(open') = 0 /\ open' = <<>> /\ Len(cambi') = 0
    BY <1>2, <1>3, <2>1
  <2>5. CaptureShape'
    <3>1. attiva' \in BOOLEAN
      BY <1>1
    <3>2. Len(cambi') <= MaxChanges /\ Len(open') <= MaxDepth
      BY <2>4, CaptureAssumption DEF CaptureAssumption
    <3>3. cambi' \in Seq(ChangeEntry)
      BY <2>1
    <3> QED BY <1>1, <1>2, <2>2, <2>3, <3>1, <3>2, <3>3 DEF CaptureInv, CaptureShape
  <2>6. Sessions'
    <3>1. ~attiva' /\ (attiva <=> open # <<>>)'
      <4>1. ~attiva'
        BY <1>1, <1>3
      <4> QED BY <2>4, <4>1
    <3> QED BY <1>1, <2>1, <2>4, <3>1 DEF CaptureInv, Sessions, Stored
  <2>7. Accounts'
    <3>1. Tells(rows', told', cambi')
      BY <1>1, <2>3, <2>4 DEF Tells
    <3>2. Agrees(mine', FoldLeft(Recorded, history', cambi'))
      BY <1>1, <2>1, <2>2, RecordedNone
    <3> QED BY <2>4, <3>1, <3>2 DEF Accounts, Account
  <2> QED BY <2>5, <2>6, <2>7 DEF CaptureInv
<1>4. CASE n # 1
  <2>1. UNCHANGED <<history, told, cambi>>
    BY <1>4 DEF CloseOperation, Extracts
  <2>2. open' # <<>> /\ 1 \in 1..(n - 1) /\ Len(open') \in Nat /\ Len(open') <= n
    BY <1>2, <1>4
  <2>3. CaptureShape'
    <3>1. attiva' \in BOOLEAN
      BY <1>1
    <3>2. Len(open') <= MaxDepth
      BY <1>2, <2>2, CaptureAssumption DEF CaptureAssumption, CaptureInv, CaptureShape
    <3> QED BY <1>1, <1>2, <2>1, <3>1, <3>2 DEF CaptureInv, CaptureShape
  <2>4. Sessions'
    <3>1. (attiva <=> open # <<>>)'
      BY <1>1, <1>4, <2>2
    <3>2. (open # <<>> => versioni = schema /\ open[1].cambi = <<>>)'
      BY <1>1, <1>2, <2>2 DEF CaptureInv, Sessions
    <3> QED BY <1>1, <1>2, <2>1, <2>2, <3>1, <3>2 DEF CaptureInv, Sessions, Stored
  <2>5. Accounts'
    BY <1>1, <1>2, <2>1 DEF CaptureInv, Accounts
  <2> QED BY <2>3, <2>4, <2>5 DEF CaptureInv
<1> QED BY <1>3, <1>4

\* A failed operation puts back what its savepoint kept.
LEMMA FailKeeps ==
  ASSUME CaptureInv, FailOperation PROVE CaptureInv'
<1> DEFINE n == Len(open)
           s == open[n]
<1>1. /\ open' \in Seq(Savepoint) /\ Len(open') = n - 1 /\ n \in Nat \ {0} /\ n \in 1..n
      /\ \A i \in 1..(n - 1) : i \in 1..n /\ open'[i] = open[i]
      /\ Last(open) = s
  <2>1. open \in Seq(Savepoint) /\ open # <<>> /\ open' = Front(open)
    BY DEF CaptureInv, CaptureShape, FailOperation
  <2> QED BY <2>1, Dropped
<1> HIDE DEF s
<1>2. /\ open # <<>> /\ attiva' = (n # 1)
      /\ rows' = s.rows /\ triggers' = s.triggers /\ history' = s.history /\ cambi' = s.cambi
      /\ mine' = s.mine
      /\ UNCHANGED <<schema, versioni, told>>
  BY <1>1 DEF FailOperation, Restored
<1>3. s \in Savepoint
  BY <1>1 DEF CaptureInv, CaptureShape, s
<1>4. /\ s.triggers = Stored(schema) /\ s.history = history
      /\ Len(s.cambi) <= Len(cambi)
      /\ Account(s.rows, told, s.mine, history, s.cambi)
      /\ \A i \in 1..n : Len(open[i].cambi) <= Len(s.cambi)
  BY <1>1 DEF CaptureInv, Sessions, Accounts, s
<1>5. CaptureShape'
  <2>1. attiva' \in BOOLEAN
    BY <1>2
  <2>2. Len(cambi') <= MaxChanges /\ Len(open') <= MaxDepth
    <3>1. Len(s.cambi) \in Nat /\ Len(cambi) \in Nat
      BY <1>3 DEF Savepoint, CaptureInv, CaptureShape
    <3> QED BY <1>1, <1>2, <1>4, <3>1, CaptureAssumption
        DEF CaptureAssumption, CaptureInv, CaptureShape
  <2>3. /\ s.rows \in RecordValues /\ s.triggers \subseteq Record /\ s.history \in FieldValues
        /\ s.cambi \in Seq(ChangeEntry) /\ s.mine \in MineValues
    BY <1>3 DEF Savepoint
  <2> QED BY <1>1, <1>2, <2>1, <2>2, <2>3 DEF CaptureInv, CaptureShape
<1>6. Sessions'
  <2>1. (attiva <=> open # <<>>)'
    <3>1. CASE n = 1
      <4>1. ~attiva'
        BY <1>2, <3>1
      <4>2. Len(open') = 0
        BY <1>1, <3>1
      <4>3. open' = <<>>
        BY <1>1, <4>2
      <4> QED BY <4>1, <4>3
    <3>2. CASE n # 1
      <4>1. attiva'
        BY <1>2, <3>2
      <4>2. Len(open') # 0
        BY <1>1, <3>2
      <4>3. open' # <<>>
        BY <4>2
      <4> QED BY <4>1, <4>3
    <3> QED BY <3>1, <3>2
  <2>2. (open = <<>> => cambi = <<>>)'
    <3>1. SUFFICES ASSUME open' = <<>> PROVE cambi' = <<>>
      OBVIOUS
    <3>2. n = 1
      BY <1>1, <3>1
    <3> QED BY <1>2, <3>2 DEF CaptureInv, Sessions, s
  <2>3. (open # <<>> => versioni = schema /\ open[1].cambi = <<>>)'
    <3>1. SUFFICES ASSUME open' # <<>> PROVE versioni' = schema' /\ open'[1].cambi = <<>>
      OBVIOUS
    <3>2. 1 \in 1..(n - 1)
      BY <1>1, <3>1
    <3> QED BY <1>1, <1>2, <3>2 DEF CaptureInv, Sessions
  <2>4. (versioni # 0 => triggers = Stored(versioni))'
    <3>1. versioni' = schema
      BY <1>2 DEF CaptureInv, Sessions
    <3> QED BY <1>2, <1>4, <3>1 DEF Stored
  <2>5. (\A i \in 1..Len(open) : /\ open[i].triggers = Stored(schema)
                                 /\ open[i].history = history
                                 /\ Len(open[i].cambi) <= Len(cambi))'
    BY <1>1, <1>2, <1>4 DEF CaptureInv, Sessions, Stored
  <2>6. (\A i, j \in 1..Len(open) : i <= j => Len(open[i].cambi) <= Len(open[j].cambi))'
    BY <1>1 DEF CaptureInv, Sessions
  <2> QED BY <2>1, <2>2, <2>3, <2>4, <2>5, <2>6 DEF Sessions
<1>7. Accounts'
  BY <1>1, <1>2, <1>4 DEF CaptureInv, Accounts
<1> QED BY <1>5, <1>6, <1>7 DEF CaptureInv

\* Every step keeps the accounts.
LEMMA CaptureSteps ==
  ASSUME CaptureInv, [CaptureNext]_captureVars PROVE CaptureInv'
<1>1. CASE OpenOperation
  BY <1>1, OpenKeeps
<1>2. CASE CloseOperation
  BY <1>2, CloseKeeps
<1>3. CASE FailOperation
  BY <1>3, FailKeeps
<1>4. ASSUME NEW r \in Record, NEW v \in Content \cup {Absent, Empty}, WriteRecord(r, v)
      PROVE  CaptureInv'
  BY <1>4, WriteKeeps DEF WriteRecord, Changes, Statement
<1>5. ASSUME NEW r \in Record, NEW v \in Content \cup {Absent, Empty}, RemoteWrite(r, v)
      PROVE  CaptureInv'
  BY <1>5, RemoteKeeps
\* Of a record that INSERT OR REPLACE replaces the triggers see an insert.
<1>9. ASSUME NEW r \in Record, NEW v \in Content \cup {Absent, Empty}, ReplaceRecord(r, v)
      PROVE  CaptureInv'
  BY <1>9, WriteKeeps DEF ReplaceRecord
\* A migration comes between operations, and the next one sees it.
<1>6. CASE MigrateArchive
  <2>1. /\ open = <<>> /\ schema' = 2
        /\ UNCHANGED <<rows, versioni, triggers, attiva, cambi, open, history, told, mine>>
    BY <1>6 DEF MigrateArchive
  <2>2. Len(open) = 0
    BY <2>1
  <2>3. CaptureShape'
    BY <2>1 DEF CaptureInv, CaptureShape
  <2>4. Sessions'
    BY <2>1, <2>2 DEF CaptureInv, Sessions, Stored
  <2>5. Accounts'
    BY <2>1 DEF CaptureInv, Accounts
  <2> QED BY <2>3, <2>4, <2>5 DEF CaptureInv
\* A new archive object has no triggers and knows of no version.
<1>7. CASE ReopenArchive
  <2>1. /\ open = <<>> /\ versioni' = 0 /\ triggers' = {} /\ attiva' = FALSE /\ cambi' = <<>>
        /\ UNCHANGED <<rows, schema, open, history, told, mine>>
    BY <1>7 DEF ReopenArchive
  <2>2. Len(open) = 0 /\ cambi = <<>>
    BY <2>1, BetweenOperations
  <2>3. CaptureShape'
    <3>1. attiva' \in BOOLEAN /\ cambi' = cambi
      BY <2>1, <2>2
    <3>2. versioni' \in 0..2 /\ triggers' \subseteq Record
      BY <2>1
    <3> QED BY <2>1, <3>1, <3>2 DEF CaptureInv, CaptureShape
  <2>4. Sessions'
    BY <2>1, <2>2 DEF Sessions
  <2>5. Accounts'
    BY <2>1, <2>2 DEF CaptureInv, Accounts
  <2> QED BY <2>3, <2>4, <2>5 DEF CaptureInv
<1>8. CASE UNCHANGED captureVars
  BY <1>8 DEF captureVars, CaptureInv, CaptureShape, Sessions, Accounts, Stored
<1> QED BY <1>1, <1>2, <1>3, <1>4, <1>5, <1>6, <1>7, <1>8, <1>9 DEF CaptureNext

\* They hold always.
LEMMA CaptureHolds == CaptureSpec => []CaptureInv
<1>1. CaptureInit => CaptureInv
  BY CaptureStarts, CaptureAssumption
<1>2. CaptureInv /\ [CaptureNext]_captureVars => CaptureInv'
  BY CaptureSteps
<1> QED BY <1>1, <1>2, PTL DEF CaptureSpec

\* Between operations the history is that of the local changes that took
\* effect, whatever the nesting, the failures, the migrations and the reloads,
\* except for a field that INSERT OR REPLACE emptied (traccia of
\* change_capture.js, vociDi of field_audit).
THEOREM HistoryIsComplete == CaptureSpec => []HistoryTellsChanges
<1>1. CaptureInv => HistoryTellsChanges
  BY BetweenOperations DEF HistoryTellsChanges, Agrees
<1> QED BY <1>1, CaptureHolds, PTL

\* And the last block of every record tells the record as it is (inoltra).
THEOREM BlocksAreComplete == CaptureSpec => []BlocksTellRows
<1>1. CaptureInv => BlocksTellRows
  BY BetweenOperations DEF BlocksTellRows
<1> QED BY <1>1, CaptureHolds, PTL

\* Rows, logs and savepoints keep their types; no savepoint holds a longer log
\* than the one there is.
THEOREM CaptureTypes == CaptureSpec => []CaptureTypeOK
<1>1. CaptureInv => CaptureTypeOK
  <2> SUFFICES ASSUME CaptureInv PROVE CaptureTypeOK
    OBVIOUS
  <2>1. DOMAIN cambi = 1..Len(cambi) /\ DOMAIN open = 1..Len(open)
    BY DEF CaptureInv, CaptureShape
  <2>2. \A i \in 1..Len(cambi) : cambi[i] \in ChangeEntry
    BY DEF CaptureInv, CaptureShape
  <2>3. ASSUME NEW i \in 1..Len(open)
        PROVE  /\ open[i].rows \in RecordValues
               /\ open[i].history \in FieldValues
               /\ open[i].mine \in MineValues
               /\ open[i].triggers \subseteq Record
               /\ Len(open[i].cambi) <= Len(cambi)
    <3>1. open[i] \in Savepoint
      BY DEF CaptureInv, CaptureShape
    <3>2. Len(open[i].cambi) <= Len(cambi)
      BY DEF CaptureInv, Sessions
    <3> QED BY <3>1, <3>2 DEF Savepoint
  <2> QED BY <2>1, <2>2, <2>3 DEF CaptureTypeOK, CaptureInv, CaptureShape
<1> QED BY <1>1, CaptureHolds, PTL

-----------------------------------------------------------------------------
\* RowReplication

Tables == Rows \cup {NoRow}

\* The items that a block brings, and those of the blocks of S.
Brought(b) == IF b.kind # "UPSERT" THEN {} ELSE b.payload.array
Joined(bs, S) == UNION {Brought(bs[i]) : i \in S}

\* A row is a record of two fields, and none is the absence of the row.
LEMMA RowsAreRows ==
  ASSUME NEW row \in Rows
  PROVE  /\ row # NoRow
         /\ row.plain \in Value \cup {Null} /\ row.array \in SUBSET Item
         /\ \A other \in Rows : row.plain = other.plain /\ row.array = other.array
                                => row = other
<1>1. DOMAIN row = {"plain", "array"}
  BY DEF Rows
<1>2. "absent" \in DOMAIN NoRow /\ "absent" \notin {"plain", "array"}
  BY DEF NoRow
<1>3. row # NoRow
  BY <1>1, <1>2
<1>4. row.plain \in Value \cup {Null} /\ row.array \in SUBSET Item
  BY DEF Rows
<1>5. \A other \in Rows : row.plain = other.plain /\ row.array = other.array => row = other
  BY DEF Rows
<1> QED BY <1>3, <1>4, <1>5

\* A block is an upsert with a row, a deletion, or one of another record.
LEMMA TwoKinds ==
  ASSUME NEW b \in Block
  PROVE  /\ b.kind = "UPSERT" => b.payload \in Rows
         /\ {b.parents, b.past} \subseteq SUBSET Ids /\ b.writer \in Writer
BY DEF Block

\* _applyToTable of a block: a table stays one and its array takes the items.
LEMMA Applied ==
  ASSUME NEW row \in Tables, NEW b \in Block
  PROVE  /\ ApplyToTable(row, b) \in Tables
         /\ ApplyToTable(row, b).array = row.array \cup Brought(b)
         /\ b.kind # "UPSERT" => ApplyToTable(row, b) = row
         /\ b.kind = "UPSERT" =>
              /\ ApplyToTable(row, b) \in Rows
              /\ ApplyToTable(row, b).plain =
                   IF row = NoRow \/ row.plain = Null THEN b.payload.plain ELSE row.plain
<1>1. CASE b.kind # "UPSERT"
  <2>1. ApplyToTable(row, b) = row
    BY <1>1 DEF ApplyToTable
  <2>2. row.array = row.array \cup Brought(b)
    BY <1>1 DEF Brought
  <2> QED BY <1>1, <2>1, <2>2
<1>2. CASE b.kind = "UPSERT" /\ row = NoRow
  <2>1. ApplyToTable(row, b) = b.payload
    BY <1>2 DEF ApplyToTable
  <2>2. b.payload \in Rows
    BY <1>2, TwoKinds
  <2>3. row.array = {}
    BY <1>2 DEF NoRow
  <2>4. b.payload.array = row.array \cup Brought(b)
    BY <1>2, <2>3 DEF Brought
  <2> QED BY <1>2, <2>1, <2>2, <2>4 DEF Tables
<1>3. CASE b.kind = "UPSERT" /\ row # NoRow
  <2>1. ApplyToTable(row, b) = MergeFieldDeltas(row, b.payload)
    BY <1>3 DEF ApplyToTable
  <2>2. b.payload \in Rows /\ row \in Rows
    BY <1>3, TwoKinds DEF Tables
  <2> DEFINE new == MergeFieldDeltas(row, b.payload)
  <2>3. /\ new.plain = IF row.plain = Null THEN b.payload.plain ELSE row.plain
        /\ new.array = row.array \cup b.payload.array
    BY DEF MergeFieldDeltas
  <2>4. new \in Rows
    BY <2>2 DEF MergeFieldDeltas, Rows
  <2> HIDE DEF new
  <2>5. ApplyToTable(row, b) = new
    BY <2>1 DEF new
  <2> QED BY <1>3, <2>3, <2>4, <2>5 DEF Tables, Brought
<1> QED BY <1>1, <1>2, <1>3

\* Blocks applied one after the other.
LEMMA ApplyRun ==
  ASSUME NEW row \in Tables, NEW n \in Nat, NEW q \in [1..n -> 1..Len(blocks)],
         blocks \in Seq(Block)
  PROVE  \E f \in [0..n -> Tables] :
           /\ f[0] = row /\ f[n] = ApplyAll(row, q)
           /\ \A i \in 1..n : f[i] = ApplyToTable(f[i - 1], blocks[q[i]])
<1> DEFINE Solves(g) == g = [t \in SUBSET (1..n) |->
                               IF t = {} THEN row
                               ELSE ApplyToTable(g[t \ {Max(t)}], blocks[q[Max(t)]])]
           step == [i \in 1..n |-> [x \in Tables |-> ApplyToTable(x, blocks[q[i]])]]
           it == CHOOSE g : Solves(g)
<1>1. DOMAIN q = 1..n /\ \A i \in 1..n : blocks[q[i]] \in Block
  OBVIOUS
<1>2. ApplyAll(row, q) = it[1..n]
  BY <1>1 DEF ApplyAll, FoldLeft, MapThenFoldSet
<1>3. step \in StepsOver(n, Tables)
  BY <1>1, Applied DEF StepsOver
<1> HIDE DEF step
<1>4. \E g : Solves(g)
  <2>1. PICK g : FoldsOver(g, n, Tables, row, step)
    BY <1>3, FoldExists
  <2>2. ASSUME NEW t \in SUBSET (1..n), t # {}
        PROVE  g[t] = ApplyToTable(g[t \ {Max(t)}], blocks[q[Max(t)]])
    <3>1. PICK x \in t : \A y \in t : y <= x
      BY <2>2, MaxExists
    <3>2. \A y \in t : x >= y
      BY <3>1
    <3>3. Max(t) \in t
      BY <3>2 DEF Max
    <3>4. Max(t) \in 1..n /\ g[t \ {Max(t)}] \in Tables
      BY <2>1, <3>3 DEF FoldsOver
    <3>5. g[t] = step[Max(t)][g[t \ {Max(t)}]]
      BY <2>1, <2>2 DEF FoldsOver
    <3> QED BY <3>4, <3>5 DEF step
  <2>3. g \in [SUBSET (1..n) -> Tables] /\ g[{}] = row
    BY <2>1 DEF FoldsOver
  <2>4. Solves(g)
    BY <2>2, <2>3
  <2> QED BY <2>4
<1>5. Solves(it)
  <2> HIDE DEF Solves
  <2> QED BY <1>4
<1> HIDE DEF it
<1>6. it[1..0] = row
  <2>1. 1..0 = {} /\ {} \in SUBSET (1..n)
    OBVIOUS
  <2>2. it[{}] = row
    BY <1>5, <2>1
  <2> QED BY <2>1, <2>2
<1>7. ASSUME NEW i \in 1..n PROVE it[1..i] = ApplyToTable(it[1..(i - 1)], blocks[q[i]])
  <2> DEFINE t == 1..i
  <2>1. t \in SUBSET (1..n) /\ t # {} /\ Max(t) = i /\ t \ {i} = 1..(i - 1)
    BY FirstPositions
  <2>2. it[t] = IF t = {} THEN row ELSE ApplyToTable(it[t \ {Max(t)}], blocks[q[Max(t)]])
    BY <1>5, <2>1
  <2> QED BY <2>1, <2>2
<1>8. \A i \in 1..n : it[1..(i - 1)] \in Tables => it[1..i] = step[i][it[1..(i - 1)]]
  BY <1>7 DEF step
<1> HIDE DEF Solves
<1>9. PICK f : RunsOver(f, n, Tables, row, step) /\ f[n] = it[1..n]
  BY <1>3, <1>6, <1>8, FoldSteps
<1>10. ASSUME NEW i \in 1..n PROVE f[i] = ApplyToTable(f[i - 1], blocks[q[i]])
  <2>1. i - 1 \in 0..n
    OBVIOUS
  <2>2. f[i - 1] \in Tables
    BY <1>9, <2>1 DEF RunsOver
  <2>3. f[i] = step[i][f[i - 1]]
    BY <1>9 DEF RunsOver
  <2> QED BY <2>2, <2>3 DEF step
<1> QED BY <1>2, <1>9, <1>10 DEF RunsOver

\* A sequence of as many positions as S has elements, none of them twice, has
\* them all.
LEMMA AllThere ==
  ASSUME NEW n \in Nat, NEW S \in SUBSET (1..n), NEW q \in [1..Cardinality(S) -> S],
         \A i, j \in DOMAIN q : i < j => q[i] # q[j]
  PROVE  Cardinality(S) \in Nat /\ \A x \in S : \E i \in 1..Cardinality(S) : q[i] = x
<1> DEFINE c == Cardinality(S)
<1>1. IsFiniteSet(S)
  <2>1. IsFiniteSet(1..n)
    BY FS_Interval
  <2> QED BY <2>1, FS_Subset
<1>2. c \in Nat
  BY <1>1, FS_CardinalityType
<1>3. IsFiniteSet(1..c) /\ Cardinality(1..c) = c
  <2> HIDE DEF c
  <2>1. 1 \in Int /\ c \in Int
    BY <1>2
  <2>2. IsFiniteSet(1..c) /\ Cardinality(1..c) = IF 1 > c THEN 0 ELSE c - 1 + 1
    BY <2>1, FS_Interval
  <2> QED BY <1>2, <2>2
<1>4. q \in Injection(1..c, S)
  <2>1. \A i, j \in 1..c : q[i] = q[j] => i = j
    <3> TAKE i, j \in 1..c
    <3>1. i < j \/ j < i \/ i = j
      BY <1>2
    <3>2. i \in DOMAIN q /\ j \in DOMAIN q
      OBVIOUS
    <3> QED BY <3>1, <3>2
  <2>2. q \in [1..c -> S]
    OBVIOUS
  <2> HIDE DEF c
  <2> QED BY <2>1, <2>2 DEF Injection, IsInjective
<1>5. q \in Surjection(1..c, S)
  <2> HIDE DEF c
  <2>1. Cardinality(1..c) = Cardinality(S)
    BY <1>3 DEF c
  <2> QED BY <1>1, <1>4, <2>1, FS_Injection
<1> QED BY <1>2, <1>5 DEF Surjection

\* The blocks of S are told by row: it is there once one of them brings it, and
\* its plain field is the one of the first that brings a value.
Told(bs, row, S) ==
  /\ (\A i \in S : bs[i].kind # "UPSERT") => row = NoRow
  /\ (\E i \in S : bs[i].kind = "UPSERT") => row \in Rows
  /\ (\A i \in S : bs[i].kind = "UPSERT" => bs[i].payload.plain = Null)
       => (row \in Rows => row.plain = Null)
  /\ \A i \in S :
       (/\ bs[i].kind = "UPSERT" /\ bs[i].payload.plain # Null
        /\ \A j \in S : j < i /\ bs[j].kind = "UPSERT" => bs[j].payload.plain = Null)
       => row.plain = bs[i].payload.plain

\* Two tables that the same blocks tell, with the same items, are the same.
LEMMA ToldOnce ==
  ASSUME NEW bs, NEW S \in SUBSET Nat, NEW row \in Tables, NEW other \in Tables,
         Told(bs, row, S), Told(bs, other, S), row.array = other.array
  PROVE  row = other
<1>1. CASE \A i \in S : bs[i].kind # "UPSERT"
  BY <1>1 DEF Told
<1>2. CASE \E i \in S : bs[i].kind = "UPSERT"
  <2>1. row \in Rows /\ other \in Rows
    BY <1>2 DEF Told
  <2> DEFINE P == {i \in S : bs[i].kind = "UPSERT" /\ bs[i].payload.plain # Null}
  <2>2. CASE P = {}
    <3>1. \A i \in S : bs[i].kind = "UPSERT" => bs[i].payload.plain = Null
      BY <2>2
    <3>2. row.plain = Null /\ other.plain = Null
      BY <2>1, <3>1 DEF Told
    <3> QED BY <2>1, <3>2, RowsAreRows
  <2>3. CASE P # {}
    <3>1. P \in SUBSET Nat
      OBVIOUS
    <3>2. PICK k \in P : \A i \in P : k <= i
      <4> HIDE DEF P
      <4> QED BY <2>3, <3>1, MinExists
    <3>3. ASSUME NEW j \in S, j < k, bs[j].kind = "UPSERT" PROVE bs[j].payload.plain = Null
      <4>1. j \in Nat /\ k \in Nat
        BY <3>1, <3>2, <3>3
      <4>2. ~(k <= j)
        BY <3>3, <4>1
      <4>3. j \notin P
        BY <3>2, <4>2
      <4> QED BY <3>3, <4>3
    <3>4. k \in S /\ bs[k].kind = "UPSERT" /\ bs[k].payload.plain # Null
      BY <3>2
    <3>5. row.plain = bs[k].payload.plain /\ other.plain = bs[k].payload.plain
      BY <3>3, <3>4 DEF Told
    <3> QED BY <2>1, <3>5, RowsAreRows
  <2> QED BY <2>2, <2>3
<1> QED BY <1>1, <1>2

\* A block that comes after the upserts of S, if it is one, is told with them once it is applied.
LEMMA ToldNext ==
  ASSUME NEW bs, NEW S \in SUBSET Nat, NEW k \in Nat,
         bs[k].kind = "UPSERT" => \A i \in S : bs[i].kind = "UPSERT" => i < k,
         NEW row \in Tables, bs[k] \in Block, Told(bs, row, S)
  PROVE  Told(bs, ApplyToTable(row, bs[k]), S \cup {k})
<1> DEFINE b == bs[k]
           new == ApplyToTable(row, b)
           T == S \cup {k}
<1>1. /\ b.kind # "UPSERT" => new = row
      /\ b.kind = "UPSERT" => /\ new \in Rows
                              /\ new.plain = IF row = NoRow \/ row.plain = Null
                                             THEN b.payload.plain ELSE row.plain
  BY Applied
<1>2. CASE b.kind # "UPSERT"
  <2>1. new = row
    BY <1>1, <1>2
  <2> HIDE DEF new
  <2>2. Told(bs, new, T)
    BY <1>2, <2>1 DEF Told
  <2> QED BY <2>2 DEF new
<1>3. CASE b.kind = "UPSERT"
  <2>1. new \in Rows /\ new # NoRow
    BY <1>1, <1>3, RowsAreRows
  <2>2. new.plain = IF row = NoRow \/ row.plain = Null THEN b.payload.plain ELSE row.plain
    BY <1>1, <1>3
  <2> HIDE DEF new
  <2>3. (\A i \in S : bs[i].kind = "UPSERT" => bs[i].payload.plain = Null)
          => new.plain = b.payload.plain
    BY <2>2 DEF Told, Tables
  <2>4. (\A i \in T : bs[i].kind = "UPSERT" => bs[i].payload.plain = Null) => new.plain = Null
    BY <1>3, <2>3
  <2>5. ASSUME NEW i \in T, bs[i].kind = "UPSERT", bs[i].payload.plain # Null,
               \A j \in T : j < i /\ bs[j].kind = "UPSERT" => bs[j].payload.plain = Null
        PROVE  new.plain = bs[i].payload.plain
    <3>1. CASE i = k
      <4>1. \A j \in S : bs[j].kind = "UPSERT" => bs[j].payload.plain = Null
        BY <2>5, <3>1
      <4> QED BY <2>3, <3>1, <4>1
    <3>2. CASE i # k
      <4>1. i \in S
        BY <3>2
      <4>2. row.plain = bs[i].payload.plain
        BY <2>5, <4>1 DEF Told
      <4>3. row \in Rows /\ row # NoRow
        BY <2>5, <4>1, RowsAreRows DEF Told
      <4> QED BY <2>2, <2>5, <4>2, <4>3
    <3> QED BY <3>1, <3>2
  <2>6. k \in T
    OBVIOUS
  <2> HIDE DEF T
  <2>7. Told(bs, new, T)
    BY <1>3, <2>1, <2>4, <2>5, <2>6 DEF Told
  <2> QED BY <2>7 DEF new, T
<1> QED BY <1>2, <1>3

BothWrite(i, j) == blocks[i].kind = "UPSERT" /\ blocks[j].kind = "UPSERT"

\* Applying the blocks of S one after the other joins their items; when the
\* upserts come in the order of their making and after those of A, it tells
\* them all.
LEMMA ApplyAllTells ==
  ASSUME blocks \in Seq(Block), NEW row \in Tables,
         NEW n \in Nat, NEW q \in [1..n -> 1..Len(blocks)]
  PROVE  /\ ApplyAll(row, q) \in Tables
         /\ ApplyAll(row, q).array = row.array \cup Joined(blocks, Range(q))
         /\ \A A \in SUBSET (1..Len(blocks)) :
              (/\ Told(blocks, row, A)
               /\ \A i \in A, j \in 1..n : BothWrite(i, q[j]) => i < q[j]
               /\ \A i, j \in 1..n : i < j /\ BothWrite(q[i], q[j]) => q[i] < q[j])
              => Told(blocks, ApplyAll(row, q), A \cup Range(q))
<1>1. PICK f \in [0..n -> Tables] :
         /\ f[0] = row /\ f[n] = ApplyAll(row, q)
         /\ \A i \in 1..n : f[i] = ApplyToTable(f[i - 1], blocks[q[i]])
  BY ApplyRun
<1>2. \A i \in 1..n : blocks[q[i]] \in Block
  OBVIOUS
<1>3. \A i \in 1..n : q[i] \in Nat
  OBVIOUS
<1> DEFINE Done(i) == {q[j] : j \in 1..i}
<1>4. Done(0) = {}
  OBVIOUS
<1>5. \A i \in 1..n : Done(i) = Done(i - 1) \cup {q[i]}
  BY <1>1
<1> HIDE DEF Done
<1>7. f[n].array = row.array \cup Joined(blocks, Done(n))
  <2> DEFINE X == {i \in 0..n : f[i].array = row.array \cup Joined(blocks, Done(i))}
  <2>1. 0 \in X /\ 0 \in Nat /\ n \in 0..n
    BY <1>1, <1>4 DEF Joined
  <2>2. ASSUME NEW i \in 0..n, i # n, i \in X PROVE i + 1 \in X
    <3>1. PICK j \in 1..n : j = i + 1
      BY <1>1, <2>2
    <3>2. j - 1 = i /\ j \in 0..n /\ i \in 0..n
      BY <1>1, <3>1
    <3>3. f[j].array = f[i].array \cup Brought(blocks[q[j]])
      <4>1. f[j] = ApplyToTable(f[i], blocks[q[j]])
        BY <1>1, <3>2
      <4>2. f[i] \in Tables /\ blocks[q[j]] \in Block
        BY <1>1, <1>2, <3>2
      <4>3. ApplyToTable(f[i], blocks[q[j]]).array = f[i].array \cup Brought(blocks[q[j]])
        BY ONLY <4>2, Applied
      <4> QED BY <4>1, <4>3
    <3>4. Done(j) = Done(i) \cup {q[j]}
      BY <1>5, <3>2
    <3>5. Joined(blocks, Done(j)) = Joined(blocks, Done(i)) \cup Brought(blocks[q[j]])
      BY <3>4 DEF Joined
    <3>6. f[i].array = row.array \cup Joined(blocks, Done(i))
      BY <2>2
    <3>7. j \in X
      BY <3>2, <3>3, <3>5, <3>6
    <3> QED BY <3>1, <3>7
  <2> HIDE DEF X
  <2>3. n \in X
    BY <1>1, <2>1, <2>2, IntervalInduction
  <2> QED BY <2>3 DEF X
<1>8. ASSUME NEW A \in SUBSET (1..Len(blocks)), Told(blocks, row, A),
             \A i \in A, j \in 1..n : BothWrite(i, q[j]) => i < q[j],
             \A i, j \in 1..n : i < j /\ BothWrite(q[i], q[j]) => q[i] < q[j]
      PROVE  Told(blocks, f[n], A \cup Done(n))
  <2> DEFINE X == {i \in 0..n : Told(blocks, f[i], A \cup Done(i))}
  <2>1. 0 \in X /\ 0 \in Nat /\ n \in 0..n
    <3>1. A \cup Done(0) = A
      BY <1>4
    <3>2. Told(blocks, f[0], A \cup Done(0))
      BY <1>1, <1>8, <3>1
    <3>3. 0 \in 0..n /\ 0 \in Nat /\ n \in 0..n
      OBVIOUS
    <3> QED BY <3>2, <3>3
  <2>2. ASSUME NEW i \in 0..n, i # n, i \in X PROVE i + 1 \in X
    <3>1. PICK j \in 1..n : j = i + 1
      BY <1>1, <2>2
    <3>2. j - 1 = i /\ j \in 0..n /\ i \in 0..n
      BY <1>1, <3>1
    <3> DEFINE B == A \cup Done(i)
    <3>3. \A m \in 1..i : m \in 1..n /\ m < j
      BY <3>1
    <3>4. B \in SUBSET Nat /\ q[j] \in Nat
      <4>1. \A x \in Done(i) : x \in Nat
        BY <1>3, <3>3 DEF Done
      <4>2. \A x \in A : x \in Nat
        OBVIOUS
      <4>3. q[j] \in Nat
        BY <1>3
      <4> QED BY <4>1, <4>2, <4>3
    <3>5. \A x \in B : BothWrite(x, q[j]) => x < q[j]
      <4>1. \A x \in A : BothWrite(x, q[j]) => x < q[j]
        BY <1>8, <3>4
      <4>2. ASSUME NEW x \in Done(i), BothWrite(x, q[j]) PROVE x < q[j]
        <5>1. PICK m \in 1..i : x = q[m]
          BY <4>2 DEF Done
        <5>2. m \in 1..n /\ m < j
          BY <3>3
        <5> QED BY <1>8, <4>2, <5>1, <5>2
      <4> QED BY <4>1, <4>2
    <3>6. f[j] = ApplyToTable(f[i], blocks[q[j]]) /\ f[i] \in Tables
      BY <1>1, <3>2
    <3>7. Told(blocks, f[i], B)
      BY <2>2
    <3> HIDE DEF B
    <3>8. Told(blocks, f[j], B \cup {q[j]})
      <4>1. blocks[q[j]] \in Block
        BY <1>2
      <4>2. Told(blocks, ApplyToTable(f[i], blocks[q[j]]), B \cup {q[j]})
        <5>1. blocks[q[j]].kind = "UPSERT" =>
                \A x \in B : blocks[x].kind = "UPSERT" => x < q[j]
          BY <3>5 DEF BothWrite
        <5> QED BY <3>4, <3>6, <3>7, <4>1, <5>1, ToldNext
      <4> QED BY <3>6, <4>2
    <3>9. B \cup {q[j]} = A \cup Done(j)
      BY <1>5, <3>2 DEF B
    <3>10. j \in X
      BY <3>2, <3>8, <3>9
    <3> QED BY <3>1, <3>10
  <2> HIDE DEF X
  <2>3. n \in X
    BY <1>1, <2>1, <2>2, IntervalInduction
  <2> QED BY <2>3 DEF X
<1>9. f[n] \in Tables
  <2>1. n \in 0..n
    OBVIOUS
  <2> QED BY <1>1, <2>1
<1>10. Done(n) = Range(q)
  BY DEF Done, Range
<1> QED BY <1>1, <1>7, <1>8, <1>9, <1>10

\* The same for the blocks of S in any order that has each of them once.
LEMMA ApplyOrdered ==
  ASSUME blocks \in Seq(Block), NEW row \in Tables, NEW S \in SUBSET (1..Len(blocks)),
         NEW q \in [1..Cardinality(S) -> S], \A i, j \in DOMAIN q : i < j => q[i] # q[j]
  PROVE  /\ ApplyAll(row, q) \in Tables
         /\ ApplyAll(row, q).array = row.array \cup Joined(blocks, S)
         /\ \A A \in SUBSET (1..Len(blocks)) :
              (/\ Told(blocks, row, A)
               /\ \A i \in A, j \in S : BothWrite(i, j) => i < j
               /\ \A i, j \in DOMAIN q : i < j /\ BothWrite(q[i], q[j]) => q[i] < q[j])
              => Told(blocks, ApplyAll(row, q), A \cup S)
<1>1. Len(blocks) \in Nat
  OBVIOUS
<1>2. Cardinality(S) \in Nat /\ \A x \in S : \E i \in 1..Cardinality(S) : q[i] = x
  BY <1>1, AllThere
<1>3. PICK n : n = Cardinality(S)
  OBVIOUS
<1>4. n \in Nat /\ q \in [1..n -> S] /\ \A x \in S : \E i \in 1..n : q[i] = x
  BY <1>2, <1>3
<1>5. Range(q) = S /\ DOMAIN q = 1..n
  <2>1. DOMAIN q = 1..n /\ \A i \in 1..n : q[i] \in S
    BY <1>4
  <2>2. \A x : x \in Range(q) <=> x \in S
    BY <1>4, <2>1 DEF Range
  <2> QED BY <2>1, <2>2
<1>6. q \in [1..n -> 1..Len(blocks)]
  BY <1>4
<1>7. /\ ApplyAll(row, q) \in Tables
      /\ ApplyAll(row, q).array = row.array \cup Joined(blocks, Range(q))
      /\ \A A \in SUBSET (1..Len(blocks)) :
              (/\ Told(blocks, row, A)
               /\ \A i \in A, j \in 1..n : BothWrite(i, q[j]) => i < q[j]
               /\ \A i, j \in 1..n : i < j /\ BothWrite(q[i], q[j]) => q[i] < q[j])
              => Told(blocks, ApplyAll(row, q), A \cup Range(q))
  BY <1>4, <1>6, ApplyAllTells
<1>8. ASSUME NEW A \in SUBSET (1..Len(blocks)), Told(blocks, row, A),
             \A i \in A, j \in S : BothWrite(i, j) => i < j,
             \A i, j \in DOMAIN q : i < j /\ BothWrite(q[i], q[j]) => q[i] < q[j]
      PROVE  Told(blocks, ApplyAll(row, q), A \cup S)
  <2>1. \A i \in A, j \in 1..n : BothWrite(i, q[j]) => i < q[j]
    BY <1>4, <1>8
  <2>2. \A i, j \in 1..n : i < j /\ BothWrite(q[i], q[j]) => q[i] < q[j]
    BY <1>5, <1>8
  <2>3. Told(blocks, ApplyAll(row, q), A \cup Range(q))
    BY <1>7, <1>8, <2>1, <2>2
  <2> QED BY <1>5, <2>3
<1> QED BY <1>5, <1>7, <1>8

\* The blocks of S descend from none that is not in it.
Closed(bs, S) == \A j \in S : bs[j].past \subseteq S

\* A block descends from its parents and from what they descend from, all of
\* it made before.
Backward ==
  \A i \in 1..Len(blocks) :
    /\ blocks[i].parents \subseteq blocks[i].past /\ blocks[i].past \subseteq 1..(i - 1)
    /\ Closed(blocks, blocks[i].past)
    /\ \A j \in blocks[i].past :
         j \in blocks[i].parents \/ \E p \in blocks[i].parents : j \in blocks[p].past

\* A log holds what was applied.
Kept == \A n \in Node : applied[n] \subseteq present[n]

\* On a node that only received blocks the array of the row has the items of
\* those applied there.
Arrays == \A n \in Readers : table[n].array = Joined(blocks, applied[n])

\* With one writer of the row who knew what it had written and no preset row,
\* the blocks applied on a reader without a gap are closed and tell its row.
Quiet ==
  /\ ~preset /\ InTurn
  /\ \A i, j \in Upserts : blocks[i].writer = blocks[j].writer
Plains ==
  Quiet => \A n \in Readers \ gapped :
             Closed(blocks, applied[n]) /\ Told(blocks, table[n], applied[n])

RowsInv == RowTypeOK /\ Backward /\ Kept /\ Arrays /\ Plains

LEMMA RowsInitially == ASSUME RowInit PROVE RowsInv
<1> USE RowsAssumption
<1>1. Default \in Rows /\ Default.array = {} /\ NoRow.array = {}
  BY DEF Default, Rows, NoRow
<1>2. Len(blocks) = 0 /\ blocks \in Seq(Block)
  BY DEF RowInit
<1>3. RowTypeOK
  <2>1. /\ present \in [Node -> SUBSET (1..Len(blocks))] /\ applied \in [Node -> SUBSET (1..Len(blocks))]
        /\ tips \in [Node -> SUBSET (1..Len(blocks))] /\ sealed \in [Node -> SUBSET (1..Len(blocks))]
    BY DEF RowInit
  <2>2. table \in [Node -> Rows \cup {NoRow}]
    BY <1>1 DEF RowInit
  <2>3. imports \in 0..MaxImports /\ gapped \subseteq Node
    BY DEF RowInit
  <2>4. preset \in BOOLEAN
    BY Zenon DEF RowInit
  <2> QED BY <1>2, <2>1, <2>2, <2>3, <2>4 DEF RowTypeOK
<1>4. Backward
  BY <1>2 DEF Backward
<1>5. Kept
  BY DEF RowInit, Kept
<1>6. Arrays
  <2>1. ASSUME NEW n \in Readers PROVE table[n].array = {} /\ applied[n] = {}
    BY <1>1 DEF RowInit, Readers
  <2> QED BY <2>1 DEF Arrays, Joined
<1>7. Plains
  <2>1. Told(blocks, NoRow, {})
    BY DEF Told, NoRow
  <2>2. ~preset => \A n \in Readers : table[n] = NoRow /\ applied[n] = {}
    BY DEF RowInit, Readers
  <2> QED BY <2>1, <2>2 DEF Plains, Quiet, Closed
<1> QED BY <1>3, <1>4, <1>5, <1>6, <1>7 DEF RowsInv

\* A local write.
LEMMA WriteKeepsRows ==
  ASSUME RowsInv, NEW n \in Writer, NEW b, NEW row \in Tables, WriteRow(n, b, row),
         b \in Block, b.writer = n, b.parents = tips[n], b.past = Past(n)
  PROVE  RowsInv'
<1> USE RowsAssumption
<1>1. RowTypeOK
  BY DEF RowsInv
<1> DEFINE k == Len(blocks)
<1>2. /\ blocks \in Seq(Block) /\ k \in Nat /\ k < MaxWrites
      /\ blocks' \in Seq(Block) /\ Len(blocks') = k + 1
      /\ blocks'[k + 1] = b /\ \A i \in 1..k : blocks'[i] = blocks[i]
  <2>1. blocks \in Seq(Block) /\ imports \in Nat
    BY <1>1 DEF RowTypeOK
  <2>2. blocks' = Append(blocks, b) /\ k + imports < MaxWrites
    BY DEF WriteRow
  <2> QED BY <2>1, <2>2
<1>3. n \in Node /\ k + 1 \in 1..(k + 1) /\ 1..k \subseteq 1..(k + 1)
  BY <1>2
<1> HIDE DEF k
<1>4. \A i \in 1..(k + 1) : i \in 1..k \/ i = k + 1
  BY <1>2
<1>5. 1..Len(blocks) = 1..k /\ 1..Len(blocks') = 1..(k + 1)
  BY <1>2 DEF k
<1>6. /\ present \in [Node -> SUBSET (1..k)] /\ applied \in [Node -> SUBSET (1..k)]
      /\ tips \in [Node -> SUBSET (1..k)] /\ sealed \in [Node -> SUBSET (1..k)]
      /\ table \in [Node -> Rows \cup {NoRow}]
  BY <1>1 DEF RowTypeOK, k
<1>7. /\ present' = [present EXCEPT ![n] = @ \cup {k + 1}]
      /\ tips' = [tips EXCEPT ![n] = {k + 1}]
      /\ applied' = [applied EXCEPT ![n] = @ \cup {k + 1}]
      /\ sealed' = [sealed EXCEPT ![n] = @ \cup {k + 1}]
      /\ table' = [table EXCEPT ![n] = row]
      /\ UNCHANGED <<preset, imports, gapped>>
  BY DEF WriteRow, k
<1>8. RowTypeOK'
  <2>1. present' \in [Node -> SUBSET (1..(k + 1))] /\ applied' \in [Node -> SUBSET (1..(k + 1))]
    BY <1>3, <1>6, <1>7
  <2>2. tips' \in [Node -> SUBSET (1..(k + 1))] /\ sealed' \in [Node -> SUBSET (1..(k + 1))]
    BY <1>3, <1>6, <1>7
  <2>3. table' \in [Node -> Rows \cup {NoRow}]
    BY <1>3, <1>6, <1>7 DEF Tables
  <2>4. k + 1 <= MaxWrites
    BY <1>2
  <2> QED BY <1>1, <1>2, <1>5, <1>7, <2>1, <2>2, <2>3, <2>4 DEF RowTypeOK
<1>9. Backward'
  <2> DEFINE Back(bs, i) ==
               /\ bs[i].parents \subseteq bs[i].past /\ bs[i].past \subseteq 1..(i - 1)
               /\ Closed(bs, bs[i].past)
               /\ \A j \in bs[i].past :
                    j \in bs[i].parents \/ \E p \in bs[i].parents : j \in bs[p].past
  <2>1. \A i \in 1..k : Back(blocks, i)
    BY <1>5 DEF RowsInv, Backward
  <2>2. ASSUME NEW i \in 1..k PROVE Back(blocks', i)
    <3>1. Back(blocks, i) /\ blocks'[i] = blocks[i]
      BY <1>2, <2>1
    <3>2. \A j \in blocks[i].past : j \in 1..k
      BY <1>2, <3>1
    <3>3. \A j \in blocks[i].past : blocks'[j] = blocks[j]
      BY <1>2, <3>2
    <3>4. Closed(blocks', blocks[i].past)
      BY <3>1, <3>3 DEF Closed
    <3> QED BY <3>1, <3>3, <3>4
  <2>3. Back(blocks', k + 1)
    <3>1. b.past = tips[n] \cup UNION {blocks[i].past : i \in tips[n]} /\ b.parents = tips[n]
      BY DEF Past
    <3>2. tips[n] \in SUBSET (1..k)
      BY <1>3, <1>6
    <3>3. \A i \in tips[n] : blocks'[i] = blocks[i] /\ Back(blocks, i)
      BY <1>2, <2>1, <3>2
    <3>4. b.past \subseteq 1..k
      <4>1. ASSUME NEW i \in tips[n], NEW j \in blocks[i].past PROVE j \in 1..k
        <5>1. i \in 1..k /\ j \in 1..(i - 1)
          BY <3>2, <3>3
        <5> QED BY <1>2, <5>1
      <4> QED BY <3>1, <3>2, <4>1
    <3>5. ASSUME NEW j \in b.past PROVE blocks'[j].past \subseteq b.past
      <4>1. blocks'[j] = blocks[j]
        BY <1>2, <3>4
      <4>2. CASE j \in tips[n]
        BY <3>1, <4>1, <4>2
      <4>3. CASE \E i \in tips[n] : j \in blocks[i].past
        <5>1. PICK i \in tips[n] : j \in blocks[i].past
          BY <4>3
        <5>2. blocks[j].past \subseteq blocks[i].past
          BY <3>3, <5>1 DEF Closed
        <5> QED BY <3>1, <4>1, <5>1, <5>2
      <4> QED BY <3>1, <4>2, <4>3
    <3>6. Closed(blocks', b.past)
      BY <3>5 DEF Closed
    <3>7. \A j \in b.past : j \in b.parents \/ \E p \in b.parents : j \in blocks'[p].past
      BY <3>1, <3>3
    <3>8. blocks'[k + 1] = b /\ (k + 1) - 1 = k
      BY <1>2
    <3> QED BY <3>1, <3>4, <3>6, <3>7, <3>8
  <2> QED BY <1>4, <1>5, <2>2, <2>3 DEF Backward
<1>10. Kept'
  BY <1>3, <1>6, <1>7 DEF RowsInv, Kept
<1>11. \A m \in Readers' : /\ m # n /\ m \in Readers
                           /\ applied'[m] = applied[m] /\ table'[m] = table[m]
                           /\ applied[m] \in SUBSET (1..k)
  <2> TAKE m \in Readers'
  <2>1. m \in Node /\ sealed'[m] = {}
    BY DEF Readers
  <2>2. m # n /\ sealed[m] = {}
    BY <1>3, <1>6, <1>7, <2>1
  <2> QED BY <1>6, <1>7, <2>1, <2>2 DEF Readers
<1>12. Arrays'
  <2>1. ASSUME NEW m \in Readers' PROVE table'[m].array = Joined(blocks', applied'[m])
    <3>1. Joined(blocks', applied[m]) = Joined(blocks, applied[m])
      BY <1>2, <1>11 DEF Joined
    <3>2. table[m].array = Joined(blocks, applied[m])
      BY <1>11 DEF RowsInv, Arrays
    <3> QED BY <1>11, <3>1, <3>2
  <2> QED BY <2>1 DEF Arrays
<1>13. Plains'
  <2> SUFFICES ASSUME Quiet', NEW m \in Readers' \ gapped
               PROVE  Closed(blocks', applied'[m]) /\ Told(blocks', table'[m], applied'[m])
    BY <1>7 DEF Plains
  <2>1. Quiet
    <3>1. \A i \in Upserts : i \in Upserts' /\ blocks'[i] = blocks[i]
      BY <1>2, <1>3, <1>5 DEF Upserts
    <3> QED BY <1>7, <3>1 DEF Quiet, InTurn
  <2>2. Closed(blocks, applied[m]) /\ Told(blocks, table[m], applied[m])
    BY <1>11, <2>1 DEF RowsInv, Plains
  <2>3. applied[m] \in SUBSET (1..k) /\ applied'[m] = applied[m] /\ table'[m] = table[m]
    BY <1>11
  <2>4. \A i \in applied[m] : blocks'[i] = blocks[i]
    BY <1>2, <2>3
  <2>5. Closed(blocks', applied[m])
    BY <2>2, <2>4 DEF Closed
  <2>6. Told(blocks', table[m], applied[m])
    BY <2>2, <2>4 DEF Told
  <2> QED BY <2>3, <2>5, <2>6
<1> QED BY <1>8, <1>9, <1>10, <1>12, <1>13 DEF RowsInv

\* Blocks arrive: when nothing is applied ahead of what it descends from, the
\* upserts that can be applied now were made after those that are.
LEMMA ReceiveKeepsRows ==
  ASSUME RowsInv, NEW n \in Node, NEW m \in Node, Receive(n, m)
  PROVE  RowsInv'
<1> USE RowsAssumption
<1>1. RowTypeOK /\ Backward /\ Kept /\ Arrays /\ Plains
  BY DEF RowsInv
<1>2. blocks \in Seq(Block) /\ Len(blocks) \in Nat
  BY <1>1 DEF RowTypeOK
<1>3. PICK all, waiting, left, q :
        /\ present[n] \subseteq all /\ all \subseteq present[n] \cup present[m]
        /\ waiting = {i \in all \ applied[n] : CanApply(i, all)}
        /\ present' = [present EXCEPT ![n] = all]
        /\ left \subseteq tips[n] \cup present[m] /\ tips' = [tips EXCEPT ![n] = left]
        /\ applied' = [applied EXCEPT ![n] = @ \cup waiting]
        /\ q \in TimeOrders(waiting)
        /\ table' = [table EXCEPT ![n] = ApplyAll(@, q)]
        /\ gapped' = IF \E i \in waiting : ~(blocks[i].past \subseteq all)
                     THEN gapped \cup {n} ELSE gapped
        /\ UNCHANGED <<blocks, preset, imports, sealed>>
  <2>1. PICK S \in SUBSET (present[m] \ present[n]) :
          LET all == present[n] \cup S
              waiting == {i \in all \ applied[n] : CanApply(i, all)}
          IN /\ present' = [present EXCEPT ![n] = all]
             /\ \E left \in TipsAfter(tips[n], S) : tips' = [tips EXCEPT ![n] = left]
             /\ applied' = [applied EXCEPT ![n] = @ \cup waiting]
             /\ \E q \in TimeOrders(waiting) : table' = [table EXCEPT ![n] = ApplyAll(@, q)]
             /\ gapped' = IF \E i \in waiting : ~(blocks[i].past \subseteq all)
                          THEN gapped \cup {n} ELSE gapped
             /\ UNCHANGED <<blocks, preset, imports, sealed>>
    BY DEF Receive
  <2> DEFINE all == present[n] \cup S
             waiting == {i \in all \ applied[n] : CanApply(i, all)}
  <2>2. PICK q \in TimeOrders(waiting) : table' = [table EXCEPT ![n] = ApplyAll(@, q)]
    BY <2>1
  <2>3. PICK left \in TipsAfter(tips[n], S) : tips' = [tips EXCEPT ![n] = left]
    BY <2>1
  <2>4. left \subseteq tips[n] \cup S
    BY DEF TipsAfter, MoreTips
  <2>5. present[n] \subseteq all /\ all \subseteq present[n] \cup present[m]
    OBVIOUS
  <2>6. left \subseteq tips[n] \cup present[m]
    BY <2>4
  <2> WITNESS all, waiting, left, q
  <2> QED BY <2>1, <2>2, <2>3, <2>5, <2>6
<1>4. Upserts' = Upserts /\ Readers' = Readers
  BY <1>3 DEF Upserts, Readers
<1>5. /\ present \in [Node -> SUBSET (1..Len(blocks))] /\ tips \in [Node -> SUBSET (1..Len(blocks))]
      /\ applied \in [Node -> SUBSET (1..Len(blocks))] /\ table \in [Node -> Tables]
      /\ sealed \in [Node -> SUBSET (1..Len(blocks))] /\ gapped \subseteq Node
  BY <1>1 DEF RowTypeOK, Tables
<1>6. all \in SUBSET (1..Len(blocks)) /\ waiting \in SUBSET (1..Len(blocks))
  BY <1>3, <1>5
<1>7. /\ q \in [1..Cardinality(waiting) -> waiting]
      /\ \A i, j \in DOMAIN q : i < j => q[i] # q[j]
      /\ \A i, j \in DOMAIN q : i < j =>
           ~(q[j] < q[i] /\ blocks[q[j]].writer = blocks[q[i]].writer)
  BY <1>3 DEF TimeOrders, Arranged
<1> DEFINE row == table[n]
           new == ApplyAll(row, q)
<1>8. /\ new \in Tables
      /\ new.array = row.array \cup Joined(blocks, waiting)
      /\ \A A \in SUBSET (1..Len(blocks)) :
              (/\ Told(blocks, row, A)
               /\ \A i \in A, j \in waiting : BothWrite(i, j) => i < j
               /\ \A i, j \in DOMAIN q : i < j /\ BothWrite(q[i], q[j]) => q[i] < q[j])
              => Told(blocks, new, A \cup waiting)
  <2>1. row \in Tables
    BY <1>5
  <2> HIDE DEF row
  <2> QED BY <1>2, <1>6, <1>7, <2>1, ApplyOrdered
<1> HIDE DEF new
<1>9. /\ applied'[n] = applied[n] \cup waiting /\ table'[n] = new
      /\ \A k \in Node \ {n} : applied'[k] = applied[k] /\ table'[k] = table[k]
  BY <1>3, <1>5 DEF new
<1>10. RowTypeOK'
  <2>1. applied[n] \cup waiting \in SUBSET (1..Len(blocks))
    BY <1>5, <1>6
  <2>2. left \in SUBSET (1..Len(blocks))
    BY <1>3, <1>5
  <2>3. /\ present' \in [Node -> SUBSET (1..Len(blocks))] /\ applied' \in [Node -> SUBSET (1..Len(blocks))]
        /\ tips' \in [Node -> SUBSET (1..Len(blocks))]
    BY <1>3, <1>5, <1>6, <2>1, <2>2
  <2>4. table' \in [Node -> Rows \cup {NoRow}]
    BY <1>3, <1>5, <1>8 DEF new, Tables
  <2>5. gapped' \subseteq Node
    BY <1>3, <1>5
  <2> QED BY <1>1, <1>3, <2>3, <2>4, <2>5 DEF RowTypeOK
<1>11. Backward'
  BY <1>1, <1>3 DEF Backward
<1>12. Kept'
  <2>1. applied[n] \cup waiting \subseteq all
    BY <1>1, <1>3 DEF Kept
  <2> QED BY <1>1, <1>3, <1>5, <2>1 DEF Kept
<1>13. Arrays'
  <2>1. ASSUME NEW k \in Readers PROVE table'[k].array = Joined(blocks, applied'[k])
    <3>1. CASE k = n
      <4>1. row.array = Joined(blocks, applied[n])
        BY <1>1, <3>1 DEF Arrays
      <4>2. Joined(blocks, applied[n] \cup waiting)
              = Joined(blocks, applied[n]) \cup Joined(blocks, waiting)
        BY DEF Joined
      <4> QED BY <1>8, <1>9, <3>1, <4>1, <4>2
    <3>2. CASE k # n
      BY <1>1, <1>9, <3>2 DEF Arrays, Readers
    <3> QED BY <3>1, <3>2
  <2> QED BY <1>3, <1>4, <2>1 DEF Arrays
<1>14. Plains'
  <2> SUFFICES ASSUME Quiet', NEW k \in Readers \ gapped'
               PROVE  Closed(blocks, applied'[k]) /\ Told(blocks, table'[k], applied'[k])
    BY <1>3, <1>4 DEF Plains
  <2>1. Quiet
    BY <1>3, <1>4 DEF Quiet, InTurn
  <2>2. k \notin gapped /\ k \in Node
    BY <1>3 DEF Readers
  <2>3. Closed(blocks, applied[k]) /\ Told(blocks, table[k], applied[k])
    BY <1>1, <2>1, <2>2 DEF Plains
  <2>4. CASE k # n
    BY <1>9, <2>2, <2>3, <2>4
  <2>5. CASE k = n
    <3> DEFINE A == applied[n]
    <3>1. A \in SUBSET (1..Len(blocks)) /\ A \subseteq present[n]
      BY <1>1, <1>5 DEF Kept
    <3>2. Closed(blocks, A) /\ Told(blocks, row, A)
      BY <2>3, <2>5
    <3>3. \A j \in waiting : blocks[j].past \subseteq all
      BY <1>3, <2>5
    <3>4. \A i, j \in 1..Len(blocks) : BothWrite(i, j) /\ i < j => i \in blocks[j].past
      BY <2>1 DEF Quiet, InTurn, Upserts, BothWrite
    <3> HIDE DEF A
    <3>5. ASSUME NEW i \in A, NEW j \in waiting, BothWrite(i, j) PROVE i < j
      <4>1. i \in 1..Len(blocks) /\ j \in 1..Len(blocks)
        BY <1>6, <3>1
      <4>2. j \notin A
        BY <1>3 DEF A
      <4>3. ~(j < i)
        BY <3>2, <3>4, <3>5, <4>1, <4>2 DEF Closed, BothWrite
      <4> QED BY <4>1, <4>2, <4>3
    <3>6. \A i, j \in DOMAIN q : i < j /\ BothWrite(q[i], q[j]) => q[i] < q[j]
      <4>1. \A i \in DOMAIN q : q[i] \in 1..Len(blocks)
        BY <1>6, <1>7
      <4>2. ASSUME NEW i \in DOMAIN q, NEW j \in DOMAIN q, i < j, BothWrite(q[i], q[j])
            PROVE  q[i] < q[j]
        <5>1. blocks[q[j]].writer = blocks[q[i]].writer
          BY <2>1, <4>1, <4>2 DEF Quiet, Upserts, BothWrite
        <5>2. q[i] # q[j] /\ ~(q[j] < q[i])
          BY <1>7, <4>2, <5>1
        <5>3. q[i] \in Nat /\ q[j] \in Nat
          BY <4>1
        <5> QED BY <5>2, <5>3
      <4> QED BY <4>2
    <3>7. Told(blocks, new, A \cup waiting)
      BY <1>8, <3>1, <3>2, <3>5, <3>6
    <3>8. Closed(blocks, A \cup waiting)
      <4>1. ASSUME NEW j \in waiting, NEW p \in blocks[j].past PROVE p \in A \cup waiting
        <5>1. j \in 1..Len(blocks) /\ blocks[j].past \subseteq all
          BY <1>6, <3>3
        <5>2. Closed(blocks, blocks[j].past) /\ p \in 1..Len(blocks)
          BY <1>1, <1>6, <5>1, <4>1 DEF Backward
        <5>3. blocks[p].past \subseteq all /\ p \in all
          BY <4>1, <5>1, <5>2 DEF Closed
        <5>4. blocks[p].parents \subseteq all
          BY <1>1, <5>2, <5>3 DEF Backward
        <5> QED BY <1>3, <5>3, <5>4 DEF A, CanApply
      <4>2. \A j \in A : blocks[j].past \subseteq A
        BY <3>2 DEF Closed
      <4> QED BY <4>1, <4>2 DEF Closed
    <3> QED BY <1>9, <2>5, <3>7, <3>8 DEF A
  <2> QED BY <2>4, <2>5
<1> QED BY <1>10, <1>11, <1>12, <1>13, <1>14 DEF RowsInv

\* An order that puts the parents first puts all that a block descends from
\* before it.
LEMMA PastFirst ==
  ASSUME RowTypeOK, Backward, NEW S \in SUBSET (1..Len(blocks)), Closed(blocks, S),
         NEW q \in CausalOrders(S)
  PROVE  \A i, j \in DOMAIN q : i < j => q[j] \notin blocks[q[i]].past
<1> DEFINE c == Cardinality(S)
<1>1. Len(blocks) \in Nat
  BY DEF RowTypeOK
<1>2. /\ q \in [1..c -> S] /\ DOMAIN q = 1..c
      /\ \A i, j \in DOMAIN q : i < j => q[i] # q[j]
      /\ \A i, j \in DOMAIN q : i < j => ~(q[j] \in blocks[q[i]].parents)
  BY DEF CausalOrders, Arranged
<1>3. c \in Nat /\ \A x \in S : \E i \in 1..c : q[i] = x
  BY <1>1, <1>2, AllThere
<1> HIDE DEF c
<1> DEFINE Bad == {i \in 1..c : \E j \in 1..c : i < j /\ q[j] \in blocks[q[i]].past}
<1>4. CASE Bad # {}
  <2>1. Bad \in SUBSET Nat
    BY <1>3
  <2>2. PICK i \in Bad : \A k \in Bad : i <= k
    <3> HIDE DEF Bad
    <3> QED BY <1>4, <2>1, MinExists
  <2>3. PICK j \in 1..c : i < j /\ q[j] \in blocks[q[i]].past
    BY <2>2
  <2>4. i \in 1..c /\ q[i] \in S /\ q[i] \in 1..Len(blocks)
    BY <1>2, <2>2
  <2>5. q[j] \notin blocks[q[i]].parents
    BY <1>2, <2>3, <2>4
  <2>6. PICK p \in blocks[q[i]].parents : q[j] \in blocks[p].past
    BY <2>3, <2>4, <2>5 DEF Backward
  <2>7. p \in blocks[q[i]].past
    BY <2>4, <2>6 DEF Backward
  <2>8. p \in S
    BY <2>4, <2>7 DEF Closed
  <2>9. PICK k \in 1..c : q[k] = p
    BY <1>3, <2>8
  <2>10. p \in 1..(q[i] - 1)
    BY <2>4, <2>7 DEF Backward
  <2>11. k # i
    BY <2>4, <2>9, <2>10
  <2>12. ~(i < k)
    BY <1>2, <2>4, <2>6, <2>9
  <2>13. k < i /\ k < j
    BY <1>3, <2>3, <2>4, <2>9, <2>11, <2>12
  <2>14. k \in Bad
    BY <2>3, <2>6, <2>9, <2>13
  <2> QED BY <1>3, <2>2, <2>4, <2>9, <2>13, <2>14
<1>5. CASE Bad = {}
  BY <1>2, <1>5
<1> QED BY <1>4, <1>5

\* A clone: the databases as they come, or the table emptied and told by all the
\* blocks of the log.
LEMMA ImportKeepsRows ==
  ASSUME RowsInv, NEW n \in Node, NEW m \in Node, Import(n, m)
  PROVE  RowsInv'
<1> USE RowsAssumption
<1>1. RowTypeOK /\ Backward /\ Kept /\ Arrays /\ Plains
  BY DEF RowsInv
<1>2. blocks \in Seq(Block) /\ Len(blocks) \in Nat
  BY <1>1 DEF RowTypeOK
<1>3. /\ UNCHANGED <<blocks, preset>> /\ Upserts' = Upserts
      /\ imports < MaxImports /\ imports' = imports + 1
  BY DEF Import, Upserts
<1> DEFINE S == present[m]
           rebuilt == ~(sealed[m] # {} \/ S = {})
<1>4. /\ present \in [Node -> SUBSET (1..Len(blocks))] /\ tips \in [Node -> SUBSET (1..Len(blocks))]
      /\ applied \in [Node -> SUBSET (1..Len(blocks))] /\ table \in [Node -> Tables]
      /\ sealed \in [Node -> SUBSET (1..Len(blocks))] /\ gapped \subseteq Node
  BY <1>1 DEF RowTypeOK, Tables
<1>5. S \in SUBSET (1..Len(blocks)) /\ NoRow \in Tables /\ NoRow.array = {}
  BY <1>4 DEF Tables, NoRow
<1>6. PICK new, made :
        /\ table' = [table EXCEPT ![n] = new] /\ applied' = [applied EXCEPT ![n] = made]
        /\ ~rebuilt => new = table[m] /\ made = applied[m]
        /\ rebuilt => made = S /\ \E q \in CausalOrders(S) : new = ApplyAll(NoRow, q)
  <2>1. CASE ~rebuilt
    BY <2>1 DEF Import
  <2>2. CASE rebuilt
    <3>1. PICK q \in CausalOrders(S) : table' = [table EXCEPT ![n] = ApplyAll(NoRow, q)]
      BY <2>2 DEF Import
    <3>2. applied' = [applied EXCEPT ![n] = S]
      BY <2>2 DEF Import
    <3> QED BY <2>2, <3>1, <3>2
  <2> QED BY <2>1, <2>2
<1>7. /\ gapped' \in {gapped \cup {n}, gapped \ {n}}
      /\ n \notin gapped' => /\ rebuilt => Closed(blocks, S)
                             /\ ~rebuilt => m \notin gapped
  BY DEF Import, Closed
<1>8. /\ present' = [present EXCEPT ![n] = S] /\ tips' = [tips EXCEPT ![n] = tips[m]]
      /\ sealed' = [sealed EXCEPT ![n] = sealed[m]]
  BY DEF Import
<1> HIDE DEF S, rebuilt
<1>9. new \in Tables /\ made \in SUBSET (1..Len(blocks)) /\ made \subseteq S
  <2>1. CASE ~rebuilt
    BY <1>1, <1>4, <1>6, <2>1 DEF Kept, S
  <2>2. CASE rebuilt
    <3>1. PICK q \in CausalOrders(S) : new = ApplyAll(NoRow, q)
      BY <1>6, <2>2
    <3>2. /\ q \in [1..Cardinality(S) -> S]
          /\ \A i, j \in DOMAIN q : i < j => q[i] # q[j]
      BY DEF CausalOrders, Arranged
    <3> QED BY <1>2, <1>5, <1>6, <2>2, <3>1, <3>2, ApplyOrdered
  <2> QED BY <2>1, <2>2
<1>10. RowTypeOK'
  <2>1. /\ present' \in [Node -> SUBSET (1..Len(blocks))] /\ applied' \in [Node -> SUBSET (1..Len(blocks))]
        /\ tips' \in [Node -> SUBSET (1..Len(blocks))] /\ sealed' \in [Node -> SUBSET (1..Len(blocks))]
    BY <1>4, <1>5, <1>6, <1>8, <1>9
  <2>2. table' \in [Node -> Rows \cup {NoRow}]
    BY <1>4, <1>6, <1>9 DEF Tables
  <2>3. imports' \in 0..MaxImports
    BY <1>1, <1>3 DEF RowTypeOK
  <2>4. gapped' \subseteq Node
    BY <1>4, <1>7
  <2> QED BY <1>1, <1>3, <2>1, <2>2, <2>3, <2>4 DEF RowTypeOK
<1>11. Backward'
  BY <1>1, <1>3 DEF Backward
<1>12. Kept'
  BY <1>1, <1>4, <1>6, <1>8, <1>9 DEF Kept
<1>13. /\ n \in Readers' => m \in Readers
       /\ \A k \in Readers' \ {n} : /\ k \in Readers /\ applied'[k] = applied[k]
                                    /\ table'[k] = table[k]
  BY <1>4, <1>6, <1>8 DEF Readers
<1>14. table'[n] = new /\ applied'[n] = made
  BY <1>4, <1>6
<1>15. ASSUME n \in Readers' PROVE new.array = Joined(blocks, made)
  <2>1. CASE ~rebuilt
    BY <1>1, <1>6, <1>13, <1>15, <2>1 DEF Arrays
  <2>2. CASE rebuilt
    <3>1. PICK q \in CausalOrders(S) : new = ApplyAll(NoRow, q)
      BY <1>6, <2>2
    <3>2. /\ q \in [1..Cardinality(S) -> S]
          /\ \A i, j \in DOMAIN q : i < j => q[i] # q[j]
      BY DEF CausalOrders, Arranged
    <3>3. ApplyAll(NoRow, q).array = NoRow.array \cup Joined(blocks, S)
      BY <1>2, <1>5, <3>2, ApplyOrdered
    <3> QED BY <1>5, <1>6, <2>2, <3>1, <3>3
  <2> QED BY <2>1, <2>2
<1>16. Arrays'
  <2>1. ASSUME NEW k \in Readers' PROVE table'[k].array = Joined(blocks, applied'[k])
    <3>1. CASE k = n
      BY <1>14, <1>15, <3>1
    <3>2. CASE k # n
      BY <1>1, <1>13, <3>2 DEF Arrays
    <3> QED BY <3>1, <3>2
  <2> QED BY <1>3, <2>1 DEF Arrays
<1>17. Plains'
  <2> SUFFICES ASSUME Quiet', NEW k \in Readers' \ gapped'
               PROVE  Closed(blocks, applied'[k]) /\ Told(blocks, table'[k], applied'[k])
    BY <1>3 DEF Plains
  <2>1. Quiet
    BY <1>3 DEF Quiet, InTurn
  <2>2. CASE k = n /\ ~rebuilt
    <3>1. m \in Readers \ gapped
      BY <1>7, <1>13, <2>2
    <3> QED BY <1>1, <1>6, <1>14, <2>1, <2>2, <3>1 DEF Plains
  <2>3. CASE k = n /\ rebuilt
    <3>1. Closed(blocks, S)
      BY <1>7, <2>3
    <3>2. PICK q \in CausalOrders(S) : new = ApplyAll(NoRow, q)
      BY <1>6, <2>3
    <3>3. /\ q \in [1..Cardinality(S) -> S]
          /\ \A i, j \in DOMAIN q : i < j => q[i] # q[j]
      BY DEF CausalOrders, Arranged
    <3>4. \A A \in SUBSET (1..Len(blocks)) :
            (/\ Told(blocks, NoRow, A)
             /\ \A i \in A, j \in S : BothWrite(i, j) => i < j
             /\ \A i, j \in DOMAIN q : i < j /\ BothWrite(q[i], q[j]) => q[i] < q[j])
            => Told(blocks, ApplyAll(NoRow, q), A \cup S)
      BY <1>2, <1>5, <3>3, ApplyOrdered
    <3>5. Told(blocks, NoRow, {})
      BY DEF Told, NoRow
    <3>6. \A i, j \in DOMAIN q : i < j => q[j] \notin blocks[q[i]].past
      BY <1>1, <1>5, <3>1, PastFirst
    <3>7. ASSUME NEW i \in DOMAIN q, NEW j \in DOMAIN q, i < j, BothWrite(q[i], q[j])
          PROVE  q[i] < q[j]
      <4>1. q[i] \in Upserts /\ q[j] \in Upserts
        BY <1>5, <3>3, <3>7 DEF BothWrite, Upserts
      <4>2. q[i] # q[j] /\ q[j] \notin blocks[q[i]].past
        BY <3>3, <3>6, <3>7
      <4>3. ~(q[j] < q[i])
        BY <2>1, <4>1, <4>2 DEF Quiet, InTurn
      <4>4. q[i] \in Nat /\ q[j] \in Nat
        BY <4>1 DEF Upserts
      <4> QED BY <4>2, <4>3, <4>4
    <3>8. {} \cup S = S /\ {} \in SUBSET (1..Len(blocks))
      OBVIOUS
    <3>9. Told(blocks, ApplyAll(NoRow, q), {} \cup S)
      BY <3>4, <3>5, <3>7, <3>8
    <3> QED BY <1>6, <1>14, <2>3, <3>1, <3>2, <3>8, <3>9
  <2>4. CASE k # n
    <3>1. k \in Readers \ gapped
      BY <1>7, <1>13, <2>4
    <3>2. applied'[k] = applied[k] /\ table'[k] = table[k]
      BY <1>13, <2>4
    <3> QED BY <1>1, <2>1, <3>1, <3>2 DEF Plains
  <2> QED BY <2>2, <2>3, <2>4
<1> QED BY <1>10, <1>11, <1>12, <1>16, <1>17 DEF RowsInv

LEMMA RowsStep == RowsInv /\ [RowNext]_rowVars => RowsInv'
<1> USE RowsAssumption
<1> SUFFICES ASSUME RowsInv, [RowNext]_rowVars PROVE RowsInv'
  OBVIOUS
<1>1. RowTypeOK /\ Backward
  BY DEF RowsInv
<1>2. ASSUME NEW n \in Writer PROVE n \in Node /\ tips[n] \in SUBSET Ids /\ Past(n) \in SUBSET Ids
  <2>1. n \in Node /\ tips[n] \in SUBSET (1..Len(blocks)) /\ Len(blocks) \in 0..MaxWrites
    BY <1>1 DEF RowTypeOK
  <2>2. \A i \in tips[n] : blocks[i].past \subseteq 1..(i - 1)
    BY <1>1, <2>1 DEF Backward
  <2>3. \A i \in 1..Len(blocks) : i \in Ids /\ 1..(i - 1) \subseteq Ids
    BY <2>1 DEF Ids
  <2> QED BY <2>1, <2>2, <2>3 DEF Past
<1>3. ASSUME NEW n \in Writer, Upsert(n) PROVE RowsInv'
  <2>1. PICK row \in Rows :
          WriteRow(n, [writer |-> n, kind |-> "UPSERT", payload |-> row,
                       parents |-> tips[n], past |-> Past(n)], row)
    BY <1>3 DEF Upsert
  <2> DEFINE b == [writer |-> n, kind |-> "UPSERT", payload |-> row,
                   parents |-> tips[n], past |-> Past(n)]
  <2>2. b \in Block /\ b.writer = n /\ b.parents = tips[n] /\ b.past = Past(n)
    BY <1>2 DEF Block
  <2>3. row \in Tables
    BY DEF Tables
  <2> HIDE DEF b
  <2>4. WriteRow(n, b, row)
    BY <2>1 DEF b
  <2> QED BY <2>2, <2>3, <2>4, WriteKeepsRows
<1>4. ASSUME NEW n \in Writer, NEW event \in {"DELETE", "OTHER"}, NEW row \in Tables,
             WriteRow(n, [writer |-> n, kind |-> event,
                          parents |-> tips[n], past |-> Past(n)], row)
      PROVE  RowsInv'
  <2> DEFINE b == [writer |-> n, kind |-> event, parents |-> tips[n], past |-> Past(n)]
  <2>1. b \in Block /\ b.writer = n /\ b.parents = tips[n] /\ b.past = Past(n)
    BY <1>2 DEF Block
  <2> HIDE DEF b
  <2>2. WriteRow(n, b, row)
    BY <1>4 DEF b
  <2> QED BY <2>1, <2>2, WriteKeepsRows
<1>5. ASSUME NEW n \in Writer, Delete(n) PROVE RowsInv'
  BY <1>4, <1>5 DEF Delete, Tables
<1>6. ASSUME NEW n \in Writer, WriteOther(n) PROVE RowsInv'
  <2>1. table[n] \in Tables
    BY <1>1 DEF RowTypeOK, Tables
  <2> QED BY <1>4, <1>6, <2>1 DEF WriteOther
<1>7. ASSUME UNCHANGED rowVars PROVE RowsInv'
  <2>1. UNCHANGED <<blocks, present, tips, applied, table, preset, imports, sealed, gapped>>
    BY <1>7 DEF rowVars
  <2>2. RowTypeOK' /\ Backward' /\ Kept'
    BY <2>1 DEF RowsInv, RowTypeOK, Backward, Kept
  <2>3. Arrays' /\ Plains'
    BY <2>1 DEF RowsInv, Arrays, Plains, Quiet, InTurn, Upserts, Readers
  <2> QED BY <2>2, <2>3 DEF RowsInv
<1> QED BY <1>3, <1>5, <1>6, <1>7, ReceiveKeepsRows, ImportKeepsRows DEF RowNext

\* When one node wrote the row all its upserts have the same writer.
LEMMA OneWriter ==
  ASSUME blocks \in Seq(Block), Cardinality(Written) = 1
  PROVE  \A i, j \in Upserts : blocks[i].writer = blocks[j].writer
<1>1. Len(blocks) \in Nat
  OBVIOUS
<1>2. IsFiniteSet(Upserts)
  <2>1. IsFiniteSet(1..Len(blocks))
    BY <1>1, FS_Interval
  <2> QED BY <2>1, FS_Subset DEF Upserts
<1> DEFINE f == [i \in Upserts |-> blocks[i].writer]
<1>3. f \in Surjection(Upserts, Written)
  BY DEF Surjection, Written
<1>4. IsFiniteSet(Written)
  BY <1>2, <1>3, FS_Surjection
<1>5. \E x : Written = {x}
  BY <1>4, FS_Singleton
<1> QED BY <1>5 DEF Written

LEMMA ReadersOfInv == ASSUME RowsInv PROVE ReadersAgree
<1>1. RowTypeOK /\ Arrays /\ Plains
  BY DEF RowsInv
<1>2. ASSUME NEW n \in Readers, NEW m \in Readers, applied[n] = applied[m]
      PROVE  /\ table[n].array = table[m].array
             /\ ~preset /\ {n, m} \cap gapped = {} /\ InTurn /\ Cardinality(Written) = 1
                  => table[n] = table[m]
  <2>1. table[n].array = table[m].array
    BY <1>1, <1>2 DEF Arrays
  <2>2. ASSUME ~preset, {n, m} \cap gapped = {}, InTurn, Cardinality(Written) = 1
        PROVE  table[n] = table[m]
    <3>1. Quiet
      BY <1>1, <2>2, OneWriter DEF Quiet, RowTypeOK
    <3>2. Told(blocks, table[n], applied[n]) /\ Told(blocks, table[m], applied[n])
      BY <1>1, <1>2, <2>2, <3>1 DEF Plains
    <3>3. n \in Node /\ m \in Node
      BY DEF Readers
    <3>4. table[n] \in Tables /\ table[m] \in Tables
      BY <1>1, <3>3 DEF RowTypeOK, Tables
    <3>5. applied[n] \in SUBSET Nat
      BY <1>1, <3>3 DEF RowTypeOK
    <3> QED BY <2>1, <3>2, <3>4, <3>5, ToldOnce
  <2> QED BY <2>1, <2>2
<1> QED BY <1>2 DEF ReadersAgree

\* The nodes, values and numbers of the row stay what they are declared to be
\* (the columns of event_log and of the table).
THEOREM RowTypes == RowSpec => []RowTypeOK
<1>1. RowInit => RowsInv
  BY RowsInitially
<1>2. RowsInv => RowTypeOK
  BY DEF RowsInv
<1> QED BY <1>1, <1>2, RowsStep, PTL DEF RowSpec

\* Nodes that only received a row and applied the same blocks agree on its
\* array, and on all of the row under the conditions that ReadersAgree names
\* (block_applier.js, json_crdt.js, state_rebuilder.js).
THEOREM ReadersStayAgreed == RowSpec => []ReadersAgree
<1>1. RowInit => RowsInv
  BY RowsInitially
<1>2. RowsInv => ReadersAgree
  BY ReadersOfInv
<1> QED BY <1>1, <1>2, RowsStep, PTL DEF RowSpec
=============================================================================
