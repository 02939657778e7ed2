-------------------------- MODULE RowStreamProofs ---------------------------
(***************************************************************************)
(* Proofs about RowStream for result sets and rows of any size, any size   *)
(* of a chunk and both protocols: the rows reach the queue in their order  *)
(* and none is passed over, chunks are filled as far as the rows allow,    *)
(* and a reader that ends in silence has delivered every row.              *)
(***************************************************************************)
EXTENDS RowStream, SequenceTheorems, WellFoundedInduction, TLAPS

-----------------------------------------------------------------------------
(* Induction, for sets of numbers.                                         *)

less == {ss \in Nat \X Nat : ss[1] < ss[2]}

\* A set of natural numbers that is not empty has a least element.
LEMMA Least ==
    ASSUME NEW S \in SUBSET Nat, S # {}
    PROVE  \E m \in S : \A k \in S : m <= k
<1>1. IsWellFoundedOn(less, Nat)
  BY NatLessThanWellFounded DEF OpToRel, less
<1>2. PICK m \in S : \A k \in S : ~(<<k, m>> \in less)
  BY <1>1, WFMin
<1>3. ASSUME NEW k \in S PROVE m <= k
  <2>1. m \in Nat /\ k \in Nat /\ ~(<<k, m>> \in less)
    BY <1>2
  <2> QED BY <2>1 DEF less
<1> QED BY <1>3

\* A set that has 0 and with every number the next one has them all.
LEMMA Induction ==
    ASSUME NEW S \in SUBSET Nat, 0 \in S, \A n \in S : n + 1 \in S
    PROVE  S = Nat
<1> SUFFICES ASSUME S # Nat PROVE FALSE
  OBVIOUS
<1>1. Nat \ S \in SUBSET Nat /\ Nat \ S # {}
  OBVIOUS
<1>2. PICK m \in Nat \ S : \A k \in Nat \ S : m <= k
  BY <1>1, Least
<1>3. m - 1 \in Nat /\ m - 1 < m
  BY <1>2
<1>4. m - 1 \in S
  BY <1>2, <1>3
<1> QED BY <1>2, <1>4

\* A set of numbers with an upper bound has a greatest element, which is Max.
LEMMA MaxOf ==
    ASSUME NEW k \in Nat, NEW s \in SUBSET (1 .. k), s # {}
    PROVE  Max(s) \in s /\ \A y \in s : y <= Max(s)
<1> DEFINE U == {n \in Nat : \A y \in s : y <= n}
<1>1. U \in SUBSET Nat /\ k \in U
  OBVIOUS
<1>2. PICK m \in U : \A n \in U : m <= n
  BY <1>1, Least
<1>3. m \in s
  <2> SUFFICES ASSUME m \notin s PROVE FALSE
    OBVIOUS
  <2>1. m \in Nat /\ \A y \in s : y \in Nat /\ y <= m /\ y # m /\ y >= 1
    BY <1>2
  <2>2. PICK y \in s : TRUE
    OBVIOUS
  <2>3. m - 1 \in Nat /\ \A x \in s : x <= m - 1
    BY <2>1, <2>2
  <2>4. m - 1 \in U
    BY <2>3
  <2> QED BY <1>2, <2>1, <2>4
<1>4. m \in s /\ \A y \in s : m >= y
  BY <1>2, <1>3
<1> HIDE DEF U
<1>5. Max(s) \in s /\ \A y \in s : Max(s) >= y
  BY <1>4 DEF Max
<1> QED BY <1>5

-----------------------------------------------------------------------------
(* What used computes.                                                     *)

Row == [id : Nat, size : Nat]

isSum(f, c, k) ==
    f = [s \in SUBSET (1 .. k) |->
            IF s = {} THEN 0 ELSE f[s \ {Max(s)}] + c[Max(s)].size]

\* The fold over the first k elements exists.
LEMMA SumExists ==
    ASSUME NEW c, NEW n \in Nat
    PROVE  \E f : isSum(f, c, n)
<1> DEFINE S == {k \in Nat : \E f : isSum(f, c, k)}
<1>1. 0 \in S
  <2> DEFINE f == [s \in SUBSET (1 .. 0) |-> 0]
  <2>1. \A s \in SUBSET (1 .. 0) : s = {}
    OBVIOUS
  <2>2. isSum(f, c, 0)
    BY <2>1 DEF isSum
  <2> HIDE DEF f
  <2> QED BY <2>2
<1>2. ASSUME NEW k \in S PROVE k + 1 \in S
  <2>1. PICK f : isSum(f, c, k)
    OBVIOUS
  <2> DEFINE v(s) == IF s = {} THEN 0 ELSE f[s \ {Max(s)}] + c[Max(s)].size
             g == [s \in SUBSET (1 .. (k + 1)) |-> IF s \in SUBSET (1 .. k) THEN f[s] ELSE v(s)]
  <2>2. \A s \in SUBSET (1 .. k) : g[s] = f[s] /\ f[s] = v(s)
    <3>1. f = [s \in SUBSET (1 .. k) |-> v(s)]
      BY <2>1 DEF isSum
    <3> HIDE DEF v
    <3>2. \A s \in SUBSET (1 .. k) : f[s] = v(s)
      BY <3>1
    <3>3. \A s \in SUBSET (1 .. k) : s \in SUBSET (1 .. (k + 1))
      OBVIOUS
    <3> QED BY <3>2, <3>3
  <2>3. ASSUME NEW s \in SUBSET (1 .. (k + 1)), s # {}
        PROVE  s \ {Max(s)} \in SUBSET (1 .. k)
    <3>1. k + 1 \in Nat
      OBVIOUS
    <3>2. Max(s) \in s /\ \A y \in s : y <= Max(s)
      BY <2>3, <3>1, MaxOf
    <3>3. ASSUME NEW y \in s, y # Max(s) PROVE y \in 1 .. k
      <4>1. y \in 1 .. (k + 1) /\ Max(s) \in 1 .. (k + 1) /\ y <= Max(s)
        BY <3>2
      <4> QED BY <3>3, <4>1
    <3> QED BY <3>3
  <2>4. \A s \in SUBSET (1 .. (k + 1)) : s # {} => g[s \ {Max(s)}] = f[s \ {Max(s)}]
    BY <2>2, <2>3
  <2>5. \A s \in SUBSET (1 .. (k + 1)) : g[s] = v(s)
    BY <2>2
  <2>6. g = [s \in SUBSET (1 .. (k + 1)) |-> v(s)]
    BY <2>5
  <2>7. g = [s \in SUBSET (1 .. (k + 1)) |->
                IF s = {} THEN 0 ELSE g[s \ {Max(s)}] + c[Max(s)].size]
    <3> HIDE DEF g
    <3> QED BY <2>4, <2>6
  <2>8. isSum(g, c, k + 1)
    <3> HIDE DEF g
    <3> QED BY <2>7 DEF isSum
  <2> HIDE DEF g
  <2> QED BY <2>8
<1>3. S = Nat
  <2> HIDE DEF S
  <2>1. S \in SUBSET Nat
    BY DEF S
  <2> QED BY <1>1, <1>2, <2>1, Induction
<1> QED BY <1>3

\* used is such a fold.
LEMMA UsedSums ==
    ASSUME NEW c \in Seq(Row)
    PROVE  \E f : isSum(f, c, Len(c)) /\ used(c) = f[1 .. Len(c)]
<1> DEFINE f == CHOOSE f : isSum(f, c, Len(c))
<1>1. isSum(f, c, Len(c))
  <2>1. \E g : isSum(g, c, Len(c))
    BY SumExists
  <2> QED BY <2>1
<1>2. DOMAIN c = 1 .. Len(c)
  OBVIOUS
<1>3. used(c) = (CHOOSE g : g = [s \in SUBSET DOMAIN c |->
                    IF s = {} THEN 0 ELSE g[s \ {Max(s)}] + c[Max(s)].size])[DOMAIN c]
  BY DEF used, FoldLeft, MapThenFoldSet
<1>4. used(c) = f[1 .. Len(c)]
  BY <1>2, <1>3 DEF isSum
<1> HIDE DEF f
<1> QED BY <1>1, <1>4

\* One step of a fold.
LEMMA SumStep ==
    ASSUME NEW c, NEW n \in Nat, NEW f, isSum(f, c, n), NEW j \in Nat, j + 1 <= n
    PROVE  f[1 .. (j + 1)] = f[1 .. j] + c[j + 1].size
<1> DEFINE s == 1 .. (j + 1)
<1>1. s \in SUBSET (1 .. n) /\ s # {} /\ s \in SUBSET (1 .. (j + 1)) /\ j + 1 \in s
  OBVIOUS
<1>2. Max(s) \in s /\ \A y \in s : y <= Max(s)
  <2>1. j + 1 \in Nat
    OBVIOUS
  <2> HIDE DEF s
  <2> QED BY <1>1, <2>1, MaxOf
<1>3. Max(s) = j + 1
  <2>1. Max(s) \in Nat /\ Max(s) <= j + 1 /\ j + 1 <= Max(s)
    BY <1>1, <1>2
  <2> QED BY <2>1
<1>4. s \ {j + 1} = 1 .. j
  OBVIOUS
<1> HIDE DEF s
<1>5. f[s] = f[s \ {Max(s)}] + c[Max(s)].size
  BY <1>1 DEF isSum
<1>6. f[s] = f[1 .. j] + c[j + 1].size
  BY <1>3, <1>4, <1>5
<1> QED BY <1>6 DEF s

\* Two folds agree on what the sequences have in common.
LEMMA SumsAgree ==
    ASSUME NEW c, NEW d, NEW m \in Nat, NEW n \in Nat, NEW f, NEW g,
           isSum(f, c, m), isSum(g, d, n), NEW k \in Nat, k <= m, k <= n,
           \A i \in 1 .. k : c[i] = d[i]
    PROVE  f[1 .. k] = g[1 .. k]
<1> DEFINE S == {j \in Nat : j <= k => f[1 .. j] = g[1 .. j]}
<1>1. 0 \in S
  <2>1. 1 .. 0 = {} /\ {} \in SUBSET (1 .. m) /\ {} \in SUBSET (1 .. n)
    OBVIOUS
  <2>2. f[{}] = 0 /\ g[{}] = 0
    BY <2>1 DEF isSum
  <2> QED BY <2>1, <2>2
<1>2. ASSUME NEW j \in S PROVE j + 1 \in S
  <2> SUFFICES ASSUME j + 1 <= k PROVE f[1 .. (j + 1)] = g[1 .. (j + 1)]
    OBVIOUS
  <2>1. f[1 .. j] = g[1 .. j] /\ c[j + 1] = d[j + 1]
    OBVIOUS
  <2>2. f[1 .. (j + 1)] = f[1 .. j] + c[j + 1].size
    BY SumStep
  <2>3. g[1 .. (j + 1)] = g[1 .. j] + d[j + 1].size
    BY SumStep
  <2> QED BY <2>1, <2>2, <2>3
<1>3. S = Nat
  <2> HIDE DEF S
  <2>1. S \in SUBSET Nat
    BY DEF S
  <2> QED BY <1>1, <1>2, <2>1, Induction
<1> QED BY <1>3

\* The bytes of a chunk: none for the empty one, and every row adds its size.
LEMMA UsedAppend ==
    ASSUME NEW c \in Seq(Row), NEW row \in Row
    PROVE  used(Append(c, row)) = used(c) + row.size
<1> DEFINE d == Append(c, row)
           n == Len(c)
<1>1. d \in Seq(Row) /\ Len(d) = n + 1 /\ d[n + 1] = row /\ \A i \in 1 .. n : c[i] = d[i]
  OBVIOUS
<1>2. PICK f : isSum(f, c, n) /\ used(c) = f[1 .. n]
  BY UsedSums
<1>3. PICK g : isSum(g, d, n + 1) /\ used(d) = g[1 .. (n + 1)]
  BY UsedSums, <1>1
<1>4. n \in Nat /\ n + 1 \in Nat /\ n <= n + 1 /\ n <= n
  OBVIOUS
<1> HIDE DEF d, n
<1>5. f[1 .. n] = g[1 .. n]
  BY <1>1, <1>2, <1>3, <1>4, SumsAgree
<1>6. g[1 .. (n + 1)] = g[1 .. n] + d[n + 1].size
  BY <1>3, <1>4, SumStep
<1>7. used(d) = used(c) + row.size
  BY <1>1, <1>2, <1>3, <1>5, <1>6
<1> QED BY <1>7 DEF d

\* The empty chunk uses nothing.
LEMMA UsedEmpty == used(<<>>) = 0
<1>1. <<>> \in Seq(Row) /\ Len(<<>>) = 0
  OBVIOUS
<1>2. PICK f : isSum(f, <<>>, 0) /\ used(<<>>) = f[1 .. 0]
  BY <1>1, UsedSums
<1>3. 1 .. 0 = {} /\ {} \in SUBSET (1 .. 0)
  OBVIOUS
<1> QED BY <1>2, <1>3 DEF isSum

-----------------------------------------------------------------------------
(* What FlattenSeq computes.                                               *)

isFlat(f, ss, k) ==
    f = [i \in 1 .. k |-> IF i = 1 THEN ss[i] ELSE f[i - 1] \o ss[i]]

\* The function by which the first k sequences are joined exists.
LEMMA FlatExists ==
    ASSUME NEW ss, NEW n \in Nat
    PROVE  \E f : isFlat(f, ss, n)
<1> DEFINE S == {k \in Nat : \E f : isFlat(f, ss, k)}
<1>1. 0 \in S
  <2> DEFINE f == [i \in 1 .. 0 |-> 0]
  <2>1. isFlat(f, ss, 0)
    BY DEF isFlat
  <2> HIDE DEF f
  <2> QED BY <2>1
<1>2. ASSUME NEW k \in S PROVE k + 1 \in S
  <2>1. PICK f : isFlat(f, ss, k)
    OBVIOUS
  <2> DEFINE v(i) == IF i = 1 THEN ss[i] ELSE f[i - 1] \o ss[i]
             g == [i \in 1 .. (k + 1) |-> IF i \in 1 .. k THEN f[i] ELSE v(i)]
  <2>2. \A i \in 1 .. k : g[i] = f[i] /\ f[i] = v(i)
    <3>1. f = [i \in 1 .. k |-> v(i)]
      BY <2>1 DEF isFlat
    <3> HIDE DEF v
    <3>2. \A i \in 1 .. k : f[i] = v(i)
      BY <3>1
    <3>3. \A i \in 1 .. k : i \in 1 .. (k + 1)
      OBVIOUS
    <3> QED BY <3>2, <3>3
  <2>3. \A i \in 1 .. (k + 1) : i # 1 => g[i - 1] = f[i - 1]
    <3>1. \A i \in 1 .. (k + 1) : i # 1 => i - 1 \in 1 .. k
      OBVIOUS
    <3> HIDE DEF g
    <3> QED BY <2>2, <3>1
  <2>4. g = [i \in 1 .. (k + 1) |-> v(i)]
    <3>1. \A i \in 1 .. (k + 1) : g[i] = v(i)
      BY <2>2
    <3> QED BY <3>1
  <2>5. isFlat(g, ss, k + 1)
    <3> HIDE DEF g
    <3> QED BY <2>3, <2>4 DEF isFlat
  <2> HIDE DEF g
  <2> QED BY <2>5
<1>3. S = Nat
  <2> HIDE DEF S
  <2>1. S \in SUBSET Nat
    BY DEF S
  <2> QED BY <1>1, <1>2, <2>1, Induction
<1> QED BY <1>3

\* FlattenSeq is such a function at the last place.
LEMMA FlattenJoins ==
    ASSUME NEW T, NEW ss \in Seq(Seq(T)), ss # <<>>
    PROVE  \E f : isFlat(f, ss, Len(ss)) /\ FlattenSeq(ss) = f[Len(ss)]
<1> DEFINE f == CHOOSE f : isFlat(f, ss, Len(ss))
<1>1. isFlat(f, ss, Len(ss))
  <2>1. \E g : isFlat(g, ss, Len(ss))
    <3>1. Len(ss) \in Nat
      OBVIOUS
    <3> QED BY <3>1, FlatExists
  <2> QED BY <2>1
<1>2. Len(ss) # 0
  OBVIOUS
<1>3. FlattenSeq(ss) = (CHOOSE g : g = [i \in 1 .. Len(ss) |->
                            IF i = 1 THEN ss[i] ELSE g[i - 1] \o ss[i]])[Len(ss)]
  BY <1>2 DEF FlattenSeq
<1>4. FlattenSeq(ss) = f[Len(ss)]
  BY <1>3 DEF isFlat
<1> HIDE DEF f
<1> QED BY <1>1, <1>4

\* Two joins agree on what the sequences have in common, and are sequences.
LEMMA FlatsAgree ==
    ASSUME NEW T, NEW ss \in Seq(Seq(T)), NEW tt \in Seq(Seq(T)), NEW f, NEW g,
           isFlat(f, ss, Len(ss)), isFlat(g, tt, Len(tt)), Len(ss) <= Len(tt),
           \A i \in 1 .. Len(ss) : ss[i] = tt[i]
    PROVE  \A i \in 1 .. Len(ss) : f[i] = g[i] /\ f[i] \in Seq(T)
<1> DEFINE P(j) == j \in 1 .. Len(ss) => f[j] = g[j] /\ f[j] \in Seq(T)
           S == {j \in Nat : P(j)}
<1>1. 0 \in S
  OBVIOUS
<1>2. ASSUME NEW j \in S PROVE j + 1 \in S
  <2> SUFFICES ASSUME j + 1 \in 1 .. Len(ss)
               PROVE  f[j + 1] = g[j + 1] /\ f[j + 1] \in Seq(T)
    OBVIOUS
  <2>1. j + 1 \in 1 .. Len(tt) /\ ss[j + 1] = tt[j + 1] /\ ss[j + 1] \in Seq(T)
    OBVIOUS
  <2>2. /\ f[j + 1] = IF j + 1 = 1 THEN ss[j + 1] ELSE f[(j + 1) - 1] \o ss[j + 1]
        /\ g[j + 1] = IF j + 1 = 1 THEN tt[j + 1] ELSE g[(j + 1) - 1] \o tt[j + 1]
    BY <2>1 DEF isFlat
  <2>3. CASE j = 0
    BY <2>1, <2>2, <2>3
  <2>4. CASE j # 0
    <3>1. f[j] = g[j] /\ f[j] \in Seq(T) /\ (j + 1) - 1 = j /\ j + 1 # 1
      BY <2>4
    <3>2. f[j + 1] = f[j] \o ss[j + 1] /\ g[j + 1] = g[j] \o tt[j + 1]
      BY <2>2, <3>1
    <3> QED BY <2>1, <3>1, <3>2
  <2> QED BY <2>3, <2>4
<1>3. S = Nat
  <2> HIDE DEF S
  <2>1. S \in SUBSET Nat
    BY DEF S
  <2> QED BY <1>1, <1>2, <2>1, Induction
<1>4. \A j \in Nat : P(j)
  <2> HIDE DEF P
  <2> QED BY <1>3
<1>5. \A i \in 1 .. Len(ss) : i \in Nat
  OBVIOUS
<1> QED BY <1>4, <1>5

\* A chunk that is pushed is added to the rows that were delivered.
LEMMA FlattenAppend ==
    ASSUME NEW T, NEW ss \in Seq(Seq(T)), NEW s \in Seq(T)
    PROVE  /\ FlattenSeq(ss) \in Seq(T)
           /\ FlattenSeq(Append(ss, s)) = FlattenSeq(ss) \o s
<1> DEFINE tt == Append(ss, s)
           n == Len(ss)
<1>1. /\ tt \in Seq(Seq(T)) /\ tt # <<>> /\ Len(tt) = n + 1 /\ tt[n + 1] = s
      /\ \A i \in 1 .. n : ss[i] = tt[i]
      /\ n \in Nat
  <2>1. n \in Nat
    OBVIOUS
  <2>2. tt \in Seq(Seq(T)) /\ Len(tt) = n + 1
    BY AppendProperties
  <2>3. tt # <<>>
    BY <2>1, <2>2, EmptySeq
  <2>4. tt[n + 1] = s /\ \A i \in 1 .. n : ss[i] = tt[i]
    BY AppendProperties
  <2> QED BY <2>1, <2>2, <2>3, <2>4
<1>2. PICK g : isFlat(g, tt, Len(tt)) /\ FlattenSeq(tt) = g[Len(tt)]
  BY <1>1, FlattenJoins
<1>3. g[n + 1] = IF n + 1 = 1 THEN s ELSE g[(n + 1) - 1] \o s
  <2>1. n + 1 \in 1 .. (n + 1)
    BY <1>1
  <2> HIDE DEF n, tt
  <2> QED BY <1>1, <1>2, <2>1 DEF isFlat
<1>4. CASE ss = <<>>
  <2>1. n = 0 /\ FlattenSeq(ss) = <<>>
    BY <1>4 DEF FlattenSeq
  <2>2. FlattenSeq(tt) = s
    BY <1>1, <1>2, <1>3, <2>1
  <2> QED BY <2>1, <2>2
<1>5. CASE ss # <<>>
  <2>1. PICK f : isFlat(f, ss, n) /\ FlattenSeq(ss) = f[n]
    BY <1>5, FlattenJoins
  <2>2. n \in 1 .. n /\ n <= Len(tt) /\ n + 1 # 1 /\ (n + 1) - 1 = n
    BY <1>1, <1>5
  <2>3. \A i \in 1 .. n : f[i] = g[i] /\ f[i] \in Seq(T)
    <3> HIDE DEF tt
    <3> QED BY <1>1, <1>2, <2>1, <2>2, FlatsAgree
  <2>4. FlattenSeq(tt) = f[n] \o s /\ f[n] \in Seq(T)
    <3> HIDE DEF tt, n
    <3> QED BY <1>1, <1>2, <1>3, <2>2, <2>3
  <2> QED BY <2>1, <2>4
<1> QED BY <1>4, <1>5

-----------------------------------------------------------------------------
(* The inductive invariant.                                                *)

Conn ==
    [m_stmt : {"null", "init", "prepared", "executed"}, m_res : {"null", "open"},
     m_use_binary_protocol : BOOLEAN, m_last_fetched_row : Seq(Row),
     result : Seq(Row), cursor : Nat]

Reading == {"loop", "NextChunk"}

Typed ==
    /\ isParallel \in BOOLEAN
    /\ usePrepared \in BOOLEAN
    /\ rows \in Seq(Row)
    /\ conn \in Conn
    /\ m_error \in Nat
    /\ m_stop_reading \in BOOLEAN
    /\ chunk \in Seq(Row)
    /\ pushed \in Seq(Seq(Row))
    /\ pc \in {"PrepareRead", "UpdateRowSchema", "Prefetch", "done", "nullptr", "crashed"}
              \cup Reading

\* The rows of a result set are numbered, and a parallel read has one and is prepared.
Numbered ==
    /\ rows # NoResultSet => \A i \in 1 .. Len(rows) : rows[i].id = i
    /\ isParallel => rows # NoResultSet /\ usePrepared

\* The rows that Execute has passed over.
skipped == IF usePrepared \/ rows = <<>> THEN 0 ELSE 1

\* Before the thread starts nothing is pushed, and the statement, if it has a result
\* set, is at the first row.
Opening ==
    /\ pc = "PrepareRead" => conn = newConnection
    /\ pc # "PrepareRead" => conn.m_use_binary_protocol = usePrepared
    /\ pc \in {"PrepareRead", "UpdateRowSchema", "Prefetch"} =>
          m_error = 0 /\ pushed = <<>> /\ chunk = <<>>
    /\ pc = "UpdateRowSchema" /\ rows = NoResultSet =>
          IF usePrepared THEN conn.result = NoResultSet ELSE conn.m_res = "null"
    /\ pc = "Prefetch" => rows # NoResultSet
    /\ pc \in {"UpdateRowSchema", "Prefetch"} /\ rows # NoResultSet =>
          /\ conn.result = rows /\ conn.cursor = skipped
          /\ IF usePrepared THEN conn.m_stmt = "executed" ELSE conn.m_res = "open"

\* The row in memory is the one at the cursor, and the statement is open.
Fetched(k) ==
    /\ k.result = rows /\ k.cursor \in 0 .. Len(rows)
    /\ HasNextRow(k) =>
          /\ k.cursor >= 1 /\ k.m_last_fetched_row = <<rows[k.cursor]>>
          /\ usePrepared => k.m_stmt = "executed"
    /\ ~usePrepared => k.m_res = "open"

\* The number of rows before the one in memory.
behind(k) == IF HasNextRow(k) THEN k.cursor - 1 ELSE Len(rows)

\* What was delivered, together with the chunk in hand, are the rows before the one in
\* memory.
Placed ==
    /\ skipped + Len(delivered) <= Len(rows)
    /\ \A i \in 1 .. Len(delivered) : delivered[i] = rows[skipped + i]
    /\ pc \in Reading =>
          /\ rows # NoResultSet /\ m_error = 0
          /\ Fetched(conn)
          /\ skipped + Len(delivered) + Len(chunk) = behind(conn)
          /\ \A i \in 1 .. Len(chunk) : chunk[i] = rows[skipped + Len(delivered) + i]
          /\ used(chunk) \in Nat /\ used(chunk) <= ChunkSize
    /\ pc = "loop" => chunk = <<>>
    /\ pc = "NextChunk" => HasNextRow(conn) \/ chunk # <<>>
    /\ pc = "done" /\ m_error = 0 /\ ~m_stop_reading => skipped + Len(delivered) = Len(rows)

IInv == Typed /\ Numbered /\ Opening /\ Placed /\ ChunksFilled

-----------------------------------------------------------------------------
(* The connection.                                                         *)

\* What Advance may leave: after an error only the protocol is certain; otherwise the
\* next row of the result is in memory or, at the end, none.
LEMMA Advanced ==
    ASSUME NEW k \in Conn, k.cursor <= Len(k.result), NEW o \in Advance(k)
    PROVE  /\ o.conn \in Conn
           /\ o.conn.m_use_binary_protocol = k.m_use_binary_protocol
           /\ o.threw \in BOOLEAN
           /\ o.threw => o.code = ServerError
           /\ ~o.threw =>
                 /\ o.code = 0
                 /\ o.conn.result = k.result /\ o.conn.m_res = k.m_res
                 /\ k.cursor = Len(k.result) =>
                       o.conn.m_last_fetched_row = <<>> /\ o.conn.cursor = k.cursor
                 /\ k.cursor # Len(k.result) =>
                       /\ o.conn.m_last_fetched_row = <<k.result[k.cursor + 1]>>
                       /\ o.conn.cursor = k.cursor + 1 /\ o.conn.m_stmt = k.m_stmt
<1>1. /\ k.cursor \in Nat /\ k.result \in Seq(Row) /\ Len(k.result) \in Nat
      /\ <<>> \in Seq(Row)
  BY DEF Conn
<1>2. BlankRow \in Row /\ <<BlankRow>> \in Seq(Row)
  BY DEF BlankRow, Row
<1>3. k.m_stmt \in {"null", "init", "prepared", "executed"}
  BY DEF Conn
<1> DEFINE put(l, stmt, n) == [k EXCEPT !.m_last_fetched_row = l, !.m_stmt = stmt, !.cursor = n]
<1>4. ASSUME NEW l \in Seq(Row), o = threw(put(l, k.m_stmt, k.cursor), ServerError)
      PROVE  /\ o.conn \in Conn /\ o.conn.m_use_binary_protocol = k.m_use_binary_protocol
             /\ o.threw = TRUE /\ o.code = ServerError
  <2>1. o.conn = put(l, k.m_stmt, k.cursor) /\ o.threw = TRUE /\ o.code = ServerError
    BY <1>4 DEF threw
  <2>2. PICK d : d = put(l, k.m_stmt, k.cursor)
    OBVIOUS
  <2>3. d \in Conn /\ d.m_use_binary_protocol = k.m_use_binary_protocol
    BY <1>1, <1>3, <2>2 DEF Conn
  <2> HIDE DEF put
  <2> QED BY <2>1, <2>2, <2>3, Zenon
<1>5. ASSUME NEW l \in Seq(Row), NEW stmt \in {k.m_stmt, "null"}, NEW n \in Nat,
             o = returned(put(l, stmt, n))
      PROVE  /\ o.conn \in Conn /\ o.conn.m_use_binary_protocol = k.m_use_binary_protocol
             /\ o.threw = FALSE /\ o.code = 0 /\ o.conn.result = k.result /\ o.conn.m_res = k.m_res
             /\ o.conn.m_last_fetched_row = l /\ o.conn.m_stmt = stmt /\ o.conn.cursor = n
  <2>1. o.conn = put(l, stmt, n) /\ o.threw = FALSE /\ o.code = 0
    BY <1>5 DEF returned
  <2>2. stmt \in {"null", "init", "prepared", "executed"}
    BY <1>3
  <2>3. PICK d : d = put(l, stmt, n)
    OBVIOUS
  <2>4. /\ d \in Conn /\ d.m_last_fetched_row = l /\ d.m_stmt = stmt /\ d.cursor = n
        /\ d.m_use_binary_protocol = k.m_use_binary_protocol
        /\ d.result = k.result /\ d.m_res = k.m_res
    BY <1>1, <2>2, <2>3 DEF Conn
  <2> HIDE DEF put
  <2> QED BY <2>1, <2>3, <2>4, Zenon
<1>6. /\ \A l : [k EXCEPT !.m_last_fetched_row = l] = put(l, k.m_stmt, k.cursor)
      /\ CleanupStatement(k) = put(<<>>, "null", k.cursor)
      /\ fetchNext(k) = put(<<k.result[k.cursor + 1]>>, k.m_stmt, k.cursor + 1)
  BY DEF Conn, CleanupStatement, FreeLastFetched, fetchNext
<1>7. \/ \E l \in {<<>>, <<BlankRow>>} : o = threw(put(l, k.m_stmt, k.cursor), ServerError)
      \/ k.cursor = Len(k.result) /\ \E stmt \in {k.m_stmt, "null"} :
             o = returned(put(<<>>, stmt, k.cursor))
      \/ k.cursor # Len(k.result) /\ o = returned(put(<<k.result[k.cursor + 1]>>, k.m_stmt, k.cursor + 1))
  <2> HIDE DEF put
  <2> QED BY <1>6 DEF Advance, AdvanceBinary, AdvanceText, FreeLastFetched
<1> HIDE DEF put
<1>8. CASE \E l \in {<<>>, <<BlankRow>>} : o = threw(put(l, k.m_stmt, k.cursor), ServerError)
  <2>1. \E l \in Seq(Row) : o = threw(put(l, k.m_stmt, k.cursor), ServerError)
    BY <1>1, <1>2, <1>8
  <2> QED BY <1>4, <2>1, Zenon
<1>9. CASE k.cursor = Len(k.result) /\ \E stmt \in {k.m_stmt, "null"} :
             o = returned(put(<<>>, stmt, k.cursor))
  <2>1. PICK stmt \in {k.m_stmt, "null"} : o = returned(put(<<>>, stmt, k.cursor))
    BY <1>9
  <2>2. /\ o.conn \in Conn /\ o.conn.m_use_binary_protocol = k.m_use_binary_protocol
        /\ o.threw = FALSE /\ o.code = 0 /\ o.conn.result = k.result /\ o.conn.m_res = k.m_res
        /\ o.conn.m_last_fetched_row = <<>> /\ o.conn.cursor = k.cursor
    BY <1>1, <1>5, <2>1, Zenon
  <2> QED BY <1>9, <2>2, Zenon
<1>10. CASE /\ k.cursor # Len(k.result)
            /\ o = returned(put(<<k.result[k.cursor + 1]>>, k.m_stmt, k.cursor + 1))
  <2>1. k.cursor + 1 \in 1 .. Len(k.result) /\ k.cursor + 1 \in Nat
    BY <1>1, <1>10
  <2>2. <<k.result[k.cursor + 1]>> \in Seq(Row)
    BY <1>1, <2>1
  <2>3. PICK l \in Seq(Row) : l = <<k.result[k.cursor + 1]>>
    BY <2>2
  <2>4. o = returned(put(l, k.m_stmt, k.cursor + 1)) /\ k.m_stmt \in {k.m_stmt, "null"}
    BY <1>10, <2>3, Zenon
  <2>5. /\ o.conn \in Conn /\ o.conn.m_use_binary_protocol = k.m_use_binary_protocol
        /\ o.threw = FALSE /\ o.code = 0 /\ o.conn.result = k.result /\ o.conn.m_res = k.m_res
        /\ o.conn.m_last_fetched_row = l /\ o.conn.m_stmt = k.m_stmt
        /\ o.conn.cursor = k.cursor + 1
    BY <1>5, <2>1, <2>4, Zenon
  <2> QED BY <1>10, <2>3, <2>5, Zenon
<1> QED BY <1>7, <1>8, <1>9, <1>10

\* What Prepare leaves: an error, or a statement before its first row, or the first row.
LEMMA Prepared ==
    ASSUME rows \in Seq(Row), isParallel \in BOOLEAN,
           NEW o \in Prepare(newConnection, rows, isParallel)
    PROVE  /\ o.conn \in Conn /\ o.conn.m_use_binary_protocol = TRUE
           /\ o.code \in {0, ServerError}
           /\ o.code = 0 =>
                 /\ o.conn.result = rows
                 /\ rows # NoResultSet /\ isParallel /\ Len(rows) # 0 =>
                       /\ o.conn.m_last_fetched_row = <<rows[1]>>
                       /\ o.conn.cursor = 1 /\ o.conn.m_stmt = "executed"
                 /\ Len(rows) = 0 \/ ~isParallel =>
                       o.conn.m_last_fetched_row = <<>> /\ o.conn.cursor = 0
                 /\ ~isParallel => o.conn.m_stmt = "executed"
<1> DEFINE clean(stmt) == [CleanupStatement(newConnection) EXCEPT !.m_stmt = stmt,
                                                               !.m_use_binary_protocol = TRUE]
           k == [clean("executed") EXCEPT !.result = rows, !.cursor = 0]
<1>0. ServerError # 0 /\ <<>> \in Seq(Row) /\ Len(rows) \in Nat
  BY DEF ServerError
<1>1. \/ \E stmt \in {"null", "init", "prepared"} : o = threw(clean(stmt), ServerError)
      \/ rows # NoResultSet /\ isParallel /\ o \in Advance(k)
      \/ ~(rows # NoResultSet /\ isParallel) /\ o = returned(k)
  BY DEF Prepare, opened
<1>2. CASE \E stmt \in {"null", "init", "prepared"} : o = threw(clean(stmt), ServerError)
  <2>1. PICK stmt \in {"null", "init", "prepared"} : o = threw(clean(stmt), ServerError)
    BY <1>2
  <2>2. PICK d : d = clean(stmt)
    OBVIOUS
  <2>3. d \in Conn /\ d.m_use_binary_protocol = TRUE
    BY <1>0, <2>2 DEF CleanupStatement, FreeLastFetched, newConnection, Conn
  <2>4. o.conn = d /\ o.code = ServerError
    <3> HIDE DEF clean
    <3> QED BY <2>1, <2>2 DEF threw
  <2> QED BY <1>0, <2>3, <2>4
<1>3. PICK d : d = k
  OBVIOUS
<1>4. /\ d \in Conn /\ d.m_stmt = "executed" /\ d.m_use_binary_protocol = TRUE
      /\ d.m_last_fetched_row = <<>> /\ d.result = rows /\ d.cursor = 0
  BY <1>0, <1>3 DEF CleanupStatement, FreeLastFetched, newConnection, Conn
<1> HIDE DEF k, clean
<1>5. CASE rows # NoResultSet /\ isParallel /\ o \in Advance(k)
  <2>1. o \in Advance(d) /\ d.cursor <= Len(d.result)
    BY <1>0, <1>3, <1>4, <1>5
  <2>2. /\ o.conn \in Conn /\ o.conn.m_use_binary_protocol = d.m_use_binary_protocol
        /\ o.threw \in BOOLEAN /\ (o.threw => o.code = ServerError)
        /\ ~o.threw =>
              /\ o.code = 0 /\ o.conn.result = d.result
              /\ d.cursor = Len(d.result) =>
                    o.conn.m_last_fetched_row = <<>> /\ o.conn.cursor = d.cursor
              /\ d.cursor # Len(d.result) =>
                    /\ o.conn.m_last_fetched_row = <<d.result[d.cursor + 1]>>
                    /\ o.conn.cursor = d.cursor + 1 /\ o.conn.m_stmt = d.m_stmt
    BY <1>4, <2>1, Advanced
  <2>3. d.result[d.cursor + 1] = rows[1] /\ d.cursor + 1 = 1
    BY <1>4
  <2> QED BY <1>0, <1>4, <1>5, <2>2, <2>3
<1>6. CASE ~(rows # NoResultSet /\ isParallel) /\ o = returned(k)
  <2>1. o.conn = d /\ o.code = 0
    BY <1>3, <1>6 DEF returned
  <2> QED BY <1>4, <1>6, <2>1
<1> QED BY <1>1, <1>2, <1>5, <1>6

\* What Execute leaves: an error, or no result, or a result of which it has fetched
\* the first row.
LEMMA Executed ==
    ASSUME rows \in Seq(Row), NEW o \in Execute(newConnection, rows)
    PROVE  /\ o.conn \in Conn /\ o.conn.m_use_binary_protocol = FALSE
           /\ o.code \in {0, ServerError}
           /\ o.code = 0 /\ rows = NoResultSet => o.conn.m_res = "null"
           /\ o.code = 0 /\ rows # NoResultSet =>
                 /\ o.conn.result = rows /\ o.conn.m_res = "open"
                 /\ o.conn.cursor = IF Len(rows) = 0 THEN 0 ELSE 1
<1> DEFINE text == [newConnection EXCEPT !.m_use_binary_protocol = FALSE]
           none == [text EXCEPT !.m_res = "null"]
           k == [[text EXCEPT !.result = rows, !.cursor = 0] EXCEPT !.m_res = "open"]
<1>0. ServerError # 0 /\ <<>> \in Seq(Row) /\ Len(rows) \in Nat
  BY DEF ServerError
<1>1. \/ o = threw(text, ServerError)
      \/ rows = NoResultSet /\ o = threw(none, 0)
      \/ rows # NoResultSet /\ o \in Advance(k)
  BY DEF Execute, opened
<1>2. PICK t, u : t = text /\ u = none
  OBVIOUS
<1>3. /\ t \in Conn /\ t.m_use_binary_protocol = FALSE
      /\ u \in Conn /\ u.m_use_binary_protocol = FALSE /\ u.m_res = "null"
  BY <1>0, <1>2 DEF newConnection, Conn
<1>4. PICK d : d = k
  OBVIOUS
<1>5. /\ d \in Conn /\ d.m_use_binary_protocol = FALSE /\ d.m_res = "open"
      /\ d.result = rows /\ d.cursor = 0
  BY <1>0, <1>4 DEF newConnection, Conn
<1> HIDE DEF k, text, none
<1>6. CASE o = threw(text, ServerError) \/ (rows = NoResultSet /\ o = threw(none, 0))
  <2>1. \/ o.conn = t /\ o.code = ServerError
        \/ o.conn = u /\ o.code = 0 /\ rows = NoResultSet
    BY <1>0, <1>2, <1>6 DEF threw
  <2> QED BY <1>0, <1>3, <2>1
<1>7. CASE rows # NoResultSet /\ o \in Advance(k)
  <2>1. o \in Advance(d) /\ d.cursor <= Len(d.result)
    BY <1>0, <1>7, <1>4, <1>5
  <2>2. /\ o.conn \in Conn /\ o.conn.m_use_binary_protocol = d.m_use_binary_protocol
        /\ o.threw \in BOOLEAN /\ (o.threw => o.code = ServerError)
        /\ ~o.threw =>
              /\ o.code = 0 /\ o.conn.result = d.result /\ o.conn.m_res = d.m_res
              /\ d.cursor = Len(d.result) => o.conn.cursor = d.cursor
              /\ d.cursor # Len(d.result) => o.conn.cursor = d.cursor + 1
    BY <1>5, <2>1, Advanced
  <2> QED BY <1>0, <1>7, <1>5, <2>2
<1> QED BY <1>1, <1>6, <1>7

-----------------------------------------------------------------------------
(* The steps.                                                              *)

\* The invariant holds when the reader is created.
LEMMA InitIInv == Init => IInv
<1> SUFFICES ASSUME Init PROVE IInv
  OBVIOUS
<1>1. /\ <<>> \in Seq(Row) /\ <<>> \in Seq(Seq(Row)) /\ Len(<<>>) = 0
      /\ NoResultSet \in Seq(Row) /\ Len(NoResultSet) = 1 /\ NoResultSet # <<>>
  BY DEF NoResultSet, Row
<1>2. ASSUME rows \in ResultSets
      PROVE  rows \in Seq(Row) /\ \A i \in 1 .. Len(rows) : rows[i].id = i
  <2>0. PICK n \in 0 .. MaxRows :
           rows \in {[i \in 1 .. n |-> [id |-> i, size |-> size[i]]] : size \in [1 .. n -> RowSizes]}
    BY <1>2 DEF ResultSets
  <2>1. PICK size \in [1 .. n -> RowSizes] :
           rows = [i \in 1 .. n |-> [id |-> i, size |-> size[i]]]
    BY <2>0
  <2>2. n \in Nat /\ \A i \in 1 .. n : size[i] \in Nat
    <3>1. RowSizes \subseteq Nat /\ MaxRows \in Nat
      BY RowStreamAssumption
    <3>2. \A i \in 1 .. n : size[i] \in RowSizes
      BY <2>1
    <3>3. n \in Nat
      BY <3>1, <2>0
    <3> QED BY <3>1, <3>2, <3>3
  <2>3. rows \in [1 .. n -> Row] /\ \A i \in 1 .. n : rows[i].id = i
    BY <2>1, <2>2 DEF Row
  <2>4. rows \in Seq(Row) /\ Len(rows) = n
    BY <2>2, <2>3, SeqDef, LenProperties
  <2> QED BY <2>3, <2>4
<1>3. /\ isParallel \in BOOLEAN /\ usePrepared \in BOOLEAN
      /\ isParallel => usePrepared /\ rows \in ResultSets
      /\ rows \in ResultSets \cup {NoResultSet}
  BY RowStreamAssumption DEF Init
<1>4. NoResultSet \notin ResultSets
  <2> SUFFICES ASSUME NoResultSet \in ResultSets PROVE FALSE
    OBVIOUS
  <2>0. PICK n \in 0 .. MaxRows : NoResultSet \in
           {[i \in 1 .. n |-> [id |-> i, size |-> size[i]]] : size \in [1 .. n -> RowSizes]}
    BY DEF ResultSets
  <2>1. PICK size \in [1 .. n -> RowSizes] :
           NoResultSet = [i \in 1 .. n |-> [id |-> i, size |-> size[i]]]
    BY <2>0
  <2>2. DOMAIN NoResultSet = 1 .. 1 /\ NoResultSet[1].id = 0
    BY DEF NoResultSet
  <2>3. 1 \in 1 .. n
    BY <2>1, <2>2
  <2>4. NoResultSet[1].id = 1
    BY <2>1, <2>3
  <2> QED BY <2>2, <2>4
<1>5. newConnection \in Conn
  BY <1>1 DEF newConnection, Conn
<1>6. Typed
  BY <1>1, <1>2, <1>3, <1>5 DEF Init, Typed
<1>7. Numbered
  BY <1>2, <1>3, <1>4 DEF Numbered
<1>8. Opening
  BY DEF Init, Opening
<1>9. delivered = <<>> /\ skipped \in {0, 1} /\ (skipped = 1 => rows # <<>>)
  BY DEF Init, delivered, FlattenSeq, skipped
<1>10. Placed
  <2>1. Len(rows) \in Nat /\ (rows # <<>> => Len(rows) # 0)
    BY <1>6 DEF Typed
  <2>2. skipped + Len(delivered) <= Len(rows)
    BY <1>1, <1>9, <2>1
  <2> QED BY <1>1, <1>9, <2>2 DEF Init, Placed, Reading
<1>11. ChunksFilled
  BY DEF Init, ChunksFilled
<1> QED BY <1>6, <1>7, <1>8, <1>10, <1>11 DEF IInv

\* A step that pushes nothing.
LEMMA NothingPushed ==
    ASSUME IInv, UNCHANGED <<isParallel, usePrepared, rows, pushed>>
    PROVE  /\ Numbered' /\ ChunksFilled' /\ delivered' = delivered /\ skipped' = skipped
           /\ skipped \in {0, 1} /\ delivered \in Seq(Row) /\ Len(delivered) \in Nat
           /\ skipped + Len(delivered) <= Len(rows)
           /\ \A i \in 1 .. Len(delivered) : delivered[i] = rows[skipped + i]
<1>1. Numbered' /\ ChunksFilled'
  BY DEF IInv, Numbered, ChunksFilled
<1>2. delivered' = delivered /\ skipped' = skipped /\ skipped \in {0, 1}
  BY DEF delivered, skipped
<1>3. delivered \in Seq(Row)
  <2>1. pushed \in Seq(Seq(Row)) /\ <<>> \in Seq(Row)
    BY DEF IInv, Typed
  <2> QED BY <2>1, FlattenAppend DEF delivered
<1> QED BY <1>1, <1>2, <1>3 DEF IInv, Placed

\* PrepareRead, by the reader or by its creator.
LEMMA PrepareStep == IInv /\ PrepareRead => IInv'
<1> SUFFICES ASSUME IInv, PrepareRead PROVE IInv'
  OBVIOUS
<1>1. /\ Numbered' /\ ChunksFilled' /\ delivered' = delivered /\ skipped' = skipped
      /\ skipped \in {0, 1} /\ delivered \in Seq(Row) /\ Len(delivered) \in Nat
      /\ skipped + Len(delivered) <= Len(rows)
      /\ \A i \in 1 .. Len(delivered) : delivered[i] = rows[skipped + i]
  BY NothingPushed DEF PrepareRead
<1>2. /\ pc = "PrepareRead" /\ conn = newConnection /\ pushed = <<>> /\ chunk = <<>>
      /\ rows \in Seq(Row) /\ isParallel \in BOOLEAN /\ usePrepared \in BOOLEAN
      /\ UNCHANGED <<isParallel, usePrepared, rows, m_stop_reading, chunk, pushed>>
  BY DEF IInv, Opening, Typed, PrepareRead
<1>3. PICK o \in IF usePrepared THEN Prepare(conn, rows, isParallel) ELSE Execute(conn, rows) :
         /\ conn' = o.conn /\ m_error' = o.code
         /\ isParallel => pc' = IF o.code # 0 THEN "done" ELSE "loop"
         /\ ~isParallel => pc' = IF o.code # 0 THEN "nullptr" ELSE "UpdateRowSchema"
  BY DEF PrepareRead
<1>4. usePrepared => o \in Prepare(newConnection, rows, isParallel)
  BY <1>2, <1>3
<1>5. ~usePrepared => o \in Execute(newConnection, rows) /\ ~isParallel
  BY <1>2, <1>3 DEF IInv, Numbered
<1>6. o.conn \in Conn /\ o.code \in {0, ServerError} /\ o.conn.m_use_binary_protocol = usePrepared
  BY <1>2, <1>4, <1>5, Prepared, Executed
<1>7. rows = <<>> <=> Len(rows) = 0
  BY <1>2
<1>8. Typed'
  <2>1. o.code \in Nat
    BY <1>6 DEF ServerError
  <2>2. pc' \in {"PrepareRead", "UpdateRowSchema", "Prefetch", "done", "nullptr", "crashed"}
                  \cup Reading
    BY <1>2, <1>3 DEF Reading
  <2> QED BY <1>2, <1>3, <1>6, <2>1, <2>2 DEF IInv, Typed
<1>9. Opening'
  <2> SUFFICES ASSUME ~isParallel, o.code = 0
               PROVE  /\ rows = NoResultSet =>
                            IF usePrepared THEN o.conn.result = NoResultSet
                            ELSE o.conn.m_res = "null"
                      /\ rows # NoResultSet =>
                            /\ o.conn.result = rows /\ o.conn.cursor = skipped
                            /\ IF usePrepared THEN o.conn.m_stmt = "executed"
                               ELSE o.conn.m_res = "open"
    BY <1>1, <1>2, <1>3, <1>6 DEF Opening
  <2>1. CASE usePrepared
    <3>1. o.conn.result = rows /\ o.conn.cursor = 0 /\ o.conn.m_stmt = "executed"
      BY <1>2, <1>4, <2>1, Prepared
    <3> QED BY <2>1, <3>1 DEF skipped
  <2>2. CASE ~usePrepared
    <3>1. /\ rows = NoResultSet => o.conn.m_res = "null"
          /\ rows # NoResultSet =>
                /\ o.conn.result = rows /\ o.conn.m_res = "open"
                /\ o.conn.cursor = IF Len(rows) = 0 THEN 0 ELSE 1
      BY <1>2, <1>5, <2>2, Executed
    <3> QED BY <1>7, <2>2, <3>1 DEF skipped
  <2> QED BY <2>1, <2>2
<1>10. Placed'
  <2>1. CASE pc' # "loop"
    <3>1. pc' \notin Reading /\ (pc' = "done" => m_error' # 0)
      BY <1>2, <1>3, <2>1 DEF Reading
    <3> QED BY <1>1, <1>2, <2>1, <3>1 DEF Placed, Reading
  <2>2. CASE pc' = "loop"
    <3>1. isParallel /\ usePrepared /\ rows # NoResultSet /\ o.code = 0
      BY <1>2, <1>3, <2>2 DEF IInv, Numbered
    <3>2. /\ conn'.result = rows
          /\ Len(rows) # 0 => /\ conn'.m_last_fetched_row = <<rows[1]>>
                               /\ conn'.cursor = 1 /\ conn'.m_stmt = "executed"
          /\ Len(rows) = 0 => conn'.m_last_fetched_row = <<>> /\ conn'.cursor = 0
      <4>1. o \in Prepare(newConnection, rows, isParallel) /\ conn' = o.conn
        BY <1>3, <1>4, <3>1
      <4>2. /\ o.conn.result = rows
            /\ Len(rows) # 0 => /\ o.conn.m_last_fetched_row = <<rows[1]>>
                                 /\ o.conn.cursor = 1 /\ o.conn.m_stmt = "executed"
            /\ Len(rows) = 0 => o.conn.m_last_fetched_row = <<>> /\ o.conn.cursor = 0
        <5>1. rows \in Seq(Row) /\ isParallel \in BOOLEAN /\ Len(rows) \in Nat
          BY <1>2
        <5>2. o.code = 0 =>
                 /\ o.conn.result = rows
                 /\ rows # NoResultSet /\ isParallel /\ Len(rows) # 0 =>
                       /\ o.conn.m_last_fetched_row = <<rows[1]>>
                       /\ o.conn.cursor = 1 /\ o.conn.m_stmt = "executed"
                 /\ Len(rows) = 0 \/ ~isParallel =>
                       o.conn.m_last_fetched_row = <<>> /\ o.conn.cursor = 0
          BY <4>1, <5>1, Prepared
        <5> QED BY <3>1, <5>2, Zenon
      <4> QED BY <4>1, <4>2
    <3>3. <<rows[1]>> # <<>> /\ Len(rows) \in Nat
      BY <1>2
    <3>4. Fetched(conn)' /\ behind(conn)' = 0
      <4>1. rows' = rows /\ usePrepared' = usePrepared
        BY <1>2
      <4>2. CASE Len(rows) = 0
        BY <3>1, <3>2, <4>1, <4>2 DEF Fetched, behind, HasNextRow
      <4>3. CASE Len(rows) # 0
        <5>1. /\ conn'.result = rows' /\ conn'.cursor = 1 /\ conn'.m_stmt = "executed"
              /\ conn'.m_last_fetched_row = <<rows'[1]>> /\ conn'.m_last_fetched_row # <<>>
          BY <3>2, <3>3, <4>1, <4>3
        <5>2. 1 \in 0 .. Len(rows')
          BY <3>3, <4>1, <4>3
        <5> QED BY <3>1, <4>1, <5>1, <5>2 DEF Fetched, behind, HasNextRow
      <4> QED BY <4>2, <4>3
    <3>5. Len(delivered) = 0 /\ skipped = 0 /\ Len(chunk) = 0
      BY <1>2, <3>1 DEF delivered, FlattenSeq, skipped
    <3>6. used(chunk) = 0 /\ ChunkSize \in Nat
      BY <1>2, UsedEmpty, RowStreamAssumption
    <3> QED BY <1>1, <1>2, <1>3, <2>2, <3>1, <3>4, <3>5, <3>6 DEF Placed
  <2> QED BY <2>1, <2>2
<1> QED BY <1>1, <1>8, <1>9, <1>10 DEF IInv

\* UpdateRowSchema, which crashes when there is no result set to describe.
LEMMA SchemaStep == IInv /\ UpdateRowSchema => IInv'
<1> SUFFICES ASSUME IInv, UpdateRowSchema PROVE IInv'
  OBVIOUS
<1>1. /\ Numbered' /\ ChunksFilled' /\ delivered' = delivered /\ skipped' = skipped
      /\ skipped + Len(delivered) <= Len(rows)
      /\ \A i \in 1 .. Len(delivered) : delivered[i] = rows[skipped + i]
  BY NothingPushed DEF UpdateRowSchema
<1>2. /\ pc = "UpdateRowSchema"
      /\ UNCHANGED <<isParallel, usePrepared, rows, m_error, m_stop_reading, chunk, pushed>>
  BY DEF UpdateRowSchema
<1>3. /\ conn' = conn /\ pc' \in {"crashed", "nullptr", "Prefetch"}
      /\ pc' = "Prefetch" => rows # NoResultSet
  <2>1. CASE pc' = "crashed" /\ UNCHANGED conn
    BY <2>1
  <2>2. CASE /\ conn.m_use_binary_protocol \/ conn.m_res # "null"
             /\ \E o \in GetRowSchema(conn) :
                   conn' = o.conn /\ pc' = IF o.threw THEN "nullptr" ELSE "Prefetch"
    <3>1. PICK o \in GetRowSchema(conn) :
             conn' = o.conn /\ pc' = IF o.threw THEN "nullptr" ELSE "Prefetch"
      BY <2>2
    <3>2. o.conn = conn
      BY <3>1 DEF GetRowSchema, returned, threw
    <3>3. ASSUME rows = NoResultSet PROVE o.threw
      <4>1. conn.m_use_binary_protocol = usePrepared /\ usePrepared \in BOOLEAN
        BY <1>2 DEF IInv, Opening, Typed
      <4>2. IF usePrepared THEN conn.result = NoResultSet ELSE conn.m_res = "null"
        BY <1>2, <3>3 DEF IInv, Opening
      <4>3. conn.m_use_binary_protocol /\ conn.result = NoResultSet
        BY <2>2, <4>1, <4>2
      <4> QED BY <3>1, <4>3 DEF GetRowSchema, threw
    <3> QED BY <3>1, <3>2, <3>3
  <2> QED BY <2>1, <2>2 DEF UpdateRowSchema
<1>4. Typed'
  BY <1>2, <1>3 DEF IInv, Typed
<1>5. Opening'
  BY <1>1, <1>2, <1>3 DEF IInv, Opening
<1>6. Placed'
  BY <1>1, <1>2, <1>3 DEF Placed, Reading
<1> QED BY <1>1, <1>4, <1>5, <1>6 DEF IInv

\* After a fetch that did not fail the row at the cursor is in memory, or it was the end.
LEMMA FetchedAgain ==
    ASSUME Typed, conn.result = rows, conn.cursor \in 0 .. Len(rows),
           conn.m_use_binary_protocol = usePrepared,
           IF usePrepared THEN conn.m_stmt = "executed" ELSE conn.m_res = "open",
           NEW o \in Advance(conn), ~o.threw
    PROVE  Fetched(o.conn) /\ behind(o.conn) = conn.cursor
<1>1. /\ conn \in Conn /\ conn.cursor <= Len(conn.result) /\ conn.cursor \in Nat
      /\ Len(rows) \in Nat /\ usePrepared \in BOOLEAN
  BY DEF Typed
<1>2. /\ o.conn.result = rows /\ o.conn.m_res = conn.m_res
      /\ conn.cursor = Len(rows) =>
            o.conn.m_last_fetched_row = <<>> /\ o.conn.cursor = conn.cursor
      /\ conn.cursor # Len(rows) =>
            /\ o.conn.m_last_fetched_row = <<rows[conn.cursor + 1]>>
            /\ o.conn.cursor = conn.cursor + 1 /\ o.conn.m_stmt = conn.m_stmt
  BY <1>1, Advanced
<1>3. CASE conn.cursor = Len(rows)
  BY <1>1, <1>2, <1>3 DEF Fetched, behind, HasNextRow
<1>4. CASE conn.cursor # Len(rows)
  <2>1. PICK n \in Nat : n = conn.cursor + 1
    BY <1>1
  <2>2. n \in 0 .. Len(rows) /\ n >= 1 /\ n - 1 = conn.cursor
    BY <1>1, <1>4, <2>1
  <2>3. o.conn.m_last_fetched_row = <<rows[n]>> /\ o.conn.cursor = n /\ <<rows[n]>> # <<>>
    BY <1>2, <1>4, <2>1
  <2> QED BY <1>1, <1>2, <1>4, <2>2, <2>3 DEF Fetched, behind, HasNextRow
<1> QED BY <1>3, <1>4

\* The first row of a read that QueryGetQueue started.
LEMMA PrefetchStep == IInv /\ Prefetch => IInv'
<1> SUFFICES ASSUME IInv, Prefetch PROVE IInv'
  OBVIOUS
<1>1. /\ Numbered' /\ ChunksFilled' /\ delivered' = delivered /\ skipped' = skipped
      /\ skipped \in {0, 1} /\ skipped + Len(delivered) <= Len(rows)
      /\ \A i \in 1 .. Len(delivered) : delivered[i] = rows[skipped + i]
  BY NothingPushed DEF Prefetch
<1>2. /\ pc = "Prefetch" /\ Typed /\ rows # NoResultSet
      /\ UNCHANGED <<isParallel, usePrepared, rows, m_error, m_stop_reading, chunk, pushed>>
      /\ m_error = 0 /\ pushed = <<>> /\ chunk = <<>>
      /\ conn.m_use_binary_protocol = usePrepared
      /\ conn.result = rows /\ conn.cursor = skipped
      /\ IF usePrepared THEN conn.m_stmt = "executed" ELSE conn.m_res = "open"
  BY DEF Prefetch, IInv, Opening
<1>3. PICK o \in Advance(conn) :
         conn' = o.conn /\ pc' = IF o.threw THEN "nullptr" ELSE "loop"
  BY DEF Prefetch
<1>4. Len(delivered) = 0 /\ Len(chunk) = 0
  BY <1>2 DEF delivered, FlattenSeq
<1>5. conn.cursor \in 0 .. Len(rows) /\ conn \in Conn /\ conn.cursor <= Len(conn.result)
  BY <1>1, <1>2, <1>4 DEF Typed
<1>6. o.conn \in Conn /\ o.conn.m_use_binary_protocol = conn.m_use_binary_protocol
  BY <1>5, Advanced
<1>7. Typed'
  BY <1>2, <1>3, <1>6 DEF Typed, Reading
<1>8. Opening'
  BY <1>2, <1>3, <1>6 DEF Opening
<1>9. Placed'
  <2>1. CASE o.threw
    BY <1>1, <1>2, <1>3, <2>1 DEF Placed, Reading
  <2>2. CASE ~o.threw
    <3>1. Fetched(o.conn) /\ behind(o.conn) = skipped
      BY <1>2, <1>5, <2>2, FetchedAgain
    <3>2. Fetched(conn)' /\ behind(conn)' = skipped
      BY <1>2, <1>3, <3>1 DEF Fetched, behind
    <3>3. used(chunk) = 0 /\ ChunkSize \in Nat
      BY <1>2, UsedEmpty, RowStreamAssumption
    <3> QED BY <1>1, <1>2, <1>3, <1>4, <2>2, <3>2, <3>3 DEF Placed
  <2> QED BY <2>1, <2>2
<1> QED BY <1>1, <1>7, <1>8, <1>9 DEF IInv

\* The steps of the loop that neither write a row nor push a chunk.
LEMMA LoopStep ==
    IInv /\ (StartChunk \/ LeaveLoop \/ WriteRowThrows \/ StopReading) => IInv'
<1> SUFFICES ASSUME IInv, StartChunk \/ LeaveLoop \/ WriteRowThrows \/ StopReading PROVE IInv'
  OBVIOUS
<1>1. /\ UNCHANGED <<isParallel, usePrepared, rows, conn, pushed, errno>>
      /\ pc \in Reading /\ chunk' \in {chunk, <<>>}
      /\ chunk' # chunk => pc = "loop"
  BY DEF StartChunk, LeaveLoop, WriteRowThrows, StopReading, Reading, Fail
<1>2. /\ Numbered' /\ ChunksFilled' /\ delivered' = delivered /\ skipped' = skipped
      /\ skipped + Len(delivered) <= Len(rows) /\ Len(delivered) \in Nat /\ skipped \in {0, 1}
      /\ \A i \in 1 .. Len(delivered) : delivered[i] = rows[skipped + i]
  BY <1>1, NothingPushed
<1>3. /\ rows # NoResultSet /\ m_error = 0 /\ Fetched(conn)
      /\ skipped + Len(delivered) + Len(chunk) = behind(conn)
      /\ \A i \in 1 .. Len(chunk) : chunk[i] = rows[skipped + Len(delivered) + i]
      /\ used(chunk) \in Nat /\ used(chunk) <= ChunkSize
      /\ pc = "loop" => chunk = <<>>
      /\ pc = "NextChunk" => HasNextRow(conn) \/ chunk # <<>>
  BY <1>1 DEF IInv, Placed
<1>4. chunk' = chunk
  BY <1>1, <1>3
<1>5. /\ pc' \in Reading \cup {"done"} /\ m_error' \in Nat /\ m_stop_reading' \in BOOLEAN
      /\ pc' \in Reading => m_error' = 0
      /\ pc' = "loop" => pc = "loop"
      /\ pc' = "NextChunk" => pc = "NextChunk" \/ HasNextRow(conn)
      /\ pc' = "done" /\ m_error' = 0 =>
            m_stop_reading' \/ (pc = "loop" /\ ~HasNextRow(conn))
  <2>1. m_error \in Nat /\ m_stop_reading \in BOOLEAN /\ ServerError \in Nat /\ ServerError # 0
    BY DEF IInv, Typed, ServerError
  <2>2. CASE StartChunk
    BY <1>3, <2>1, <2>2 DEF StartChunk, Fail, Reading
  <2>3. CASE LeaveLoop
    BY <1>3, <2>1, <2>3 DEF LeaveLoop, Reading
  <2>4. CASE WriteRowThrows
    BY <1>3, <2>1, <2>4 DEF WriteRowThrows, Fail, Reading
  <2>5. CASE StopReading
    BY <1>3, <2>1, <2>5 DEF StopReading, Reading
  <2> QED BY <2>2, <2>3, <2>4, <2>5
<1>6. Typed'
  BY <1>1, <1>4, <1>5 DEF IInv, Typed
<1>7. Opening'
  BY <1>1, <1>2, <1>5 DEF IInv, Opening, Reading
<1>8. Placed'
  <2>1. Fetched(conn)' /\ behind(conn)' = behind(conn) /\ used(chunk)' = used(chunk)
    BY <1>1, <1>3, <1>4 DEF Fetched, behind
  <2>2. pc' = "done" /\ m_error' = 0 /\ ~m_stop_reading' => skipped + Len(delivered) = Len(rows)
    <3> SUFFICES ASSUME pc = "loop", ~HasNextRow(conn)
                 PROVE  skipped + Len(delivered) = Len(rows)
      BY <1>5
    <3>1. Len(chunk) = 0 /\ behind(conn) = Len(rows)
      BY <1>3 DEF behind
    <3> QED BY <1>2, <1>3, <3>1
  <2> QED BY <1>1, <1>2, <1>3, <1>4, <1>5, <2>1, <2>2 DEF Placed
<1> QED BY <1>2, <1>6, <1>7, <1>8 DEF IInv

\* A row is written and the next one fetched.
LEMMA WriteStep == IInv /\ WriteRow => IInv'
<1> SUFFICES ASSUME IInv, WriteRow PROVE IInv'
  OBVIOUS
<1>1. /\ Numbered' /\ ChunksFilled' /\ delivered' = delivered /\ skipped' = skipped
      /\ skipped \in {0, 1} /\ Len(delivered) \in Nat
      /\ skipped + Len(delivered) <= Len(rows)
      /\ \A i \in 1 .. Len(delivered) : delivered[i] = rows[skipped + i]
  BY NothingPushed DEF WriteRow
<1>2. /\ pc = "NextChunk" /\ HasNextRow(conn) /\ Typed
      /\ UNCHANGED <<isParallel, usePrepared, rows, m_stop_reading, pushed, errno>>
      /\ rows # NoResultSet /\ m_error = 0 /\ Fetched(conn)
      /\ skipped + Len(delivered) + Len(chunk) = behind(conn)
      /\ \A i \in 1 .. Len(chunk) : chunk[i] = rows[skipped + Len(delivered) + i]
      /\ used(chunk) \in Nat
  BY DEF WriteRow, IInv, Placed, Reading
<1>3. PICK n \in Nat : n = conn.cursor
  BY <1>2 DEF Typed, Conn
<1>4. PICK row : row = rows[n]
  OBVIOUS
<1>5. /\ n \in 1 .. Len(rows) /\ row \in Row /\ conn.m_last_fetched_row = <<row>>
      /\ skipped + Len(delivered) + Len(chunk) = n - 1
      /\ Len(rows) \in Nat /\ Len(chunk) \in Nat /\ chunk \in Seq(Row)
  BY <1>2, <1>3, <1>4 DEF Fetched, behind, Typed
<1>6. chunk' = Append(chunk, row) /\ ChunkSize - used(chunk) >= row.size
  <2>1. chunk' = chunk \o <<row>> /\ HasEnoughSpace(chunk, row.size)
    BY <1>5 DEF WriteRow
  <2> QED BY <1>5, <2>1 DEF HasEnoughSpace
<1>7. /\ chunk' \in Seq(Row) /\ Len(chunk') = Len(chunk) + 1
      /\ chunk'[Len(chunk) + 1] = row /\ \A i \in 1 .. Len(chunk) : chunk'[i] = chunk[i]
      /\ chunk' # <<>>
  BY <1>5, <1>6, AppendProperties
<1>8. used(chunk') \in Nat /\ used(chunk') <= ChunkSize
  <2>1. used(chunk') = used(chunk) + row.size
    BY <1>5, <1>6, UsedAppend
  <2>2. row.size \in Nat /\ ChunkSize \in Nat
    BY <1>5, RowStreamAssumption DEF Row
  <2> QED BY <1>2, <1>6, <2>1, <2>2
<1>9. PICK o \in Advance(conn) :
         /\ conn' = o.conn
         /\ \/ o.threw /\ Fail(o.code)
            \/ ~o.threw /\ UNCHANGED <<m_error, pc>>
  BY DEF WriteRow
<1>10. /\ conn \in Conn /\ conn.cursor <= Len(conn.result) /\ conn.cursor \in 0 .. Len(rows)
       /\ conn.result = rows /\ conn.m_use_binary_protocol = usePrepared
       /\ IF usePrepared THEN conn.m_stmt = "executed" ELSE conn.m_res = "open"
  BY <1>2, <1>3, <1>5 DEF Typed, Fetched, IInv, Opening
<1>11. /\ o.conn \in Conn /\ o.conn.m_use_binary_protocol = conn.m_use_binary_protocol
       /\ o.threw => o.code = ServerError
  BY <1>10, Advanced
<1>12. \/ pc' = "done" /\ m_error' = ServerError /\ ServerError \in Nat /\ ServerError # 0
       \/ ~o.threw /\ pc' = pc /\ m_error' = m_error
  BY <1>9, <1>11 DEF Fail, ServerError
<1>13. Typed'
  BY <1>2, <1>7, <1>9, <1>11, <1>12 DEF Typed, Reading
<1>14. Opening'
  BY <1>2, <1>9, <1>10, <1>11, <1>12 DEF Opening
<1>15. Placed'
  <2>1. CASE pc' = "done" /\ m_error' # 0
    BY <1>1, <1>2, <2>1 DEF Placed, Reading
  <2>2. CASE ~o.threw /\ pc' = pc /\ m_error' = m_error
    <3>1. Fetched(o.conn) /\ behind(o.conn) = n
      BY <1>2, <1>3, <1>10, <2>2, FetchedAgain
    <3>2. Fetched(conn)' /\ behind(conn)' = n
      BY <1>2, <1>9, <3>1 DEF Fetched, behind
    <3>3. skipped + Len(delivered) + Len(chunk') = n
      <4>1. PICK a \in Nat : a = skipped + Len(delivered)
        BY <1>1
      <4>2. a + Len(chunk) = n - 1 /\ Len(chunk') = Len(chunk) + 1 /\ Len(chunk) \in Nat
        BY <1>5, <1>7, <4>1
      <4>3. a + (Len(chunk) + 1) = n
        BY <4>2
      <4> QED BY <4>1, <4>2, <4>3
    <3>4. ASSUME NEW i \in 1 .. Len(chunk')
          PROVE  chunk'[i] = rows[skipped + Len(delivered) + i]
      <4>1. CASE i \in 1 .. Len(chunk)
        BY <1>2, <1>7, <4>1
      <4>2. CASE i \notin 1 .. Len(chunk)
        <5>1. i = Len(chunk) + 1
          BY <1>5, <1>7, <4>2
        <5>2. skipped + Len(delivered) + i = n
          BY <1>1, <1>5, <5>1
        <5> QED BY <1>4, <1>7, <5>1, <5>2
      <4> QED BY <4>1, <4>2
    <3> QED BY <1>1, <1>2, <1>7, <1>8, <2>2, <3>2, <3>3, <3>4 DEF Placed, Reading
  <2> QED BY <1>12, <2>1, <2>2
<1> QED BY <1>1, <1>13, <1>14, <1>15 DEF IInv

\* A chunk is pushed: it is closed because the row in memory does not fit, or because
\* there is none.
LEMMA PushStep == IInv /\ Push => IInv'
<1> SUFFICES ASSUME IInv, Push PROVE IInv'
  OBVIOUS
<1>1. /\ pc = "NextChunk" /\ chunkFinished /\ pushed' = Append(pushed, chunk) /\ chunk' = <<>>
      /\ pc' = "loop"
      /\ UNCHANGED <<isParallel, usePrepared, rows, conn, m_error, m_stop_reading, errno>>
  BY DEF Push
<1>2. /\ Typed /\ rows # NoResultSet /\ m_error = 0 /\ Fetched(conn)
      /\ skipped + Len(delivered) + Len(chunk) = behind(conn)
      /\ \A i \in 1 .. Len(chunk) : chunk[i] = rows[skipped + Len(delivered) + i]
      /\ used(chunk) \in Nat /\ used(chunk) <= ChunkSize
      /\ skipped + Len(delivered) <= Len(rows)
      /\ \A i \in 1 .. Len(delivered) : delivered[i] = rows[skipped + i]
      /\ \A i \in 1 .. Len(rows) : rows[i].id = i
      /\ HasNextRow(conn) \/ chunk # <<>>
  BY <1>1 DEF IInv, Placed, Reading, Numbered
<1>3. chunk \in Seq(Row) /\ pushed \in Seq(Seq(Row)) /\ rows \in Seq(Row) /\ Len(rows) \in Nat
  BY <1>2 DEF Typed
<1>4. skipped \in {0, 1} /\ skipped' = skipped
  BY <1>1 DEF skipped
<1>5. delivered \in Seq(Row) /\ delivered' = delivered \o chunk
  BY <1>1, <1>3, FlattenAppend DEF delivered
<1>6. chunk # <<>> /\ Len(chunk) \in Nat /\ Len(chunk) # 0
  BY <1>1, <1>2, <1>3 DEF chunkFinished
<1>7. PICK a \in Nat : a = skipped + Len(delivered)
  BY <1>4, <1>5
<1>8. PICK b \in Nat : b = a + Len(chunk)
  BY <1>6, <1>7
<1>9. b = behind(conn) /\ b \in 1 .. Len(rows)
  <2>1. b = behind(conn) /\ b >= 1
    BY <1>2, <1>6, <1>7, <1>8
  <2>2. behind(conn) <= Len(rows)
    BY <1>2, <1>3 DEF behind, Fetched
  <2> QED BY <1>3, <2>1, <2>2
<1>10. /\ Len(delivered') = Len(delivered) + Len(chunk)
       /\ \A i \in 1 .. Len(delivered) : delivered'[i] = delivered[i]
       /\ \A i \in 1 .. Len(chunk) : delivered'[Len(delivered) + i] = chunk[i]
  BY <1>3, <1>5
<1>11. skipped + Len(delivered') = b
  BY <1>4, <1>5, <1>6, <1>7, <1>8, <1>10
<1>12. Typed'
  BY <1>1, <1>2, <1>3 DEF Typed, Reading
<1>13. Numbered' /\ Opening'
  BY <1>1, <1>4 DEF IInv, Numbered, Opening
<1>14. Placed'
  <2>1. ASSUME NEW i \in 1 .. Len(delivered') PROVE delivered'[i] = rows[skipped + i]
    <3>1. CASE i \in 1 .. Len(delivered)
      BY <1>2, <1>10, <3>1
    <3>2. CASE i \notin 1 .. Len(delivered)
      <4>1. PICK j \in 1 .. Len(chunk) : i = Len(delivered) + j
        <5>1. i - Len(delivered) \in 1 .. Len(chunk) /\ i = Len(delivered) + (i - Len(delivered))
          BY <1>5, <1>6, <1>10, <3>2
        <5> QED BY <5>1
      <4>2. delivered'[i] = rows[skipped + Len(delivered) + j]
        BY <1>2, <1>10, <4>1
      <4>3. skipped + Len(delivered) + j = skipped + i
        BY <1>4, <1>5, <4>1
      <4> QED BY <4>2, <4>3
    <3> QED BY <3>1, <3>2
  <2>2. Fetched(conn)' /\ behind(conn)' = behind(conn)
    BY <1>1, <1>2 DEF Fetched, behind
  <2>3. used(chunk') = 0 /\ ChunkSize \in Nat /\ Len(chunk') = 0
    BY <1>1, UsedEmpty, RowStreamAssumption
  <2>4. skipped + Len(delivered') + Len(chunk') = behind(conn)
    BY <1>8, <1>9, <1>11, <2>3
  <2> QED BY <1>1, <1>2, <1>4, <1>9, <1>11, <2>1, <2>2, <2>3, <2>4 DEF Placed, Reading
<1>15. ChunksFilled'
  <2>1. Last(chunk).id = b
    <3>1. Last(chunk) = rows[b]
      <4>1. Len(chunk) \in 1 .. Len(chunk)
        BY <1>6
      <4> QED BY <1>2, <1>7, <1>8, <4>1 DEF Last
    <3> QED BY <1>2, <1>9, <3>1
  <2>2. b + 1 \in DOMAIN rows => used(chunk) + rows[b + 1].size > ChunkSize
    <3> SUFFICES ASSUME b + 1 \in 1 .. Len(rows)
                 PROVE  used(chunk) + rows[b + 1].size > ChunkSize
      BY <1>3
    <3>1. HasNextRow(conn) /\ conn.cursor = b + 1
      <4>1. HasNextRow(conn)
        BY <1>3, <1>9 DEF behind
      <4>2. conn.cursor \in Nat
        BY <1>2 DEF Typed, Conn
      <4> QED BY <1>9, <4>1, <4>2 DEF behind
    <3>2. conn.m_last_fetched_row = <<rows[b + 1]>>
      BY <1>2, <3>1 DEF Fetched
    <3>3. ~HasEnoughSpace(chunk, rows[b + 1].size)
      BY <1>1, <3>1, <3>2 DEF chunkFinished
    <3>4. rows[b + 1].size \in Nat /\ ChunkSize \in Nat
      <4>1. rows[b + 1] \in Row
        BY <1>3
      <4>2. rows[b + 1].size \in Nat
        BY <4>1 DEF Row
      <4>3. ChunkSize \in Nat
        BY RowStreamAssumption
      <4> QED BY <4>2, <4>3
    <3> QED BY <1>2, <3>3, <3>4 DEF HasEnoughSpace
  <2>3. /\ chunk # <<>> /\ used(chunk) <= ChunkSize
        /\ LET next == Last(chunk).id + 1
           IN next \in DOMAIN rows => used(chunk) + rows[next].size > ChunkSize
    BY <1>2, <1>6, <2>1, <2>2
  <2>4. ASSUME NEW i \in DOMAIN pushed'
        PROVE  /\ pushed'[i] # <<>>
               /\ used(pushed'[i]) <= ChunkSize
               /\ LET next == Last(pushed'[i]).id + 1
                  IN next \in DOMAIN rows => used(pushed'[i]) + rows[next].size > ChunkSize
    <3>1. i \in DOMAIN pushed \/ pushed'[i] = chunk
      BY <1>1, <1>3
    <3>2. CASE i \in DOMAIN pushed
      <4>1. pushed'[i] = pushed[i]
        BY <1>1, <1>3, <3>2
      <4> QED BY <3>2, <4>1 DEF IInv, ChunksFilled
    <3>3. CASE pushed'[i] = chunk
      BY <2>3, <3>3
    <3> QED BY <3>1, <3>2, <3>3
  <2>5. rows' = rows
    BY <1>1
  <2> QED BY <2>4, <2>5 DEF ChunksFilled
<1> QED BY <1>12, <1>13, <1>14, <1>15 DEF IInv

-----------------------------------------------------------------------------
(* The theorems.                                                           *)

\* The invariant holds in every state.
THEOREM Invariance == Spec => []IInv
<1>1. IInv /\ [Next]_vars => IInv'
  <2> SUFFICES ASSUME IInv, [Next]_vars PROVE IInv'
    OBVIOUS
  <2>1. CASE UNCHANGED vars
    <3>1. UNCHANGED <<isParallel, usePrepared, rows, conn, m_error, m_stop_reading, chunk,
                      pushed, pc>>
      BY <2>1 DEF vars
    <3>2. delivered' = delivered /\ skipped' = skipped
      BY <3>1 DEF delivered, skipped
    <3>3. Typed' /\ Numbered' /\ Opening' /\ ChunksFilled'
      BY <3>1, <3>2 DEF IInv, Typed, Numbered, Opening, ChunksFilled
    <3>4. Placed'
      BY <3>1, <3>2 DEF IInv, Placed, Fetched, behind
    <3> QED BY <3>3, <3>4 DEF IInv
  <2> QED BY <2>1, PrepareStep, SchemaStep, PrefetchStep, LoopStep, WriteStep, PushStep DEF Next
<1> QED BY <1>1, InitIInv, PTL DEF Spec

\* The rows that were delivered are a piece of the result set.
LEMMA DeliveredRows ==
    ASSUME IInv
    PROVE  /\ skipped \in skips /\ Len(delivered) \in Nat
           /\ delivered = SubSeq(rows, skipped + 1, skipped + Len(delivered))
<1>1. /\ delivered \in Seq(Row) /\ rows \in Seq(Row) /\ Len(rows) \in Nat
      /\ Len(delivered) \in Nat
  <2>1. pushed \in Seq(Seq(Row)) /\ <<>> \in Seq(Row) /\ rows \in Seq(Row)
    BY DEF IInv, Typed
  <2>2. delivered \in Seq(Row)
    BY <2>1, FlattenAppend DEF delivered
  <2> QED BY <2>1, <2>2
<1>2. skipped \in skips /\ skipped \in {0, 1}
  BY DEF skipped, skips
<1>3. /\ skipped + Len(delivered) <= Len(rows)
      /\ \A i \in 1 .. Len(delivered) : delivered[i] = rows[skipped + i]
  BY DEF IInv, Placed
<1>4. PICK m, n \in Nat : m = skipped /\ n = Len(delivered)
  BY <1>1, <1>2
<1>5. PICK piece : piece = SubSeq(rows, m + 1, m + n)
  OBVIOUS
<1>6. piece \in Seq(Row) /\ Len(piece) = n /\ \A i \in 1 .. n : piece[i] = rows[m + i]
  <2>1. m + 1 \in 1 .. Len(rows) + 1 /\ m + n \in m .. Len(rows)
    BY <1>1, <1>3, <1>4
  <2> QED BY <1>1, <1>5, <2>1, SubSeqProperties
<1>7. delivered = piece
  BY <1>1, <1>3, <1>4, <1>6, SeqEqual
<1> QED BY <1>1, <1>2, <1>4, <1>5, <1>7

\* The rows reach the queue in the order of the result set, none twice and none passed
\* over but the first one of a read in text.
THEOREM InOrder == Spec => []RowsInOrder
<1>1. IInv => RowsInOrder
  BY DeliveredRows DEF RowsInOrder
<1> QED BY <1>1, Invariance, PTL

\* A chunk that was pushed is not empty, fits, and was closed because the next row would
\* not have fitted.
THEOREM Filled == Spec => []ChunksFilled
<1>1. IInv => ChunksFilled
  BY DEF IInv
<1> QED BY <1>1, Invariance, PTL

\* A reader that ends without an error and that nobody stopped has delivered the result
\* set to its last row.
THEOREM EndIsEnd == Spec => []EndOrError
<1>1. IInv => EndOrError
  <2> SUFFICES ASSUME IInv, pc = "done", m_error = 0, ~m_stop_reading
               PROVE  skipped \in skips /\ delivered = SubSeq(rows, skipped + 1, Len(rows))
    BY DEF EndOrError
  <2>1. skipped + Len(delivered) = Len(rows)
    BY DEF IInv, Placed
  <2> QED BY <2>1, DeliveredRows
<1> QED BY <1>1, Invariance, PTL

\* Whenever the row in memory is to be replaced by the next one there is a statement or
\* a result to fetch it from.
THEOREM AlwaysOpen == Spec => []StatementOpen
<1>1. IInv => StatementOpen
  <2> SUFFICES ASSUME IInv, pc = "Prefetch" \/ (pc \in Reading /\ HasNextRow(conn))
               PROVE  IF conn.m_use_binary_protocol THEN conn.m_stmt = "executed"
                      ELSE conn.m_res = "open"
    BY DEF StatementOpen, Reading
  <2>1. conn.m_use_binary_protocol = usePrepared /\ usePrepared \in BOOLEAN
    BY DEF IInv, Opening, Typed, Reading
  <2>2. IF usePrepared THEN conn.m_stmt = "executed" ELSE conn.m_res = "open"
    <3>1. CASE pc = "Prefetch"
      BY <3>1 DEF IInv, Opening
    <3>2. CASE pc \in Reading /\ HasNextRow(conn)
      BY <2>1, <3>2 DEF IInv, Placed, Fetched
    <3> QED BY <3>1, <3>2
  <2> QED BY <2>1, <2>2
<1> QED BY <1>1, Invariance, PTL
=============================================================================
