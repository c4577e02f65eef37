----------------------- MODULE VersionHistory_proofs -----------------------
(***************************************************************************)
(* Proofs about VersionHistory, for every number of uploads, keys and      *)
(* versions, and about DocumentMerge, which makes the contents of a merge  *)
(* version, for every document.                                            *)
(***************************************************************************)
EXTENDS VersionHistory, DocumentMerge, SequenceTheorems, FiniteSetTheorems,
        WellFoundedInduction, TLAPS

-----------------------------------------------------------------------------
(* The inductive invariant.                                                *)

ParentsBelow ==
  \A v \in DOMAIN history : history[v].parent < v /\ history[v].mergeParent < v

HeadSet == head = 0 => history = <<>>

(* What uploads, merges and records name has been created.                 *)
Known ==
  /\ \A u \in Uploads :
       upload[u].base <= Len(history) /\ upload[u].version <= Len(history)
  /\ \A t \in Triples :
       /\ merge[t].result <= Len(history)
       /\ merge[t].status \in {"absent", "open"} => merge[t].result = 0
       /\ merge[t].status # "absent" => {t[1], t[2], t[3]} \subseteq DOMAIN history
  /\ \A key \in Keys :
       ~Fresh("restore", key) => record[<<"restore", key>>].resource <= Len(history)

(* Every version is on the line or beside it.                              *)
Counted ==
  Len(LineTo(head)) + Cardinality(DOMAIN history \ OnLine) = Len(history)

IInv ==
  /\ TypeOK /\ ParentsBelow /\ HeadSet /\ Known
  /\ Linear /\ OncePerRequest /\ MergesAreSound /\ Counted

-----------------------------------------------------------------------------
(* Numbers.  Induction is over the members of a set of numbers: one that   *)
(* were left out would make a least one.                                   *)

LEMMA LeastNumber ==
  ASSUME NEW T \in SUBSET Nat, T # {}
  PROVE  \E n \in T : \A m \in T : n <= m
<1>1. PICK R : R = {pair \in Nat \X Nat : pair[1] < pair[2]}
  OBVIOUS
<1>2. IsWellFoundedOn(R, Nat)
  BY <1>1, NatLessThanWellFounded, Zenon DEF OpToRel
<1>3. PICK n \in T : \A m \in T : ~ (<<m, n>> \in R)
  BY <1>2, WFMin
<1>4. \A m, k \in Nat : <<m, k>> \in R <=> m < k
  BY <1>1
<1>5. ASSUME NEW m \in T PROVE n <= m
  <2>1. ~(m < n)
    BY <1>3, <1>4
  <2> QED BY <2>1
<1> QED BY <1>5

LEMMA CountingUp ==
  ASSUME NEW T, 0 \in T, \A n \in Nat : n \in T => n + 1 \in T
  PROVE  Nat \subseteq T
<1>1. SUFFICES ASSUME Nat \ T # {} PROVE FALSE
  OBVIOUS
<1>2. PICK n \in Nat \ T : \A m \in Nat \ T : n <= m
  BY <1>1, LeastNumber
<1>3. n # 0 /\ n - 1 \in Nat /\ ~(n <= n - 1) /\ (n - 1) + 1 = n
  BY <1>2
<1>4. n - 1 \in T
  BY <1>2, <1>3
<1> QED BY <1>2, <1>3, <1>4

LEMMA FromBelow ==
  ASSUME NEW T, \A n \in Nat : (\A m \in Nat : m < n => m \in T) => n \in T
  PROVE  Nat \subseteq T
<1>1. SUFFICES ASSUME Nat \ T # {} PROVE FALSE
  OBVIOUS
<1>2. PICK n \in Nat \ T : \A m \in Nat \ T : n <= m
  BY <1>1, LeastNumber
<1>3. \A m \in Nat : m < n => m \in T
  <2>1. ASSUME NEW m \in Nat, m < n PROVE m \in T
    <3>1. ~(n <= m)
      BY <1>2, <2>1
    <3> QED BY <1>2, <3>1
  <2> QED BY <2>1
<1> QED BY <1>2, <1>3

LEMMA GreatestNumber ==
  ASSUME NEW bound \in Nat, NEW T \in SUBSET (0..bound), T # {}
  PROVE  \E n \in T : \A m \in T : m <= n
<1>1. PICK D : D = {k \in 0..bound : bound - k \in T}
  OBVIOUS
<1>2. D \in SUBSET Nat
  BY <1>1
<1>3. PICK n \in T : TRUE
  OBVIOUS
<1>4. bound - n \in 0..bound /\ bound - (bound - n) = n
  BY <1>3
<1>5. bound - n \in D
  BY <1>1, <1>3, <1>4
<1>6. PICK k \in D : \A j \in D : k <= j
  BY <1>2, <1>5, LeastNumber
<1>7. bound - k \in T
  BY <1>1, <1>6
<1>8. ASSUME NEW m \in T PROVE m <= bound - k
  <2>1. m \in 0..bound /\ bound - m \in 0..bound /\ bound - (bound - m) = m
    OBVIOUS
  <2>2. bound - m \in D
    BY <1>1, <2>1
  <2>3. k \in Nat /\ k <= bound - m
    BY <1>2, <1>6, <2>2
  <2> QED BY <2>1, <2>3
<1> QED BY <1>7, <1>8

-----------------------------------------------------------------------------
(* The version before another on a line.                                   *)

Prior(line, v) ==
  CHOOSE w \in line \cup {0} : w < v /\ \A other \in line : other < v => other <= w

LEMMA PriorIs ==
  ASSUME NEW N \in Nat, NEW line \in SUBSET (1..N), NEW v \in Nat \ {0}
  PROVE  /\ Prior(line, v) \in line \cup {0} /\ Prior(line, v) < v
         /\ \A other \in line : other < v => other <= Prior(line, v)
<1>1. PICK T : T = {w \in line \cup {0} : w < v}
  OBVIOUS
<1>0. \A w \in line : w \in 0..N
  OBVIOUS
<1>2. T \in SUBSET (0..N) /\ 0 \in T
  <2>1. 0 \in 0..N /\ 0 < v
    OBVIOUS
  <2>2. \A w \in T : w \in 0..N
    BY <1>0, <1>1, <2>1
  <2> QED BY <1>1, <2>1, <2>2
<1>3. PICK n \in T : \A m \in T : m <= n
  BY <1>2, GreatestNumber
<1>4. n \in line \cup {0} /\ n < v /\ \A other \in line : other < v => other <= n
  BY <1>1, <1>3
<1> QED BY <1>4 DEF Prior

LEMMA PriorUnique ==
  ASSUME NEW N \in Nat, NEW line \in SUBSET (1..N), NEW v \in Nat \ {0},
         NEW w \in line \cup {0}, w < v, \A other \in line : other < v => other <= w
  PROVE  Prior(line, v) = w
<1>1. /\ Prior(line, v) \in line \cup {0} /\ Prior(line, v) < v
      /\ \A other \in line : other < v => other <= Prior(line, v)
  BY PriorIs
<1>0. \A n \in line \cup {0} : n \in Nat
  OBVIOUS
<1>2. PICK p \in Nat : p = Prior(line, v)
  BY <1>0, <1>1
<1>3. w \in Nat /\ (w # 0 => w \in line) /\ (p # 0 => p \in line)
  BY <1>1, <1>2
<1>4. w <= p
  <2>1. CASE w = 0
    BY <2>1
  <2>2. CASE w # 0
    BY <1>1, <1>2, <1>3, <2>2
  <2> QED BY <2>1, <2>2
<1>5. p <= w
  <2>1. CASE p = 0
    BY <1>3, <2>1
  <2>2. CASE p # 0
    BY <1>1, <1>2, <1>3, <2>2
  <2> QED BY <2>1, <2>2
<1> QED BY <1>2, <1>3, <1>4, <1>5

(* Only what is before v counts.                                           *)
LEMMA PriorLocal ==
  ASSUME NEW N \in Nat, NEW line \in SUBSET (1..N), NEW other \in SUBSET (1..N),
         NEW v \in Nat \ {0}, \A w \in 1..N : w < v => (w \in line <=> w \in other)
  PROVE  Prior(line, v) = Prior(other, v)
<1>1. /\ Prior(line, v) \in line \cup {0} /\ Prior(line, v) < v
      /\ \A w \in line : w < v => w <= Prior(line, v)
  BY PriorIs
<1>2. PICK p : p = Prior(line, v)
  OBVIOUS
<1>3. p \in other \cup {0} /\ p < v /\ \A w \in other : w < v => w <= p
  BY <1>1, <1>2
<1>4. Prior(other, v) = p
  BY <1>3, PriorUnique
<1> QED BY <1>2, <1>4

LEMMA PriorBefore ==
  ASSUME NEW N \in Nat, N # 0, NEW line \in SUBSET (1..N), NEW other \in SUBSET (1..N),
         \A w \in 1..N : w < N => (w \in line <=> w \in other)
  PROVE  Prior(line, N) = Prior(other, N)
<1>1. N \in Nat \ {0}
  OBVIOUS
<1> QED BY <1>1, PriorLocal

(* The end of a line that has been extended, or has not.                   *)
LEMMA PriorEnd ==
  ASSUME NEW N \in Nat, NEW line \in SUBSET (1..N), NEW L \in Nat, N = L + 1
  PROVE  /\ N \in line => Prior(line, N + 1) = N
         /\ N \notin line => Prior(line, N + 1) = Prior(line, N)
<1>1. ASSUME N \in line PROVE Prior(line, N + 1) = N
  <2>1. N + 1 \in Nat \ {0} /\ N < N + 1 /\ \A w \in line : w <= N
    OBVIOUS
  <2> QED BY <1>1, <2>1, PriorUnique
<1>2. ASSUME N \notin line PROVE Prior(line, N + 1) = Prior(line, N)
  <2>1. N \in Nat \ {0} /\ N + 1 \in Nat \ {0}
    OBVIOUS
  <2>2. /\ Prior(line, N) \in line \cup {0} /\ Prior(line, N) < N
        /\ \A w \in line : w < N => w <= Prior(line, N)
    BY <2>1, PriorIs
  <2>3. PICK p : p = Prior(line, N)
    OBVIOUS
  <2>4. p \in line \cup {0} /\ p < N + 1 /\ \A w \in line : w < N + 1 => w <= p
    <3>1. \A w \in line : w # N /\ w \in 1..N
      BY <1>2
    <3>2. \A w \in line : w < N
      BY <3>1
    <3>3. p \in Nat
      <4>1. \A w \in line \cup {0} : w \in Nat
        OBVIOUS
      <4> QED BY <2>2, <2>3, <4>1
    <3>4. p < N + 1
      BY <2>2, <2>3, <3>3
    <3> QED BY <2>2, <2>3, <3>2, <3>4
  <2>5. Prior(line, N + 1) = p
    BY <2>1, <2>4, PriorUnique
  <2> QED BY <2>3, <2>5
<1> QED BY <1>1, <1>2

-----------------------------------------------------------------------------
(* Ancestors and lines of any history whose parents are older, and of one  *)
(* that goes on from it.                                                   *)

ParentsIn(h, n) == {h[n].parent, h[n].mergeParent} \ {0}

Older(h, N) ==
  \A n \in 1..N : /\ h[n].parent \in 0..(n - 1)
                  /\ h[n].mergeParent \in 0..(n - 1)

SameParents(g, h, N) ==
  \A n \in 1..N : g[n].parent = h[n].parent /\ g[n].mergeParent = h[n].mergeParent

AreAncestors(up, h, N) ==
  up = [n \in 0..N |-> IF n = 0 THEN {}
                       ELSE {n} \cup UNION {up[p] : p \in ParentsIn(h, n)}]

AreLines(up, h, N) ==
  up = [n \in 0..N |-> IF n = 0 THEN <<>> ELSE Append(up[h[n].parent], n)]

LEMMA AncestorsExist ==
  ASSUME NEW h, NEW N \in Nat, Older(h, N)
  PROVE  \E up : AreAncestors(up, h, N)
<1>1. PICK T : T = {k \in Nat : k <= N => \E up : AreAncestors(up, h, k)}
  OBVIOUS
<1>2. 0 \in T
  <2>1. PICK up : up = [n \in 0..0 |-> {}]
    OBVIOUS
  <2>2. AreAncestors(up, h, 0)
    BY <2>1 DEF AreAncestors
  <2> QED BY <1>1, <2>2
<1>3. ASSUME NEW k \in Nat, k \in T PROVE k + 1 \in T
  <2>1. SUFFICES ASSUME k + 1 <= N PROVE \E up : AreAncestors(up, h, k + 1)
    BY <1>1
  <2>2. PICK up : AreAncestors(up, h, k)
    BY <1>1, <1>3, <2>1
  <2>3. PICK more : more = [n \in 0..(k + 1) |->
                              IF n = k + 1 THEN {n} \cup UNION {up[p] : p \in ParentsIn(h, n)}
                              ELSE up[n]]
    OBVIOUS
  <2>4. \A n \in 0..k : more[n] = up[n]
    <3>1. \A n \in 0..k : n \in 0..(k + 1) /\ n # k + 1
      OBVIOUS
    <3> QED BY <2>3, <3>1
  <2>5. \A n \in 1..(k + 1) : ParentsIn(h, n) \subseteq 0..k
    <3>1. \A n \in 1..(k + 1) : n \in 1..N /\ 0..(n - 1) \subseteq 0..k
      BY <2>1
    <3> QED BY <3>1 DEF Older, ParentsIn
  <2>6. ASSUME NEW n \in 0..(k + 1), n # 0
        PROVE  UNION {more[p] : p \in ParentsIn(h, n)} = UNION {up[p] : p \in ParentsIn(h, n)}
    <3>1. n \in 1..(k + 1)
      BY <2>6
    <3>2. \A p \in ParentsIn(h, n) : more[p] = up[p]
      BY <2>4, <2>5, <3>1
    <3> QED BY <3>2
  <2>7. ASSUME NEW n \in 0..(k + 1)
        PROVE  more[n] = IF n = 0 THEN {}
                         ELSE {n} \cup UNION {more[p] : p \in ParentsIn(h, n)}
    <3>1. CASE n = 0
      <4>1. 0 \in 0..k
        OBVIOUS
      <4> QED BY <2>2, <2>4, <3>1, <4>1 DEF AreAncestors
    <3>2. CASE n = k + 1
      <4>1. n # 0 /\ more[n] = {n} \cup UNION {up[p] : p \in ParentsIn(h, n)}
        BY <2>3, <3>2
      <4> QED BY <2>6, <4>1
    <3>3. CASE n # 0 /\ n # k + 1
      <4>1. n \in 0..k
        BY <3>3
      <4>2. up[n] = {n} \cup UNION {up[p] : p \in ParentsIn(h, n)}
        BY <2>2, <3>3, <4>1 DEF AreAncestors
      <4> QED BY <2>4, <2>6, <3>3, <4>1, <4>2
    <3> QED BY <3>1, <3>2, <3>3
  <2>8. AreAncestors(more, h, k + 1)
    BY <2>3, <2>7 DEF AreAncestors
  <2> QED BY <2>8
<1>4. N \in T /\ N <= N
  BY <1>2, <1>3, CountingUp
<1> QED BY <1>1, <1>4

LEMMA LinesExist ==
  ASSUME NEW h, NEW N \in Nat, Older(h, N)
  PROVE  \E up : AreLines(up, h, N)
<1>1. PICK T : T = {k \in Nat : k <= N => \E up : AreLines(up, h, k)}
  OBVIOUS
<1>2. 0 \in T
  <2>1. PICK up : up = [n \in 0..0 |-> <<>>]
    OBVIOUS
  <2>2. AreLines(up, h, 0)
    BY <2>1 DEF AreLines
  <2> QED BY <1>1, <2>2
<1>3. ASSUME NEW k \in Nat, k \in T PROVE k + 1 \in T
  <2>1. SUFFICES ASSUME k + 1 <= N PROVE \E up : AreLines(up, h, k + 1)
    BY <1>1
  <2>2. PICK up : AreLines(up, h, k)
    BY <1>1, <1>3, <2>1
  <2>3. PICK more : more = [n \in 0..(k + 1) |->
                              IF n = k + 1 THEN Append(up[h[n].parent], n) ELSE up[n]]
    OBVIOUS
  <2>4. \A n \in 0..k : more[n] = up[n]
    <3>1. \A n \in 0..k : n \in 0..(k + 1) /\ n # k + 1
      OBVIOUS
    <3> QED BY <2>3, <3>1
  <2>5. \A n \in 1..(k + 1) : h[n].parent \in 0..k
    <3>1. \A n \in 1..(k + 1) : n \in 1..N /\ 0..(n - 1) \subseteq 0..k
      BY <2>1
    <3> QED BY <3>1 DEF Older
  <2>6. ASSUME NEW n \in 0..(k + 1), n # 0 PROVE more[h[n].parent] = up[h[n].parent]
    <3>1. n \in 1..(k + 1)
      BY <2>6
    <3> QED BY <2>4, <2>5, <3>1
  <2>7. ASSUME NEW n \in 0..(k + 1)
        PROVE  more[n] = IF n = 0 THEN <<>> ELSE Append(more[h[n].parent], n)
    <3>1. CASE n = 0
      <4>1. 0 \in 0..k
        OBVIOUS
      <4> QED BY <2>2, <2>4, <3>1, <4>1 DEF AreLines
    <3>2. CASE n = k + 1
      <4>1. n # 0 /\ more[n] = Append(up[h[n].parent], n)
        BY <2>3, <3>2
      <4> QED BY <2>6, <4>1
    <3>3. CASE n # 0 /\ n # k + 1
      <4>1. n \in 0..k
        BY <3>3
      <4>2. up[n] = Append(up[h[n].parent], n)
        BY <2>2, <3>3, <4>1 DEF AreLines
      <4> QED BY <2>4, <2>6, <3>3, <4>1, <4>2
    <3> QED BY <3>1, <3>2, <3>3
  <2>8. AreLines(more, h, k + 1)
    BY <2>3, <2>7 DEF AreLines
  <2> QED BY <2>8
<1>4. N \in T /\ N <= N
  BY <1>2, <1>3, CountingUp
<1> QED BY <1>1, <1>4

LEMMA SameAncestors ==
  ASSUME NEW h, NEW g, NEW N \in Nat, NEW M \in Nat, N <= M,
         Older(h, N), SameParents(g, h, N),
         NEW up, AreAncestors(up, h, N), NEW down, AreAncestors(down, g, M)
  PROVE  \A n \in 0..N : down[n] = up[n]
<1>1. PICK T : T = {n \in Nat : n <= N => down[n] = up[n]}
  OBVIOUS
<1>2. ASSUME NEW n \in Nat, \A m \in Nat : m < n => m \in T PROVE n \in T
  <2>1. SUFFICES ASSUME n <= N PROVE down[n] = up[n]
    BY <1>1
  <2>2. n \in 0..N /\ n \in 0..M
    BY <2>1
  <2>3. CASE n = 0
    BY <2>2, <2>3 DEF AreAncestors
  <2>4. CASE n # 0
    <3>1. n \in 1..N
      BY <2>2, <2>4
    <3>2. ParentsIn(g, n) = ParentsIn(h, n)
      BY <3>1 DEF SameParents, ParentsIn
    <3>3. ASSUME NEW p \in ParentsIn(h, n) PROVE down[p] = up[p]
      <4>1. p \in 0..(n - 1)
        BY <3>1 DEF Older, ParentsIn
      <4>2. p \in Nat /\ p < n /\ p <= N
        BY <2>1, <4>1
      <4> QED BY <1>1, <1>2, <4>2
    <3>4. UNION {down[p] : p \in ParentsIn(g, n)} = UNION {up[p] : p \in ParentsIn(h, n)}
      BY <3>2, <3>3
    <3>5. down[n] = {n} \cup UNION {down[p] : p \in ParentsIn(g, n)}
      BY <2>2, <2>4 DEF AreAncestors
    <3>6. up[n] = {n} \cup UNION {up[p] : p \in ParentsIn(h, n)}
      BY <2>2, <2>4 DEF AreAncestors
    <3> QED BY <3>4, <3>5, <3>6
  <2> QED BY <2>3, <2>4
<1>3. Nat \subseteq T
  BY <1>2, FromBelow
<1>4. \A n \in 0..N : n \in Nat /\ n <= N
  OBVIOUS
<1> QED BY <1>1, <1>3, <1>4

LEMMA SameLines ==
  ASSUME NEW h, NEW g, NEW N \in Nat, NEW M \in Nat, N <= M,
         Older(h, N), SameParents(g, h, N),
         NEW up, AreLines(up, h, N), NEW down, AreLines(down, g, M)
  PROVE  \A n \in 0..N : down[n] = up[n]
<1>1. PICK T : T = {n \in Nat : n <= N => down[n] = up[n]}
  OBVIOUS
<1>2. ASSUME NEW n \in Nat, \A m \in Nat : m < n => m \in T PROVE n \in T
  <2>1. SUFFICES ASSUME n <= N PROVE down[n] = up[n]
    BY <1>1
  <2>2. n \in 0..N /\ n \in 0..M
    BY <2>1
  <2>3. CASE n = 0
    BY <2>2, <2>3 DEF AreLines
  <2>4. CASE n # 0
    <3>1. n \in 1..N
      BY <2>2, <2>4
    <3>2. g[n].parent = h[n].parent /\ h[n].parent \in 0..(n - 1)
      BY <3>1 DEF SameParents, Older
    <3>3. h[n].parent \in Nat /\ h[n].parent < n /\ h[n].parent <= N
      BY <2>1, <3>2
    <3>4. down[h[n].parent] = up[h[n].parent]
      BY <1>1, <1>2, <3>3
    <3>5. down[n] = Append(down[g[n].parent], n) /\ up[n] = Append(up[h[n].parent], n)
      BY <2>2, <2>4 DEF AreLines
    <3> QED BY <3>2, <3>4, <3>5
  <2> QED BY <2>3, <2>4
<1>3. Nat \subseteq T
  BY <1>2, FromBelow
<1>4. \A n \in 0..N : n \in Nat /\ n <= N
  OBVIOUS
<1> QED BY <1>1, <1>3, <1>4

LEMMA LinesAreSequences ==
  ASSUME NEW h, NEW N \in Nat, Older(h, N), NEW up, AreLines(up, h, N)
  PROVE  \A n \in 0..N : up[n] \in Seq(Nat)
<1>1. PICK T : T = {n \in Nat : n <= N => up[n] \in Seq(Nat)}
  OBVIOUS
<1>2. ASSUME NEW n \in Nat, \A m \in Nat : m < n => m \in T PROVE n \in T
  <2>1. SUFFICES ASSUME n <= N PROVE up[n] \in Seq(Nat)
    BY <1>1
  <2>2. n \in 0..N
    BY <2>1
  <2>3. CASE n = 0
    BY <2>2, <2>3 DEF AreLines
  <2>4. CASE n # 0
    <3>1. n \in 1..N
      BY <2>2, <2>4
    <3>2. h[n].parent \in 0..(n - 1)
      BY <3>1 DEF Older
    <3>3. h[n].parent \in Nat /\ h[n].parent < n /\ h[n].parent <= N
      BY <2>1, <3>2
    <3>4. up[h[n].parent] \in Seq(Nat)
      BY <1>1, <1>2, <3>3
    <3>5. up[n] = Append(up[h[n].parent], n)
      BY <2>2, <2>4 DEF AreLines
    <3> QED BY <3>4, <3>5
  <2> QED BY <2>3, <2>4
<1>3. Nat \subseteq T
  BY <1>2, FromBelow
<1>4. \A n \in 0..N : n \in Nat /\ n <= N
  OBVIOUS
<1> QED BY <1>1, <1>3, <1>4

-----------------------------------------------------------------------------
(* The same of the module's own operators, before and after a step.        *)

Ancestors(h, v) ==
  LET upTo[n \in 0..Len(h)] ==
        IF n = 0 THEN {}
        ELSE {n} \cup UNION {upTo[p] : p \in {h[n].parent, h[n].mergeParent} \ {0}}
  IN  upTo[v]

Line(h, v) ==
  LET upTo[n \in 0..Len(h)] ==
        IF n = 0 THEN <<>> ELSE Append(upTo[h[n].parent], n)
  IN  upTo[v]

LEMMA Named ==
  /\ \A v : Ancestry(v) = Ancestors(history, v)
  /\ \A v : Ancestry(v)' = Ancestors(history', v)
  /\ LineTo(head) = Line(history, head)
  /\ LineTo(head)' = Line(history', head')
<1>1. ASSUME NEW v PROVE Ancestry(v) = Ancestors(history, v)
  BY DEF Ancestry, Ancestors, Parents
<1>2. ASSUME NEW v PROVE Ancestry(v)' = Ancestors(history', v)
  BY DEF Ancestry, Ancestors, Parents
<1>3. LineTo(head) = Line(history, head)
  BY DEF LineTo, Line
<1>4. LineTo(head)' = Line(history', head')
  BY DEF LineTo, Line
<1> QED BY <1>1, <1>2, <1>3, <1>4

LEMMA TheAncestors ==
  ASSUME NEW h, NEW N \in Nat, N = Len(h), Older(h, N)
  PROVE  \E up : AreAncestors(up, h, N) /\ \A v : Ancestors(h, v) = up[v]
<1>1. PICK some : AreAncestors(some, h, N)
  BY AncestorsExist
<1>2. PICK up : up = CHOOSE w : AreAncestors(w, h, N)
  OBVIOUS
<1>3. AreAncestors(up, h, N)
  BY <1>1, <1>2
<1>4. ASSUME NEW v PROVE Ancestors(h, v) = up[v]
  BY <1>2 DEF Ancestors, AreAncestors, ParentsIn
<1> QED BY <1>3, <1>4

LEMMA TheLines ==
  ASSUME NEW h, NEW N \in Nat, N = Len(h), Older(h, N)
  PROVE  \E up : AreLines(up, h, N) /\ \A v : Line(h, v) = up[v]
<1>1. PICK some : AreLines(some, h, N)
  BY LinesExist
<1>2. PICK up : up = CHOOSE w : AreLines(w, h, N)
  OBVIOUS
<1>3. AreLines(up, h, N)
  BY <1>1, <1>2
<1>4. ASSUME NEW v PROVE Line(h, v) = up[v]
  BY <1>2 DEF Line, AreLines
<1> QED BY <1>3, <1>4

LEMMA AncestorsStay ==
  ASSUME NEW h, NEW g, NEW N \in Nat, NEW M \in Nat, N = Len(h), M = Len(g), N <= M,
         Older(h, N), Older(g, M), SameParents(g, h, N)
  PROVE  \A v \in 0..N : Ancestors(g, v) = Ancestors(h, v) /\ Line(g, v) = Line(h, v)
<1>1. PICK up : AreAncestors(up, h, N) /\ \A v : Ancestors(h, v) = up[v]
  BY TheAncestors
<1>2. PICK down : AreAncestors(down, g, M) /\ \A v : Ancestors(g, v) = down[v]
  BY TheAncestors
<1>3. \A v \in 0..N : down[v] = up[v]
  BY <1>1, <1>2, SameAncestors
<1>4. PICK left : AreLines(left, h, N) /\ \A v : Line(h, v) = left[v]
  BY TheLines
<1>5. PICK right : AreLines(right, g, M) /\ \A v : Line(g, v) = right[v]
  BY TheLines
<1>6. \A v \in 0..N : right[v] = left[v]
  BY <1>4, <1>5, SameLines
<1> QED BY <1>1, <1>2, <1>3, <1>4, <1>5, <1>6

LEMMA LineSteps ==
  ASSUME NEW h, NEW N \in Nat, N = Len(h), Older(h, N)
  PROVE  /\ Line(h, 0) = <<>>
         /\ \A n \in 0..N : Line(h, n) \in Seq(Nat)
         /\ \A n \in 1..N : Line(h, n) = Append(Line(h, h[n].parent), n)
<1>1. PICK up : AreLines(up, h, N) /\ \A v : Line(h, v) = up[v]
  BY TheLines
<1>2. \A n \in 0..N : up[n] \in Seq(Nat)
  BY <1>1, LinesAreSequences
<1>3. up[0] = <<>>
  <2>1. 0 \in 0..N
    OBVIOUS
  <2> QED BY <1>1, <2>1 DEF AreLines
<1>4. ASSUME NEW n \in 1..N PROVE up[n] = Append(up[h[n].parent], n)
  <2>1. n \in 0..N /\ n # 0
    OBVIOUS
  <2> QED BY <1>1, <2>1 DEF AreLines
<1> QED BY <1>1, <1>2, <1>3, <1>4

-----------------------------------------------------------------------------
(* What a step leaves of the versions there are.                           *)

SameVersion(v, w) ==
  /\ v.source = w.source /\ v.parent = w.parent /\ v.mergeParent = w.mergeParent
  /\ v.base = w.base /\ v.aside = w.aside
  /\ w.job # "open" => v.job = w.job

GoesOn ==
  /\ Len(history) <= Len(history')
  /\ \A n \in 1..Len(history) : SameVersion(history'[n], history[n])

LEMMA HistoryTypes ==
  ASSUME TypeOK
  PROVE  /\ Len(history) \in Nat /\ DOMAIN history = 1..Len(history)
         /\ \A v \in 1..Len(history) :
              /\ history[v] \in Version
              /\ history[v].parent \in Nat /\ history[v].mergeParent \in Nat
              /\ history[v].base \in Nat /\ history[v].aside \in BOOLEAN
         /\ OnLine \in SUBSET (1..Len(history))
         /\ head \in 0..Len(history)
<1>1. history \in Seq(Version)
  BY DEF TypeOK
<1>2. Len(history) \in Nat /\ DOMAIN history = 1..Len(history)
  BY <1>1
<1>3. ASSUME NEW v \in 1..Len(history)
      PROVE  /\ history[v] \in Version
             /\ history[v].parent \in Nat /\ history[v].mergeParent \in Nat
             /\ history[v].base \in Nat /\ history[v].aside \in BOOLEAN
  <2>1. history[v] \in Version
    BY <1>1
  <2> QED BY <2>1, MaxVersionsAssumption DEF Version
<1> QED BY <1>2, <1>3 DEF TypeOK, OnLine

LEMMA NextHistoryTypes ==
  ASSUME TypeOK'
  PROVE  /\ Len(history') \in Nat /\ DOMAIN history' = 1..Len(history')
         /\ \A v \in 1..Len(history') :
              /\ history'[v] \in Version
              /\ history'[v].parent \in Nat /\ history'[v].mergeParent \in Nat
              /\ history'[v].base \in Nat /\ history'[v].aside \in BOOLEAN
         /\ OnLine' \in SUBSET (1..Len(history'))
         /\ head' \in 0..Len(history')
<1>1. history' \in Seq(Version)
  BY DEF TypeOK
<1>2. Len(history') \in Nat /\ DOMAIN history' = 1..Len(history')
  BY <1>1
<1>3. ASSUME NEW v \in 1..Len(history')
      PROVE  /\ history'[v] \in Version
             /\ history'[v].parent \in Nat /\ history'[v].mergeParent \in Nat
             /\ history'[v].base \in Nat /\ history'[v].aside \in BOOLEAN
  <2>1. history'[v] \in Version
    BY <1>1
  <2> QED BY <2>1, MaxVersionsAssumption DEF Version
<1> QED BY <1>2, <1>3 DEF TypeOK, OnLine

LEMMA OlderParents ==
  ASSUME TypeOK, ParentsBelow
  PROVE  Older(history, Len(history))
<1>1. ASSUME NEW n \in 1..Len(history)
      PROVE  /\ history[n].parent \in 0..(n - 1)
             /\ history[n].mergeParent \in 0..(n - 1)
  <2>1. history[n].parent < n /\ history[n].mergeParent < n
    BY HistoryTypes DEF ParentsBelow
  <2>2. history[n].parent \in Nat /\ history[n].mergeParent \in Nat /\ n \in Nat
    BY HistoryTypes
  <2> QED BY <2>1, <2>2
<1> QED BY <1>1 DEF Older

LEMMA NextOlderParents ==
  ASSUME TypeOK', ParentsBelow'
  PROVE  Older(history', Len(history'))
<1>1. ASSUME NEW n \in 1..Len(history')
      PROVE  /\ history'[n].parent \in 0..(n - 1)
             /\ history'[n].mergeParent \in 0..(n - 1)
  <2>1. history'[n].parent < n /\ history'[n].mergeParent < n
    BY NextHistoryTypes DEF ParentsBelow
  <2>2. history'[n].parent \in Nat /\ history'[n].mergeParent \in Nat /\ n \in Nat
    BY NextHistoryTypes
  <2> QED BY <2>1, <2>2
<1> QED BY <1>1 DEF Older

LEMMA OnLineIs ==
  /\ \A v : Before(v) = Prior(OnLine, v)
  /\ \A v : Before(v)' = Prior(OnLine', v)
  /\ Before(NextSequence) = Prior(OnLine, Len(history) + 1)
  /\ Before(NextSequence)' = Prior(OnLine', Len(history') + 1)
<1>1. ASSUME NEW v PROVE Before(v) = Prior(OnLine, v)
  BY DEF Before, Prior
<1>2. ASSUME NEW v PROVE Before(v)' = Prior(OnLine', v)
  BY DEF Before, Prior
<1>3. Before(NextSequence) = Prior(OnLine, Len(history) + 1)
  BY DEF Before, Prior, NextSequence
<1>4. Before(NextSequence)' = Prior(OnLine', Len(history') + 1)
  BY DEF Before, Prior, NextSequence
<1> QED BY <1>1, <1>2, <1>3, <1>4

(* The versions there were keep their places and their ancestors.          *)
LEMMA OldVersions ==
  ASSUME IInv, TypeOK', GoesOn
  PROVE  /\ \A v \in 1..Len(history) : v \in OnLine' <=> v \in OnLine
         /\ \A v \in DOMAIN history :
              /\ v \in DOMAIN history'
              /\ Before(v)' = Before(v)
              /\ history'[v].parent < v /\ history'[v].mergeParent < v
              /\ history'[v].parent = 0 => v = 1
              /\ history'[v].source # "merge" =>
                   (history'[v].aside <=> history'[v].base # Before(v))
              /\ ~history'[v].aside => history'[v].parent = Before(v)
<1>1. /\ Len(history) \in Nat /\ DOMAIN history = 1..Len(history)
      /\ OnLine \in SUBSET (1..Len(history))
  BY HistoryTypes DEF IInv
<1>2. /\ Len(history') \in Nat /\ DOMAIN history' = 1..Len(history')
      /\ OnLine' \in SUBSET (1..Len(history'))
  BY NextHistoryTypes
<1>3. Len(history) <= Len(history')
      /\ \A n \in 1..Len(history) : SameVersion(history'[n], history[n])
  BY DEF GoesOn
<1>4. \A n \in 1..Len(history) : n \in 1..Len(history')
  BY <1>1, <1>2, <1>3
<1>5. \A v \in 1..Len(history) : v \in OnLine' <=> v \in OnLine
  BY <1>1, <1>2, <1>3, <1>4 DEF OnLine, SameVersion
<1>6. ASSUME NEW v \in 1..Len(history) PROVE Before(v)' = Before(v)
  <2>1. PICK M \in Nat : M = Len(history')
    BY <1>2
  <2>2. PICK new : new = OnLine'
    OBVIOUS
  <2>3. PICK old : old = OnLine
    OBVIOUS
  <2>4. new \in SUBSET (1..M) /\ old \in SUBSET (1..M) /\ v \in Nat \ {0}
    BY <1>1, <1>2, <1>4, <2>1, <2>2, <2>3
  <2>5. \A w \in 1..M : w < v => (w \in new <=> w \in old)
    <3>1. \A w \in 1..M : w < v => w \in 1..Len(history)
      BY <1>1, <2>1
    <3> QED BY <1>5, <2>2, <2>3, <3>1
  <2>6. Prior(new, v) = Prior(old, v)
    BY <2>4, <2>5, PriorLocal
  <2> QED BY <2>2, <2>3, <2>6, OnLineIs
<1>7. ASSUME NEW v \in 1..Len(history)
      PROVE  /\ history'[v].parent < v /\ history'[v].mergeParent < v
             /\ history'[v].parent = 0 => v = 1
             /\ history'[v].source # "merge" =>
                  (history'[v].aside <=> history'[v].base # Before(v))
             /\ ~history'[v].aside => history'[v].parent = Before(v)
  <2>1. SameVersion(history'[v], history[v])
    BY <1>3
  <2> QED BY <1>1, <2>1 DEF SameVersion, IInv, ParentsBelow, Linear
<1> QED BY <1>1, <1>2, <1>4, <1>5, <1>6, <1>7

(* A step that adds no version and moves no head leaves the line alone.    *)
LEMMA LineStays ==
  ASSUME IInv, TypeOK', GoesOn, Len(history') = Len(history), head' = head
  PROVE  /\ ParentsBelow' /\ HeadSet' /\ Linear' /\ Counted'
         /\ LineTo(head)' = LineTo(head)
         /\ (DOMAIN history \ OnLine)' = DOMAIN history \ OnLine
<1>1. /\ Len(history) \in Nat /\ DOMAIN history = 1..Len(history)
      /\ OnLine \in SUBSET (1..Len(history)) /\ head \in 0..Len(history)
      /\ DOMAIN history' = 1..Len(history')
      /\ OnLine' \in SUBSET (1..Len(history'))
  BY HistoryTypes, NextHistoryTypes DEF IInv
<1>2. DOMAIN history' = DOMAIN history /\ OnLine' = OnLine
  BY <1>1, OldVersions
<1>3. ParentsBelow'
  BY <1>2, OldVersions DEF ParentsBelow
<1>4. Linear'
  <2>1. Before(NextSequence)' = Before(NextSequence)
    BY <1>2, OnLineIs
  <2> QED BY <1>2, <2>1, OldVersions DEF IInv, Linear
<1>5. HeadSet'
  <2>1. ASSUME history = <<>> PROVE history' = <<>>
    BY <2>1, <1>1 DEF TypeOK
  <2> QED BY <2>1 DEF IInv, HeadSet
<1>6. LineTo(head)' = LineTo(head)
  <2>1. PICK h : h = history
    OBVIOUS
  <2>5. PICK g : g = history'
    OBVIOUS
  <2>6. PICK N \in Nat : N = Len(h) /\ N = Len(g)
    BY <1>1, <2>1, <2>5
  <2>2. Older(h, N) /\ Older(g, N)
    <3>1. Older(history, Len(history))
      BY OlderParents DEF IInv
    <3>2. Older(history', Len(history'))
      BY <1>3, NextOlderParents
    <3> QED BY <2>1, <2>5, <2>6, <3>1, <3>2
  <2>3. SameParents(g, h, N)
    BY <2>1, <2>5, <2>6 DEF GoesOn, SameVersion, SameParents
  <2>4. Line(g, head) = Line(h, head)
    BY <1>1, <2>1, <2>2, <2>3, <2>6, AncestorsStay
  <2> QED BY <2>1, <2>4, <2>5, Named
<1>7. Counted'
  BY <1>2, <1>6 DEF IInv, Counted
<1> QED BY <1>2, <1>3, <1>4, <1>5, <1>6, <1>7

LEMMA Appended ==
  ASSUME TypeOK, NEW new, history' = Append(history, new)
  PROVE  /\ Len(history') = Len(history) + 1
         /\ history'[Len(history) + 1] = new
         /\ \A v \in 1..Len(history) : history'[v] = history[v]
         /\ GoesOn
<1>1. history \in Seq(Version) /\ Len(history) \in Nat
  BY HistoryTypes DEF TypeOK
<1>2. history \in Seq(Version \cup {new}) /\ new \in Version \cup {new}
  BY <1>1
<1>3. /\ Len(history') = Len(history) + 1
      /\ history'[Len(history) + 1] = new
      /\ \A v \in 1..Len(history) : history'[v] = history[v]
  BY <1>2, AppendProperties
<1>4. GoesOn
  BY <1>1, <1>3 DEF GoesOn, SameVersion
<1> QED BY <1>3, <1>4

(* A version that is added extends the line from the head, or stands       *)
(* beside it.                                                              *)
LEMMA LineGrows ==
  ASSUME IInv, TypeOK', NEW new, history' = Append(history, new),
         NEW n \in Nat, n = Len(history) + 1,
         new.parent < n, new.mergeParent < n, new.parent = 0 => n = 1,
         new.source # "merge" => (new.aside <=> new.base # head),
         ~new.aside => new.parent = head,
         new.aside => head # 0,
         head' = IF new.aside THEN head ELSE n
  PROVE  /\ ParentsBelow' /\ HeadSet' /\ Linear' /\ Counted'
         /\ new.aside => /\ LineTo(head)' = LineTo(head)
                         /\ (DOMAIN history \ OnLine)' = (DOMAIN history \ OnLine) \cup {n}
         /\ ~new.aside => /\ LineTo(head)' = Append(LineTo(head), n)
                          /\ (DOMAIN history \ OnLine)' = DOMAIN history \ OnLine
<1>1. /\ Len(history) \in Nat /\ DOMAIN history = 1..Len(history)
      /\ OnLine \in SUBSET (1..Len(history)) /\ head \in 0..Len(history)
      /\ DOMAIN history' = 1..Len(history')
      /\ OnLine' \in SUBSET (1..Len(history')) /\ head' \in 0..Len(history')
  BY HistoryTypes, NextHistoryTypes DEF IInv
<1>2. Len(history') = n /\ history'[n] = new /\ GoesOn
  BY Appended DEF IInv
<1>3. n \notin DOMAIN history /\ DOMAIN history' = DOMAIN history \cup {n}
      /\ n \in 1..n /\ n # 0 /\ new.aside \in BOOLEAN
  <2>1. history'[n].aside \in BOOLEAN
    BY <1>1, <1>2, NextHistoryTypes
  <2> QED BY <1>1, <1>2, <2>1
<1>4. n \in OnLine' <=> ~new.aside
  BY <1>1, <1>2, <1>3 DEF OnLine
<1>5. \A v \in DOMAIN history : v \in OnLine' <=> v \in OnLine
  BY <1>1, <1>2, OldVersions
<1>6. /\ new.aside => OnLine' = OnLine
      /\ ~new.aside => OnLine' = OnLine \cup {n}
  BY <1>1, <1>2, <1>3, <1>4, <1>5
<1>7. Before(n)' = head /\ Before(NextSequence)' = head'
  <2>1. PICK new2 : new2 = OnLine'
    OBVIOUS
  <2>2. PICK old : old = OnLine
    OBVIOUS
  <2>3. new2 \in SUBSET (1..n) /\ old \in SUBSET (1..n)
    BY <1>1, <1>2, <1>3, <2>1, <2>2
  <2>4. head = Prior(old, n)
    BY <2>2, OnLineIs DEF IInv, Linear
  <2>5. \A w \in 1..n : w < n => (w \in new2 <=> w \in old)
    <3>1. \A w \in 1..n : w < n => w \in DOMAIN history
      BY <1>1
    <3> QED BY <1>5, <2>1, <2>2, <3>1
  <2>6. Prior(new2, n) = Prior(old, n)
    BY <1>3, <2>3, <2>5, PriorBefore
  <2>7. Prior(new2, n + 1) = head'
    BY <1>1, <1>3, <1>4, <2>1, <2>3, <2>4, <2>6, PriorEnd
  <2> QED BY <1>2, <2>1, <2>4, <2>6, <2>7, OnLineIs
<1>8. ParentsBelow'
  <2>1. \A v \in DOMAIN history : history'[v].parent < v /\ history'[v].mergeParent < v
    BY <1>2, OldVersions
  <2> QED BY <1>2, <1>3, <2>1 DEF ParentsBelow
<1>9. HeadSet'
  BY <1>3 DEF HeadSet
<1>10. Linear'
  <2>1. ASSUME NEW v \in DOMAIN history'
        PROVE  /\ history'[v].parent < v
               /\ history'[v].parent = 0 => v = 1
               /\ history'[v].source # "merge" =>
                    (history'[v].aside <=> history'[v].base # Before(v)')
               /\ ~history'[v].aside => history'[v].parent = Before(v)'
    <3>1. CASE v = n
      BY <1>2, <1>7, <3>1
    <3>2. CASE v \in DOMAIN history
      BY <1>2, <3>2, OldVersions
    <3> QED BY <1>3, <3>1, <3>2
  <2> QED BY <1>7, <2>1 DEF Linear
<1>11. PICK h : h = history
  OBVIOUS
<1>12. PICK g : g = history'
  OBVIOUS
<1>13. PICK N \in Nat : N = Len(h) /\ n = Len(g) /\ N <= n
  <2>1. Len(h) \in Nat /\ n = Len(h) + 1 /\ n = Len(g)
    BY <1>1, <1>2, <1>11, <1>12
  <2> QED BY <2>1
<1>14. Older(h, N) /\ Older(g, n)
  <2>1. Older(history, Len(history))
    BY OlderParents DEF IInv
  <2>2. Older(history', Len(history'))
    BY <1>8, NextOlderParents
  <2> QED BY <1>11, <1>12, <1>13, <2>1, <2>2
<1>15. SameParents(g, h, N)
  BY <1>2, <1>11, <1>12, <1>13 DEF GoesOn, SameVersion, SameParents
<1>16. Line(g, head) = Line(h, head) /\ Line(h, head) \in Seq(Nat)
  BY <1>1, <1>11, <1>13, <1>14, <1>15, AncestorsStay, LineSteps
<1>17. ~new.aside => Line(g, n) = Append(Line(g, head), n)
  <2>1. Line(g, n) = Append(Line(g, g[n].parent), n)
    BY <1>3, <1>13, <1>14, LineSteps
  <2>2. g[n] = new
    BY <1>2, <1>12
  <2> QED BY <2>1, <2>2
<1>18. /\ new.aside => LineTo(head)' = LineTo(head)
       /\ ~new.aside => LineTo(head)' = Append(LineTo(head), n)
  BY <1>11, <1>12, <1>16, <1>17, Named
<1>19. /\ new.aside => (DOMAIN history \ OnLine)' = (DOMAIN history \ OnLine) \cup {n}
       /\ ~new.aside => (DOMAIN history \ OnLine)' = DOMAIN history \ OnLine
  BY <1>1, <1>3, <1>6
<1>20. LineTo(head) \in Seq(Nat)
  BY <1>11, <1>16, Named
<1>21. Counted'
  <2>1. PICK beside : beside = DOMAIN history \ OnLine
    OBVIOUS
  <2>2. IsFiniteSet(1..Len(history)) /\ beside \subseteq 1..Len(history)
    BY <1>1, <2>1, FS_Interval
  <2>3. IsFiniteSet(beside) /\ Cardinality(beside) \in Nat
    BY <2>2, FS_Subset, FS_CardinalityType
  <2>4. Cardinality(beside \cup {n}) = Cardinality(beside) + 1
    BY <1>3, <2>1, <2>3, FS_AddElement
  <2>5. Len(Append(LineTo(head), n)) = Len(LineTo(head)) + 1 /\ Len(LineTo(head)) \in Nat
    BY <1>20, AppendProperties, LenProperties
  <2>6. Len(LineTo(head)) + Cardinality(beside) = Len(history)
    BY <2>1 DEF IInv, Counted
  <2>7. Len(LineTo(head)') + Cardinality((DOMAIN history \ OnLine)') = n
    <3>1. CASE new.aside
      <4>1. /\ LineTo(head)' = LineTo(head)
            /\ (DOMAIN history \ OnLine)' = beside \cup {n}
        BY <1>18, <1>19, <2>1, <3>1
      <4>2. Cardinality((DOMAIN history \ OnLine)') = Cardinality(beside) + 1
        BY <2>4, <4>1
      <4>3. Len(LineTo(head)') = Len(LineTo(head))
        BY <4>1
      <4> QED BY <1>1, <2>3, <2>5, <2>6, <4>2, <4>3
    <3>2. CASE ~new.aside
      <4>1. /\ LineTo(head)' = Append(LineTo(head), n)
            /\ (DOMAIN history \ OnLine)' = beside
        BY <1>18, <1>19, <2>1, <3>2
      <4>2. Cardinality((DOMAIN history \ OnLine)') = Cardinality(beside)
        BY <4>1
      <4>3. Len(LineTo(head)') = Len(LineTo(head)) + 1
        BY <2>5, <4>1
      <4> QED BY <1>1, <2>3, <2>5, <2>6, <4>2, <4>3
    <3> QED BY <3>1, <3>2
  <2> QED BY <1>2, <2>7 DEF Counted
<1> QED BY <1>8, <1>9, <1>10, <1>18, <1>19, <1>21

-----------------------------------------------------------------------------
(* Requests and merges, when the versions there are stay.                  *)

LEMMA AncestryStays ==
  ASSUME IInv, TypeOK', GoesOn, ParentsBelow'
  PROVE  \A v \in DOMAIN history : Ancestry(v)' = Ancestry(v)
<1>1. Len(history) \in Nat /\ DOMAIN history = 1..Len(history) /\ Len(history') \in Nat
  BY HistoryTypes, NextHistoryTypes DEF IInv
<1>2. PICK h : h = history
  OBVIOUS
<1>3. PICK g : g = history'
  OBVIOUS
<1>4. PICK N \in Nat, M \in Nat : N = Len(h) /\ M = Len(g) /\ N <= M
  BY <1>1, <1>2, <1>3 DEF GoesOn
<1>5. Older(h, N) /\ Older(g, M)
  <2>1. Older(history, Len(history))
    BY OlderParents DEF IInv
  <2>2. Older(history', Len(history'))
    BY NextOlderParents
  <2> QED BY <1>2, <1>3, <1>4, <2>1, <2>2
<1>6. SameParents(g, h, N)
  BY <1>2, <1>3, <1>4 DEF GoesOn, SameVersion, SameParents
<1>7. \A v \in 0..N : Ancestors(g, v) = Ancestors(h, v)
  BY <1>4, <1>5, <1>6, AncestorsStay
<1>8. \A v \in DOMAIN history : v \in 0..N
  BY <1>1, <1>2, <1>4
<1> QED BY <1>2, <1>3, <1>7, <1>8, Named

LEMMA SoundMergesStay ==
  ASSUME IInv, TypeOK', GoesOn, ParentsBelow', NEW t \in Triples,
         {t[1], t[2], t[3]} \subseteq DOMAIN history,
         \A i \in 1..3 : history[t[i]].job = "completed",
         t[1] \in Ancestry(t[2]) \cap Ancestry(t[3])
  PROVE  /\ {t[1], t[2], t[3]} \subseteq DOMAIN history'
         /\ \A i \in 1..3 : history'[t[i]].job = "completed"
         /\ t[1] \in Ancestry(t[2])' \cap Ancestry(t[3])'
<1>1. \A v \in DOMAIN history : /\ v \in DOMAIN history'
                                /\ Ancestry(v)' = Ancestry(v)
                                /\ v \in 1..Len(history)
  BY AncestryStays, OldVersions, HistoryTypes DEF IInv
<1>2. \A i \in 1..3 : t[i] \in DOMAIN history
  OBVIOUS
<1>3. ASSUME NEW i \in 1..3 PROVE history'[t[i]].job = "completed"
  <2>1. SameVersion(history'[t[i]], history[t[i]])
    BY <1>1, <1>2 DEF GoesOn
  <2>2. history[t[i]].job = "completed"
    OBVIOUS
  <2> QED BY <2>1, <2>2 DEF SameVersion
<1> QED BY <1>1, <1>3

(* Which requests make a version.                                          *)
LEMMA MakersStay ==
  ASSUME IInv, TypeOK', GoesOn, NEW v \in 1..Len(history),
         \A u \in Uploads : upload'[u].version = v <=> upload[u].version = v,
         \A key \in Keys :
           (~Fresh("restore", key)' /\ record'[<<"restore", key>>].resource = v)
             <=> (~Fresh("restore", key) /\ record[<<"restore", key>>].resource = v),
         \A t \in Triples : merge'[t].result = v <=> merge[t].result = v
  PROVE  Makes(v)' = Makes(v)
<1>1. history'[v].source = history[v].source
  BY DEF GoesOn, SameVersion
<1>2. {u \in Uploads : upload'[u].version = v} = {u \in Uploads : upload[u].version = v}
  OBVIOUS
<1>3. {key \in Keys : (~Fresh("restore", key))' /\ record'[<<"restore", key>>].resource = v}
        = {key \in Keys : ~Fresh("restore", key) /\ record[<<"restore", key>>].resource = v}
  OBVIOUS
<1>4. {t \in Triples : merge'[t].result = v} = {t \in Triples : merge[t].result = v}
  OBVIOUS
<1> QED BY <1>1, <1>2, <1>3, <1>4 DEF Makes

(* A step that adds no version.                                            *)
LEMMA QuietStep ==
  ASSUME IInv, TypeOK', GoesOn, Len(history') = Len(history), head' = head,
         \A u \in Uploads :
           /\ upload'[u].version = upload[u].version
           /\ upload'[u].base <= Len(history)
           /\ upload'[u].version # 0 <=> upload'[u].status = "finalized",
         \A t \in Triples :
           /\ merge'[t].result = merge[t].result
           /\ merge'[t].status \in {"absent", "open"} => merge'[t].result = 0
           /\ merge'[t].status # "absent" =>
                \/ merge[t].status # "absent"
                \/ /\ {t[1], t[2], t[3]} \subseteq DOMAIN history
                   /\ \A i \in 1..3 : history[t[i]].job = "completed"
                   /\ t[1] \in Ancestry(t[2]) \cap Ancestry(t[3]),
         \A key \in Keys : record'[<<"restore", key>>] = record[<<"restore", key>>],
         \A u \in Uploads, key \in Keys :
           record'[<<u, key>>] # None => record'[<<u, key>>].resource = upload[u].version
  PROVE  /\ IInv'
         /\ LineTo(head)' = LineTo(head)
         /\ (DOMAIN history \ OnLine)' = DOMAIN history \ OnLine
<1>1. /\ ParentsBelow' /\ HeadSet' /\ Linear' /\ Counted'
      /\ LineTo(head)' = LineTo(head)
      /\ (DOMAIN history \ OnLine)' = DOMAIN history \ OnLine
  BY LineStays
<1>2. DOMAIN history = 1..Len(history) /\ DOMAIN history' = DOMAIN history
  BY HistoryTypes, NextHistoryTypes DEF IInv
<1>3. ASSUME NEW t \in Triples, merge'[t].status # "absent"
      PROVE  /\ {t[1], t[2], t[3]} \subseteq DOMAIN history'
             /\ \A i \in 1..3 : history'[t[i]].job = "completed"
             /\ t[1] \in Ancestry(t[2])' \cap Ancestry(t[3])'
  <2>1. /\ {t[1], t[2], t[3]} \subseteq DOMAIN history
        /\ \A i \in 1..3 : history[t[i]].job = "completed"
        /\ t[1] \in Ancestry(t[2]) \cap Ancestry(t[3])
    BY <1>3 DEF IInv, Known, MergesAreSound
  <2> QED BY <1>1, <2>1, SoundMergesStay
<1>4. MergesAreSound'
  BY <1>3 DEF MergesAreSound
<1>5. \A key \in Keys : Fresh("restore", key)' = Fresh("restore", key)
  BY DEF Fresh
<1>6. Known'
  <2>1. \A u \in Uploads :
          upload'[u].base <= Len(history') /\ upload'[u].version <= Len(history')
    BY DEF IInv, Known
  <2>2. ASSUME NEW t \in Triples
        PROVE  /\ merge'[t].result <= Len(history')
               /\ merge'[t].status \in {"absent", "open"} => merge'[t].result = 0
               /\ merge'[t].status # "absent" => {t[1], t[2], t[3]} \subseteq DOMAIN history'
    <3>1. merge'[t].result <= Len(history')
      BY DEF IInv, Known
    <3> QED BY <1>3, <3>1
  <2>3. \A key \in Keys :
          ~Fresh("restore", key)' => record'[<<"restore", key>>].resource <= Len(history')
    BY <1>5 DEF IInv, Known
  <2> QED BY <2>1, <2>2, <2>3 DEF Known
<1>7. OncePerRequest'
  <2>1. ASSUME NEW v \in DOMAIN history PROVE Makes(v)' = Makes(v)
    BY <1>2, <1>5, <2>1, MakersStay
  <2>2. \A v \in DOMAIN history' : \E x \in Makes(v)' : Makes(v)' = {x}
    BY <1>2, <2>1 DEF IInv, OncePerRequest
  <2>3. \A u \in Uploads, key \in Keys :
          ~Fresh(u, key)' => record'[<<u, key>>].resource = upload'[u].version
    BY DEF Fresh
  <2> QED BY <2>2, <2>3 DEF OncePerRequest
<1> QED BY <1>1, <1>4, <1>6, <1>7 DEF IInv

(* A step that adds the version n for one request.                         *)
LEMMA NewStep ==
  ASSUME IInv, TypeOK', NEW n \in Nat, n = Len(history) + 1, GoesOn,
         DOMAIN history' = DOMAIN history \cup {n},
         ParentsBelow', HeadSet', Linear', Counted',
         \A u \in Uploads :
           /\ \/ upload'[u].version = upload[u].version
              \/ upload[u].version = 0 /\ upload'[u].version = n
           /\ upload'[u].base = upload[u].base
           /\ upload'[u].version # 0 <=> upload'[u].status = "finalized",
         \A t \in Triples :
           /\ \/ merge'[t].result = merge[t].result
              \/ merge[t].result = 0 /\ merge'[t].result = n
           /\ merge'[t].status \in {"absent", "open"} => merge'[t].result = 0
           /\ merge'[t].status # "absent" => merge[t].status # "absent",
         \A key \in Keys :
           \/ record'[<<"restore", key>>] = record[<<"restore", key>>]
           \/ /\ record[<<"restore", key>>] = None
              /\ record'[<<"restore", key>>].resource = n,
         \A u \in Uploads, key \in Keys :
           record'[<<u, key>>] # None => record'[<<u, key>>].resource = upload'[u].version,
         NEW x, Makes(n)' = {x}
  PROVE  IInv'
<1>1. /\ DOMAIN history = 1..Len(history) /\ Len(history) \in Nat
      /\ Len(history') = n /\ n \notin DOMAIN history
  <2>1. DOMAIN history = 1..Len(history) /\ Len(history) \in Nat
    BY HistoryTypes DEF IInv
  <2>2. DOMAIN history' = 1..Len(history') /\ Len(history') \in Nat
    BY NextHistoryTypes
  <2>3. 1..Len(history') = 1..n
    BY <2>1, <2>2
  <2>4. n \in 1..n /\ n \notin 1..Len(history)
    BY <2>1
  <2>5. Len(history') = n
    BY <2>2, <2>3, <2>4
  <2> QED BY <2>1, <2>4, <2>5
<1>2. ASSUME NEW t \in Triples, merge'[t].status # "absent"
      PROVE  /\ {t[1], t[2], t[3]} \subseteq DOMAIN history'
             /\ \A i \in 1..3 : history'[t[i]].job = "completed"
             /\ t[1] \in Ancestry(t[2])' \cap Ancestry(t[3])'
  <2>1. /\ {t[1], t[2], t[3]} \subseteq DOMAIN history
        /\ \A i \in 1..3 : history[t[i]].job = "completed"
        /\ t[1] \in Ancestry(t[2]) \cap Ancestry(t[3])
    BY <1>2 DEF IInv, Known, MergesAreSound
  <2> QED BY <2>1, SoundMergesStay
<1>3. MergesAreSound'
  BY <1>2 DEF MergesAreSound
<1>4. \A key \in Keys :
        /\ Fresh("restore", key)' <=> record'[<<"restore", key>>] = None
        /\ Fresh("restore", key) <=> record[<<"restore", key>>] = None
  BY DEF Fresh
<1>5. Known'
  <2>1. ASSUME NEW u \in Uploads
        PROVE  upload'[u].base <= Len(history') /\ upload'[u].version <= Len(history')
    <3>1. upload[u].base \in Nat /\ upload[u].version \in Nat
      BY MaxVersionsAssumption DEF IInv, TypeOK, Upload
    <3>2. upload[u].base <= Len(history) /\ upload[u].version <= Len(history)
      BY DEF IInv, Known
    <3> QED BY <1>1, <3>1, <3>2
  <2>2. ASSUME NEW t \in Triples
        PROVE  /\ merge'[t].result <= Len(history')
               /\ merge'[t].status \in {"absent", "open"} => merge'[t].result = 0
               /\ merge'[t].status # "absent" => {t[1], t[2], t[3]} \subseteq DOMAIN history'
    <3>1. merge[t].result \in Nat
      BY MaxVersionsAssumption DEF IInv, TypeOK, Merge
    <3>2. merge[t].result <= Len(history)
      BY DEF IInv, Known
    <3>3. merge'[t].result <= Len(history')
      BY <1>1, <3>1, <3>2
    <3> QED BY <1>2, <3>3
  <2>3. ASSUME NEW key \in Keys, record'[<<"restore", key>>] # None
        PROVE  record'[<<"restore", key>>].resource <= Len(history')
    <3>1. CASE record'[<<"restore", key>>] = record[<<"restore", key>>]
      <4>1. record[<<"restore", key>>] # None
        BY <2>3, <3>1
      <4>2. record[<<"restore", key>>] \in Record("restore")
        <5>1. <<"restore", key>> \in Operations \X Keys
          BY DEF Operations
        <5>2. record[<<"restore", key>>] \in Record(<<"restore", key>>[1]) \cup {None}
          BY <5>1 DEF IInv, TypeOK
        <5> QED BY <4>1, <5>2
      <4>3. record[<<"restore", key>>].resource \in Nat
        BY <4>2 DEF Record, Numbers
      <4>4. record[<<"restore", key>>].resource <= Len(history)
        BY <1>4, <4>1 DEF IInv, Known
      <4> QED BY <1>1, <3>1, <4>3, <4>4
    <3>2. CASE record'[<<"restore", key>>].resource = n
      BY <1>1, <3>2
    <3> QED BY <3>1, <3>2
  <2> QED BY <1>4, <2>1, <2>2, <2>3 DEF Known
<1>6. OncePerRequest'
  <2>1. ASSUME NEW v \in DOMAIN history PROVE Makes(v)' = Makes(v)
    <3>1. v \in 1..Len(history) /\ v # n /\ v # 0
      BY <1>1
    <3>2. \A u \in Uploads : upload'[u].version = v <=> upload[u].version = v
      BY <3>1
    <3>3. \A t \in Triples : merge'[t].result = v <=> merge[t].result = v
      BY <3>1
    <3>4. \A key \in Keys :
            (~Fresh("restore", key)' /\ record'[<<"restore", key>>].resource = v)
              <=> (~Fresh("restore", key) /\ record[<<"restore", key>>].resource = v)
      BY <1>4, <3>1
    <3> QED BY <3>1, <3>2, <3>3, <3>4, MakersStay
  <2>2. ASSUME NEW v \in DOMAIN history' PROVE \E y \in Makes(v)' : Makes(v)' = {y}
    <3>1. CASE v = n
      BY <3>1
    <3>2. CASE v \in DOMAIN history
      BY <2>1, <3>2 DEF IInv, OncePerRequest
    <3> QED BY <3>1, <3>2
  <2>3. \A u \in Uploads, key \in Keys :
          ~Fresh(u, key)' => record'[<<u, key>>].resource = upload'[u].version
    BY DEF Fresh
  <2> QED BY <2>2, <2>3 DEF OncePerRequest
<1> QED BY <1>3, <1>5, <1>6 DEF IInv

-----------------------------------------------------------------------------
(* Types.                                                                  *)

LEMMA SavedRecord ==
  ASSUME TypeOK, NEW operation \in Operations, NEW key \in Keys, NEW resource, NEW response,
         [resource |-> resource, response |-> response] \in Record(operation),
         record' = Saved(operation, key, resource, response)
  PROVE  /\ DOMAIN record' = Operations \X Keys
         /\ \A c \in Operations \X Keys : record'[c] \in Record(c[1]) \cup {None}
         /\ record'[<<operation, key>>] # None
         /\ record'[<<operation, key>>].resource = resource
         /\ \A c \in Operations \X Keys :
              c # <<operation, key>> => record'[c] = record[c]
<1>1. PICK value : value = [resource |-> resource, response |-> response]
  OBVIOUS
<1>2. /\ DOMAIN record' = Operations \X Keys
      /\ <<operation, key>> \in Operations \X Keys
      /\ record'[<<operation, key>>] = value
      /\ \A c \in Operations \X Keys :
           c # <<operation, key>> => record'[c] = record[c]
  BY <1>1 DEF Saved, TypeOK
<1>3. value \in Record(operation) /\ value # None /\ value.resource = resource
  BY <1>1, NoneAssumption
<1>4. ASSUME NEW c \in Operations \X Keys PROVE record'[c] \in Record(c[1]) \cup {None}
  <2>1. CASE c = <<operation, key>>
    <3>1. c[1] = operation
      BY <2>1
    <3> QED BY <1>2, <1>3, <2>1, <3>1
  <2>2. CASE c # <<operation, key>>
    BY <1>2, <2>2 DEF TypeOK
  <2> QED BY <2>1, <2>2
<1> QED BY <1>2, <1>3, <1>4

LEMMA RecordOf ==
  ASSUME TypeOK, NEW operation \in Uploads \cup {"restore"}, NEW key \in Keys,
         ~Fresh(operation, key)
  PROVE  record[<<operation, key>>].resource \in Numbers
<1>1. <<operation, key>> \in Operations \X Keys /\ operation # "merge"
  BY UploadsAssumption DEF Operations
<1>2. record[<<operation, key>>] \in Record(operation)
  BY <1>1 DEF TypeOK, Fresh
<1> QED BY <1>1, <1>2 DEF Record

LEMMA SavedTypes ==
  ASSUME NEW operation \in Uploads \cup {"restore"}, NEW resource \in Numbers,
         NEW response \in {"created", "conflict"}
  PROVE  /\ operation \in Operations
         /\ [resource |-> resource, response |-> response] \in Record(operation)
BY UploadsAssumption DEF Operations, Record

LEMMA InitInv == Init => IInv
<1> SUFFICES ASSUME Init PROVE IInv
  OBVIOUS
<1>1. Len(history) = 0 /\ DOMAIN history = {} /\ history \in Seq(Version)
  BY EmptySeq DEF Init
<1>2. TypeOK
  <2>1. Len(history) <= MaxVersions /\ head \in 0..Len(history)
    BY <1>1, MaxVersionsAssumption DEF Init
  <2>2. scan \in [Numbers -> ScanStatus]
    BY DEF Init, ScanStatus
  <2>3. NoUpload \in Upload /\ NoMerge \in Merge
    BY MaxVersionsAssumption DEF NoUpload, NoMerge, Upload, Merge
  <2>4. upload \in [Uploads -> Upload] /\ merge \in [Triples -> Merge]
    BY <2>3 DEF Init
  <2>5. DOMAIN record = Operations \X Keys
        /\ \A c \in Operations \X Keys : record[c] \in Record(c[1]) \cup {None}
    BY DEF Init
  <2> QED BY <1>1, <2>1, <2>2, <2>4, <2>5 DEF TypeOK
<1>3. ParentsBelow /\ HeadSet
  BY <1>1 DEF Init, ParentsBelow, HeadSet
<1>4. \A c \in Operations \X Keys : record[c] = None
  BY DEF Init
<1>5. \A operation \in Operations, key \in Keys : Fresh(operation, key)
  BY <1>4 DEF Fresh
<1>6. Known
  <2>1. \A u \in Uploads : upload[u].base <= 0 /\ upload[u].version <= 0
    BY DEF Init, NoUpload
  <2>2. \A t \in Triples : merge[t].result = 0 /\ merge[t].status = "absent"
    BY DEF Init, NoMerge
  <2>3. "restore" \in Operations
    BY DEF Operations
  <2> QED BY <1>1, <1>5, <2>1, <2>2, <2>3 DEF Known
<1>7. Linear
  <2>1. OnLine = {}
    BY <1>1 DEF OnLine
  <2>2. Prior(OnLine, Len(history) + 1) = 0
    <3>1. {} \in SUBSET (1..0) /\ 0 + 1 \in Nat \ {0} /\ 0 < 0 + 1
      OBVIOUS
    <3>2. Prior({}, 0 + 1) = 0
      BY <3>1, PriorUnique
    <3> QED BY <1>1, <2>1, <3>2
  <2> QED BY <1>1, <2>2, OnLineIs DEF Init, Linear
<1>8. OncePerRequest
  <2>1. \A u \in Uploads : upload[u].version = 0 /\ upload[u].status = "absent"
    BY DEF Init, NoUpload
  <2> QED BY <1>1, <1>5, <2>1 DEF OncePerRequest, Operations
<1>9. MergesAreSound
  <2>1. \A t \in Triples : merge[t].status = "absent"
    BY DEF Init, NoMerge
  <2> QED BY <2>1 DEF MergesAreSound
<1>10. Counted
  <2>1. PICK h : h = history
    OBVIOUS
  <2>2. Older(h, 0) /\ 0 = Len(h)
    BY <1>1, <2>1 DEF Older
  <2>3. Line(h, 0) = <<>>
    BY <2>2, LineSteps
  <2>4. LineTo(head) = <<>>
    BY <2>1, <2>3, Named DEF Init
  <2>5. Cardinality(DOMAIN history \ OnLine) = 0
    BY <1>1, FS_EmptySet
  <2>6. Len(<<>>) = 0
    OBVIOUS
  <2> QED BY <1>1, <2>4, <2>5, <2>6 DEF Counted
<1> QED BY <1>2, <1>3, <1>6, <1>7, <1>8, <1>9, <1>10 DEF IInv

-----------------------------------------------------------------------------
(* The actions.                                                            *)

(* What every action may use of the invariant.                             *)
LEMMA Facts ==
  ASSUME IInv
  PROVE  /\ \A u \in Uploads :
              /\ upload[u] \in Upload
              /\ upload[u].base \in 0..Len(history)
              /\ upload[u].version \in 0..Len(history)
              /\ upload[u].version # 0 <=> upload[u].status = "finalized"
         /\ \A t \in Triples :
              /\ merge[t] \in Merge
              /\ merge[t].result \in 0..Len(history)
              /\ merge[t].status \in {"absent", "open"} => merge[t].result = 0
         /\ \A u \in Uploads, key \in Keys :
              record[<<u, key>>] # None =>
                record[<<u, key>>].resource = upload[u].version
<1>1. Len(history) \in Nat
  BY HistoryTypes DEF IInv
<1>2. ASSUME NEW u \in Uploads
      PROVE  /\ upload[u] \in Upload
             /\ upload[u].base \in 0..Len(history)
             /\ upload[u].version \in 0..Len(history)
             /\ upload[u].version # 0 <=> upload[u].status = "finalized"
  <2>1. upload[u] \in Upload
    BY DEF IInv, TypeOK
  <2>2. upload[u].base \in Nat /\ upload[u].version \in Nat
    BY <2>1, MaxVersionsAssumption DEF Upload
  <2>3. upload[u].base <= Len(history) /\ upload[u].version <= Len(history)
    BY DEF IInv, Known
  <2> QED BY <1>1, <2>1, <2>2, <2>3 DEF IInv, OncePerRequest
<1>3. ASSUME NEW t \in Triples
      PROVE  /\ merge[t] \in Merge
             /\ merge[t].result \in 0..Len(history)
             /\ merge[t].status \in {"absent", "open"} => merge[t].result = 0
  <2>1. merge[t] \in Merge
    BY DEF IInv, TypeOK
  <2>2. merge[t].result \in Nat
    BY <2>1, MaxVersionsAssumption DEF Merge
  <2>3. merge[t].result <= Len(history)
    BY DEF IInv, Known
  <2> QED BY <1>1, <2>1, <2>2, <2>3 DEF IInv, Known
<1>4. ASSUME NEW u \in Uploads, NEW key \in Keys, record[<<u, key>>] # None
      PROVE  record[<<u, key>>].resource = upload[u].version
  BY <1>4 DEF IInv, OncePerRequest, Fresh
<1> QED BY <1>2, <1>3, <1>4

(* The step of a quiet action, as the line sees it.                        *)
Stands ==
  LineTo(head)' = LineTo(head) /\ (DOMAIN history \ OnLine)' = DOMAIN history \ OnLine

LEMMA SameHistory ==
  ASSUME history' = history, TypeOK
  PROVE  GoesOn
BY HistoryTypes DEF GoesOn, SameVersion

(* An upload is opened or closed.                                          *)
LEMMA UploadInv ==
  ASSUME IInv, NEW u \in Uploads, NEW new \in Upload,
         upload' = [upload EXCEPT ![u] = new],
         UNCHANGED <<history, head, scan, merge, record>>,
         upload[u].status # "finalized", new.status # "finalized",
         new.version = upload[u].version, new.base <= Len(history)
  PROVE  IInv' /\ Stands
<1>1. TypeOK'
  BY DEF IInv, TypeOK
<1>2. upload'[u] = new /\ \A w \in Uploads \ {u} : upload'[w] = upload[w]
  BY DEF IInv, TypeOK
<1>3. \A w \in Uploads :
        /\ upload'[w].version = upload[w].version
        /\ upload'[w].base <= Len(history)
        /\ upload'[w].version # 0 <=> upload'[w].status = "finalized"
  BY <1>2, Facts, HistoryTypes DEF IInv
<1>4. GoesOn
  BY SameHistory DEF IInv
<1>5. \A t \in Triples :
        /\ merge'[t].result = merge[t].result
        /\ merge'[t].status \in {"absent", "open"} => merge'[t].result = 0
        /\ merge'[t].status # "absent" => merge[t].status # "absent"
  BY Facts
<1>6. \A w \in Uploads, key \in Keys :
        record'[<<w, key>>] # None => record'[<<w, key>>].resource = upload[w].version
  BY Facts
<1> QED BY <1>1, <1>3, <1>4, <1>5, <1>6, QuietStep DEF Stands

LEMMA CreateUploadInv ==
  ASSUME IInv, NEW u \in Uploads, NEW seen \in 0..MaxVersions, CreateUpload(u, seen)
  PROVE  IInv' /\ Stands
<1>1. PICK old \in Upload : old = upload[u]
  BY DEF IInv, TypeOK
<1>2. PICK new : new = [old EXCEPT !.status = "pending", !.base = seen]
  OBVIOUS
<1>3. /\ new \in Upload /\ new.status = "pending" /\ new.version = old.version
      /\ new.base = seen
  BY <1>1, <1>2 DEF Upload
<1>4. seen <= Len(history)
  BY HistoryTypes DEF CreateUpload, IInv
<1>5. upload' = [upload EXCEPT ![u] = new] /\ old.status = "absent"
  BY <1>1, <1>2 DEF CreateUpload, IInv, TypeOK
<1> QED BY <1>1, <1>3, <1>4, <1>5, UploadInv DEF CreateUpload

LEMMA EndUploadInv ==
  ASSUME IInv, NEW u \in Uploads, EndUpload(u)
  PROVE  IInv' /\ Stands
<1>1. PICK old \in Upload : old = upload[u]
  BY DEF IInv, TypeOK
<1>2. PICK new : new = [old EXCEPT !.status = "ended"]
  OBVIOUS
<1>3. /\ new \in Upload /\ new.status = "ended" /\ new.version = old.version
      /\ new.base = old.base
  BY <1>1, <1>2 DEF Upload
<1>4. new.base <= Len(history)
  BY <1>1, <1>3 DEF IInv, Known
<1>5. upload' = [upload EXCEPT ![u] = new] /\ old.status = "pending"
  BY <1>1, <1>2 DEF EndUpload, IInv, TypeOK
<1> QED BY <1>1, <1>3, <1>4, <1>5, UploadInv DEF EndUpload

LEMMA FinalizeAgainInv ==
  ASSUME IInv, NEW u \in Uploads, NEW key \in Keys, FinalizeAgain(u, key)
  PROVE  IInv' /\ Stands
<1>1. PICK v, response : /\ v = upload[u].version /\ response = Outcome(v)
                         /\ record' = Saved(u, key, v, response)
  BY DEF FinalizeAgain
<1>2. v \in Numbers /\ response \in {"created", "conflict"}
  <2>1. v \in 0..MaxVersions /\ v # 0
    BY <1>1, Facts DEF FinalizeAgain, Upload
  <2> QED BY <1>1, <2>1, MaxVersionsAssumption DEF Numbers, Outcome
<1>3. /\ DOMAIN record' = Operations \X Keys
      /\ \A c \in Operations \X Keys : record'[c] \in Record(c[1]) \cup {None}
      /\ record'[<<u, key>>].resource = v
      /\ \A c \in Operations \X Keys : c # <<u, key>> => record'[c] = record[c]
  <2>1. u \in Operations /\ [resource |-> v, response |-> response] \in Record(u)
    BY <1>2, SavedTypes
  <2> QED BY <1>1, <2>1, SavedRecord DEF IInv
<1>4. UNCHANGED <<history, head, scan, upload, merge>>
  BY DEF FinalizeAgain
<1>5. TypeOK'
  BY <1>3, <1>4 DEF IInv, TypeOK
<1>6. \A other \in Keys : record'[<<"restore", other>>] = record[<<"restore", other>>]
  BY <1>3, UploadsAssumption DEF Operations
<1>7. ASSUME NEW w \in Uploads, NEW other \in Keys, record'[<<w, other>>] # None
      PROVE  record'[<<w, other>>].resource = upload[w].version
  <2>1. CASE <<w, other>> = <<u, key>>
    BY <1>1, <1>3, <2>1
  <2>2. CASE <<w, other>> # <<u, key>>
    <3>1. record'[<<w, other>>] = record[<<w, other>>]
      BY <1>3, <2>2 DEF Operations
    <3> QED BY <1>7, <3>1, Facts
  <2> QED BY <2>1, <2>2
<1>8. GoesOn
  BY <1>4, SameHistory DEF IInv
<1>9. \A w \in Uploads :
        /\ upload'[w].version = upload[w].version
        /\ upload'[w].base <= Len(history)
        /\ upload'[w].version # 0 <=> upload'[w].status = "finalized"
  BY <1>4, Facts DEF IInv, Known
<1>10. \A t \in Triples :
         /\ merge'[t].result = merge[t].result
         /\ merge'[t].status \in {"absent", "open"} => merge'[t].result = 0
         /\ merge'[t].status # "absent" => merge[t].status # "absent"
  BY <1>4, Facts
<1> QED BY <1>4, <1>5, <1>6, <1>7, <1>8, <1>9, <1>10, QuietStep DEF Stands

(* Everything but the versions and the scans stands.                       *)
LEMMA NoRequest ==
  ASSUME IInv, UNCHANGED <<upload, merge, record>>
  PROVE  /\ \A u \in Uploads :
              /\ upload'[u].version = upload[u].version
              /\ upload'[u].base <= Len(history)
              /\ upload'[u].version # 0 <=> upload'[u].status = "finalized"
         /\ \A t \in Triples :
              /\ merge'[t].result = merge[t].result
              /\ merge'[t].status \in {"absent", "open"} => merge'[t].result = 0
              /\ merge'[t].status # "absent" => merge[t].status # "absent"
         /\ \A key \in Keys : record'[<<"restore", key>>] = record[<<"restore", key>>]
         /\ \A u \in Uploads, key \in Keys :
              record'[<<u, key>>] # None =>
                record'[<<u, key>>].resource = upload[u].version
BY Facts DEF IInv, Known

LEMMA InspectedInv ==
  ASSUME IInv, NEW v \in Numbers, NEW outcome \in Outcomes, Inspected(v, outcome)
  PROVE  IInv' /\ Stands
<1>1. /\ history \in Seq(Version) /\ Len(history) \in Nat
      /\ v \in 1..Len(history) /\ history[v].job = "open"
  BY HistoryTypes DEF Inspected, IInv, TypeOK
<1>2. PICK old \in Version : old = history[v]
  BY <1>1
<1>3. PICK new : new = [old EXCEPT !.job = outcome,
                                   !.status = VersionAfter(@, outcome)]
  OBVIOUS
<1>4. new \in Version
  <2>1. VersionAfter(old.status, outcome) \in VersionStatus
    BY <1>2 DEF Version, VersionAfter, VersionStatus, Outcomes
  <2> QED BY <1>2, <1>3, <2>1 DEF Version
<1>5. SameVersion(new, old)
  BY <1>1, <1>2, <1>3 DEF SameVersion, Version
<1>6. history' = [history EXCEPT ![v] = new]
  BY <1>1, <1>2, <1>3 DEF Inspected
<1>7. /\ history' \in Seq(Version) /\ Len(history') = Len(history)
      /\ history'[v] = new
      /\ \A w \in 1..Len(history) : w # v => history'[w] = history[w]
  BY <1>1, <1>4, <1>6
<1>8. GoesOn
  BY <1>1, <1>2, <1>5, <1>7 DEF GoesOn, SameVersion
<1>9. UNCHANGED <<head, upload, merge, record>>
  BY DEF Inspected
<1>10. scan' \in [Numbers -> ScanStatus]
  <2>1. PICK file \in Numbers : file = history[v].file
    BY <1>2 DEF Version
  <2>2. ScanAfter(scan[file], outcome) \in ScanStatus
    <3>1. scan[file] \in ScanStatus
      BY DEF IInv, TypeOK
    <3> QED BY <3>1 DEF ScanAfter, ScanStatus
  <2>3. scan' = [scan EXCEPT ![file] = ScanAfter(@, outcome)]
    BY <2>1 DEF Inspected
  <2> QED BY <2>2, <2>3 DEF IInv, TypeOK
<1>11. TypeOK'
  BY <1>7, <1>9, <1>10 DEF IInv, TypeOK
<1> QED BY <1>7, <1>8, <1>9, <1>11, NoRequest, QuietStep DEF Stands

(* A merge operation is opened, or ends without a version.                 *)
LEMMA MergeRowInv ==
  ASSUME IInv, NEW t \in Triples, NEW new \in Merge, TypeOK',
         merge' = [merge EXCEPT ![t] = new],
         UNCHANGED <<history, head, upload>>,
         new.result = merge[t].result,
         new.status \in {"absent", "open"} => new.result = 0,
         new.status # "absent" =>
           \/ merge[t].status # "absent"
           \/ /\ {t[1], t[2], t[3]} \subseteq DOMAIN history
              /\ \A i \in 1..3 : history[t[i]].job = "completed"
              /\ t[1] \in Ancestry(t[2]) \cap Ancestry(t[3]),
         \A operation \in Uploads \cup {"restore"}, key \in Keys :
           record'[<<operation, key>>] = record[<<operation, key>>]
  PROVE  IInv' /\ Stands
<1>1. merge'[t] = new /\ \A s \in Triples \ {t} : merge'[s] = merge[s]
  BY DEF IInv, TypeOK
<1>2. ASSUME NEW s \in Triples
      PROVE  /\ merge'[s].result = merge[s].result
             /\ merge'[s].status \in {"absent", "open"} => merge'[s].result = 0
             /\ merge'[s].status # "absent" =>
                  \/ merge[s].status # "absent"
                  \/ /\ {s[1], s[2], s[3]} \subseteq DOMAIN history
                     /\ \A i \in 1..3 : history[s[i]].job = "completed"
                     /\ s[1] \in Ancestry(s[2]) \cap Ancestry(s[3])
  <2>1. CASE s = t
    BY <1>1, <2>1
  <2>2. CASE s # t
    BY <1>1, <2>2, Facts
  <2> QED BY <2>1, <2>2
<1>3. \A w \in Uploads :
        /\ upload'[w].version = upload[w].version
        /\ upload'[w].base <= Len(history)
        /\ upload'[w].version # 0 <=> upload'[w].status = "finalized"
  BY Facts DEF IInv, Known
<1>4. \A u \in Uploads, key \in Keys :
        record'[<<u, key>>] # None => record'[<<u, key>>].resource = upload[u].version
  BY Facts
<1>5. GoesOn
  BY SameHistory DEF IInv
<1> QED BY <1>2, <1>3, <1>4, <1>5, QuietStep DEF Stands

LEMMA CreateMergeInv ==
  ASSUME IInv, NEW t \in Triples, NEW key \in Keys, CreateMerge(t, key)
  PROVE  IInv' /\ Stands
<1>1. PICK old \in Merge : old = merge[t]
  BY DEF IInv, TypeOK
<1>2. PICK new : new = IF old.status # "absent" THEN old ELSE [old EXCEPT !.status = "open"]
  OBVIOUS
<1>3. /\ new \in Merge /\ new.result = old.result
      /\ merge' = [merge EXCEPT ![t] = new]
  BY <1>1, <1>2 DEF Merge, CreateMerge, IInv, TypeOK
<1>4. new.status \in {"absent", "open"} => new.result = 0
  <2>1. old.status \in {"absent", "open"} => old.result = 0
    BY <1>1, Facts DEF Merge, IInv, Known
  <2> QED BY <1>1, <1>2, <2>1, Facts DEF Merge
<1>5. /\ DOMAIN record' = Operations \X Keys
      /\ \A c \in Operations \X Keys : record'[c] \in Record(c[1]) \cup {None}
      /\ \A c \in Operations \X Keys : c # <<"merge", key>> => record'[c] = record[c]
  <2>1. "merge" \in Operations /\ [resource |-> t, response |-> "accepted"] \in Record("merge")
    BY DEF Operations, Record
  <2>2. record' = Saved("merge", key, t, "accepted")
    BY DEF CreateMerge
  <2> QED BY <2>1, <2>2, SavedRecord DEF IInv
<1>6. UNCHANGED <<history, head, scan, upload>>
  BY DEF CreateMerge
<1>7. TypeOK'
  BY <1>3, <1>5, <1>6 DEF IInv, TypeOK
<1>8. /\ {t[1], t[2], t[3]} \subseteq DOMAIN history
      /\ \A i \in 1..3 : history[t[i]].job = "completed"
      /\ t[1] \in Ancestry(t[2]) \cap Ancestry(t[3])
  <2>1. \A i \in 1..3 : i = 1 \/ i = 2 \/ i = 3
    OBVIOUS
  <2> QED BY <2>1 DEF CreateMerge, NotRefusedBefore, Mergeable, Usable
<1>9. \A operation \in Uploads \cup {"restore"}, other \in Keys :
        record'[<<operation, other>>] = record[<<operation, other>>]
  BY <1>5, UploadsAssumption DEF Operations
<1> QED BY <1>1, <1>3, <1>4, <1>6, <1>7, <1>8, <1>9, MergeRowInv

LEMMA EndMergeInv ==
  ASSUME IInv, NEW t \in Triples,
         NEW status \in {"manual_resolution_required", "permanently_failed"},
         EndMerge(t, status)
  PROVE  IInv' /\ Stands
<1>1. PICK old \in Merge : old = merge[t]
  BY DEF IInv, TypeOK
<1>2. PICK new : new = [old EXCEPT !.status = status]
  OBVIOUS
<1>3. /\ new \in Merge /\ new.result = old.result /\ new.status = status
      /\ merge' = [merge EXCEPT ![t] = new] /\ old.status = "open"
  BY <1>1, <1>2 DEF Merge, EndMerge, IInv, TypeOK
<1>4. UNCHANGED <<history, head, scan, upload, record>>
  BY DEF EndMerge
<1>5. TypeOK'
  BY <1>3, <1>4 DEF IInv, TypeOK
<1> QED BY <1>1, <1>3, <1>4, <1>5, MergeRowInv

(* The step of an action that adds a version, as the line sees it.         *)
Extends(n) ==
  /\ LineTo(head)' = Append(LineTo(head), n)
  /\ (DOMAIN history \ OnLine)' = DOMAIN history \ OnLine
KeepsAside(n) ==
  /\ LineTo(head)' = LineTo(head)
  /\ (DOMAIN history \ OnLine)' = (DOMAIN history \ OnLine) \cup {n}
Lengthens(n) == n = Len(history) + 1 /\ (Extends(n) \/ KeepsAside(n))

(* A new version and the request it is made for.                           *)
LEMMA AddsInv ==
  ASSUME IInv, NEW new \in Version, NEW n \in Nat, n = Len(history) + 1, Adds(new),
         head' = IF new.aside THEN head ELSE n,
         scan' = scan, upload' \in [Uploads -> Upload], merge' \in [Triples -> Merge],
         DOMAIN record' = Operations \X Keys,
         \A c \in Operations \X Keys : record'[c] \in Record(c[1]) \cup {None},
         new.parent < n, new.mergeParent < n,
         new.parent = 0 => n = 1,
         new.source # "merge" => (new.aside <=> new.base # head),
         ~new.aside => new.parent = head,
         new.aside => head # 0,
         \A u \in Uploads :
           /\ \/ upload'[u].version = upload[u].version
              \/ upload[u].version = 0 /\ upload'[u].version = n
           /\ upload'[u].base = upload[u].base
           /\ upload'[u].version # 0 <=> upload'[u].status = "finalized",
         \A t \in Triples :
           /\ \/ merge'[t].result = merge[t].result
              \/ merge[t].result = 0 /\ merge'[t].result = n
           /\ merge'[t].status \in {"absent", "open"} => merge'[t].result = 0
           /\ merge'[t].status # "absent" => merge[t].status # "absent",
         \A key \in Keys :
           \/ record'[<<"restore", key>>] = record[<<"restore", key>>]
           \/ /\ record[<<"restore", key>>] = None
              /\ record'[<<"restore", key>>].resource = n,
         \A u \in Uploads, key \in Keys :
           record'[<<u, key>>] # None => record'[<<u, key>>].resource = upload'[u].version,
         NEW x,
         new.source = "push" => {u \in Uploads : upload'[u].version = n} = {x},
         new.source = "restore" =>
           {key \in Keys : /\ record'[<<"restore", key>>] # None
                           /\ record'[<<"restore", key>>].resource = n} = {x},
         new.source = "merge" => {t \in Triples : merge'[t].result = n} = {x}
  PROVE  IInv' /\ Lengthens(n)
<1>1. history' = Append(history, new) /\ n <= MaxVersions /\ history \in Seq(Version)
  BY DEF Adds, NextSequence, IInv, TypeOK
<1>2. Len(history') = n /\ history'[n] = new /\ GoesOn /\ history' \in Seq(Version)
  BY <1>1, Appended DEF IInv
<1>3. head' \in 0..n
  <2>1. head \in 0..Len(history) /\ Len(history) \in Nat
    BY HistoryTypes DEF IInv
  <2>2. head \in 0..n /\ n \in 0..n
    BY <2>1
  <2> QED BY <2>2
<1>4. TypeOK'
  BY <1>1, <1>2, <1>3 DEF IInv, TypeOK
<1>5. DOMAIN history' = DOMAIN history \cup {n}
  <2>1. DOMAIN history = 1..Len(history) /\ Len(history) \in Nat /\ DOMAIN history' = 1..n
    BY <1>2, <1>4, HistoryTypes, NextHistoryTypes DEF IInv
  <2> QED BY <2>1
<1>6. /\ ParentsBelow' /\ HeadSet' /\ Linear' /\ Counted'
      /\ new.aside => KeepsAside(n)
      /\ ~new.aside => Extends(n)
  BY <1>1, <1>4, LineGrows DEF KeepsAside, Extends
<1>7. Makes(n)' = {x}
  <2>1. new.source \in {"push", "restore", "merge"}
    BY DEF Version
  <2>2. history'[n].source = new.source
    BY <1>2
  <2>3. \A key \in Keys : Fresh("restore", key)' <=> record'[<<"restore", key>>] = None
    BY DEF Fresh
  <2>4. CASE new.source = "push"
    BY <2>2, <2>4 DEF Makes
  <2>5. CASE new.source = "restore"
    <3>1. {key \in Keys : (~Fresh("restore", key))' /\ record'[<<"restore", key>>].resource = n}
            = {key \in Keys : /\ record'[<<"restore", key>>] # None
                              /\ record'[<<"restore", key>>].resource = n}
      BY <2>3
    <3>2. Makes(n)' = {key \in Keys : (~Fresh("restore", key))'
                                      /\ record'[<<"restore", key>>].resource = n}
      BY <2>2, <2>5 DEF Makes
    <3> QED BY <2>5, <3>1, <3>2
  <2>6. CASE new.source = "merge"
    BY <2>2, <2>6 DEF Makes
  <2> QED BY <2>1, <2>4, <2>5, <2>6
<1>8. IInv'
  BY <1>2, <1>4, <1>5, <1>6, <1>7, NewStep
<1> QED BY <1>6, <1>8 DEF Lengthens

LEMMA NextNumber ==
  ASSUME IInv
  PROVE  /\ NextSequence \in Nat /\ NextSequence = Len(history) + 1
         /\ NextSequence <= MaxVersions => NextSequence \in Numbers
         /\ head \in 0..Len(history) /\ Len(history) \in Nat
         /\ head = 0 => NextSequence = 1
         /\ DOMAIN history = 1..Len(history) /\ Len(history) <= MaxVersions
<1>1. /\ Len(history) \in Nat /\ head \in 0..Len(history)
      /\ DOMAIN history = 1..Len(history)
  BY HistoryTypes DEF IInv
<1>2. head = 0 => Len(history) = 0
  BY DEF IInv, HeadSet
<1> QED BY <1>1, <1>2, MaxVersionsAssumption DEF NextSequence, Numbers, IInv, TypeOK

LEMMA FinalizeUploadInv ==
  ASSUME IInv, NEW u \in Uploads, NEW key \in Keys, FinalizeUpload(u, key)
  PROVE  IInv' /\ \E n \in Nat : Lengthens(n)
<1>1. PICK n \in Nat : n = NextSequence
  BY NextNumber
<1>2. PICK old \in Upload : old = upload[u]
  BY DEF IInv, TypeOK
<1>3. /\ n = Len(history) + 1 /\ n \in Numbers /\ Len(history) \in Nat
      /\ head \in 0..Len(history) /\ (head = 0 => n = 1)
  BY <1>1, NextNumber DEF FinalizeUpload, Adds
<1>4. old.base \in 0..Len(history) /\ old.version = 0 /\ old.status = "pending"
  BY <1>2, Facts DEF FinalizeUpload
<1>5. PICK parent : parent = IF old.base # 0 THEN old.base ELSE head
  OBVIOUS
<1>6. PICK stale \in BOOLEAN : stale = Stale(u)
  BY DEF Stale
<1>7. stale <=> head # old.base
  BY <1>2, <1>6 DEF Stale
<1>8. PICK new : new = [NewVersion EXCEPT
             !.parent = parent, !.base = old.base, !.aside = stale,
             !.status = IF stale THEN "conflicted" ELSE @]
  OBVIOUS
<1>9. /\ new \in Version /\ new.source = "push" /\ new.parent = parent
      /\ new.mergeParent = 0 /\ new.base = old.base /\ new.aside = stale
  <2>1. parent \in 0..MaxVersions /\ old.base \in 0..MaxVersions /\ 0 \in 0..MaxVersions
    BY <1>3, <1>4, <1>5, NextNumber, MaxVersionsAssumption
  <2> QED BY <1>1, <1>3, <1>8, <2>1 DEF NewVersion, Version, VersionStatus
<1>10. Adds(new) /\ head' = IF new.aside THEN head ELSE n
  BY <1>1, <1>2, <1>5, <1>6, <1>8, <1>9 DEF FinalizeUpload
<1>11. PICK value : value = [old EXCEPT !.status = "finalized", !.version = n]
  OBVIOUS
<1>12. /\ value \in Upload /\ value.status = "finalized" /\ value.version = n
       /\ value.base = old.base
  <2>1. n \in 0..MaxVersions
    BY <1>1, <1>3, MaxVersionsAssumption DEF Numbers
  <2> QED BY <1>2, <1>11, <2>1 DEF Upload
<1>13. upload' = [upload EXCEPT ![u] = value]
  BY <1>1, <1>2, <1>11 DEF FinalizeUpload, IInv, TypeOK
<1>14. /\ upload' \in [Uploads -> Upload] /\ upload'[u] = value
       /\ \A w \in Uploads \ {u} : upload'[w] = upload[w]
  BY <1>12, <1>13 DEF IInv, TypeOK
<1>15. /\ DOMAIN record' = Operations \X Keys
       /\ \A c \in Operations \X Keys : record'[c] \in Record(c[1]) \cup {None}
       /\ record'[<<u, key>>].resource = n
       /\ \A c \in Operations \X Keys : c # <<u, key>> => record'[c] = record[c]
  <2>1. PICK response \in {"created", "conflict"} :
          response = IF stale THEN "conflict" ELSE "created"
    OBVIOUS
  <2>2. u \in Operations /\ [resource |-> n, response |-> response] \in Record(u)
    BY <1>3, SavedTypes
  <2>3. record' = Saved(u, key, n, response)
    BY <1>1, <1>6, <2>1 DEF FinalizeUpload
  <2> QED BY <2>2, <2>3, SavedRecord DEF IInv
<1>16. scan' = scan /\ merge' = merge
  BY DEF FinalizeUpload
<1>17. /\ new.parent < n /\ new.mergeParent < n
       /\ new.parent = 0 => n = 1
       /\ new.aside <=> new.base # head
       /\ ~new.aside => new.parent = head
       /\ new.aside => head # 0
  BY <1>3, <1>4, <1>5, <1>7, <1>9
<1>18. \A w \in Uploads :
         /\ \/ upload'[w].version = upload[w].version
            \/ upload[w].version = 0 /\ upload'[w].version = n
         /\ upload'[w].base = upload[w].base
         /\ upload'[w].version # 0 <=> upload'[w].status = "finalized"
  <2>1. n # 0
    BY <1>3
  <2> QED BY <1>2, <1>4, <1>12, <1>14, <2>1, Facts
<1>19. \A t \in Triples :
         /\ merge'[t].result = merge[t].result
         /\ merge'[t].status \in {"absent", "open"} => merge'[t].result = 0
         /\ merge'[t].status # "absent" => merge[t].status # "absent"
  BY <1>16, Facts
<1>20. \A other \in Keys : record'[<<"restore", other>>] = record[<<"restore", other>>]
  BY <1>15, UploadsAssumption DEF Operations
<1>21. ASSUME NEW w \in Uploads, NEW other \in Keys, record'[<<w, other>>] # None
       PROVE  record'[<<w, other>>].resource = upload'[w].version
  <2>1. CASE <<w, other>> = <<u, key>>
    BY <1>12, <1>14, <1>15, <2>1
  <2>2. CASE <<w, other>> # <<u, key>>
    <3>1. record'[<<w, other>>] = record[<<w, other>>]
      BY <1>15, <2>2 DEF Operations
    <3>2. ~Fresh(w, other) /\ record[<<w, other>>].resource = upload[w].version
      BY <1>21, <3>1, Facts DEF Fresh
    <3>3. upload[w].version # 0
      <4>1. record[<<w, other>>].resource \in Numbers
        BY <3>2, RecordOf DEF IInv
      <4> QED BY <3>2, <4>1 DEF Numbers
    <3> QED BY <1>2, <1>4, <1>14, <3>1, <3>2, <3>3
  <2> QED BY <2>1, <2>2
<1>22. {w \in Uploads : upload'[w].version = n} = {u}
  <2>1. \A w \in Uploads \ {u} : upload'[w].version # n
    BY <1>3, <1>14, Facts
  <2> QED BY <1>12, <1>14, <2>1
<1>23. merge' \in [Triples -> Merge]
  BY <1>16 DEF IInv, TypeOK
<1> QED BY <1>3, <1>9, <1>10, <1>14, <1>15, <1>16, <1>17, <1>18, <1>19, <1>20, <1>21,
           <1>22, <1>23, AddsInv

LEMMA RestoreVersionInv ==
  ASSUME IInv, NEW v \in Numbers, NEW key \in Keys, RestoreVersion(v, key)
  PROVE  IInv' /\ \E n \in Nat : Lengthens(n)
<1>1. PICK n \in Nat : n = NextSequence
  BY NextNumber
<1>2. /\ n = Len(history) + 1 /\ n \in Numbers /\ Len(history) \in Nat
      /\ head \in 0..Len(history) /\ (head = 0 => n = 1)
      /\ Len(history) <= MaxVersions
  BY <1>1, NextNumber DEF RestoreVersion, Adds
<1>3. PICK file \in Numbers : file = history[v].file
  BY HistoryTypes DEF RestoreVersion, IInv, Version
<1>4. PICK new : new = [NewVersion EXCEPT !.source = "restore", !.parent = head,
                                          !.base = head, !.file = file]
  OBVIOUS
<1>5. /\ new \in Version /\ new.source = "restore" /\ new.parent = head
      /\ new.mergeParent = 0 /\ new.base = head /\ new.aside = FALSE
  <2>1. head \in 0..MaxVersions /\ 0 \in 0..MaxVersions
    BY <1>2, MaxVersionsAssumption
  <2> QED BY <1>3, <1>4, <2>1 DEF NewVersion, Version, VersionStatus
<1>6. Adds(new) /\ head' = IF new.aside THEN head ELSE n
  BY <1>1, <1>3, <1>4, <1>5 DEF RestoreVersion
<1>7. /\ DOMAIN record' = Operations \X Keys
      /\ \A c \in Operations \X Keys : record'[c] \in Record(c[1]) \cup {None}
      /\ record'[<<"restore", key>>] # None
      /\ record'[<<"restore", key>>].resource = n
      /\ \A c \in Operations \X Keys : c # <<"restore", key>> => record'[c] = record[c]
  <2>1. /\ "restore" \in Operations
        /\ [resource |-> n, response |-> "created"] \in Record("restore")
    BY <1>2, SavedTypes
  <2>2. record' = Saved("restore", key, n, "created")
    BY <1>1 DEF RestoreVersion
  <2> QED BY <2>1, <2>2, SavedRecord DEF IInv
<1>8. scan' = scan /\ merge' = merge /\ upload' = upload
  BY DEF RestoreVersion
<1>9. record[<<"restore", key>>] = None
  BY DEF RestoreVersion, Fresh
<1>10. ASSUME NEW other \in Keys, other # key
       PROVE  record'[<<"restore", other>>] = record[<<"restore", other>>]
  BY <1>7, <1>10 DEF Operations
<1>11. {other \in Keys : /\ record'[<<"restore", other>>] # None
                         /\ record'[<<"restore", other>>].resource = n} = {key}
  <2>1. ASSUME NEW other \in Keys, other # key, record[<<"restore", other>>] # None
        PROVE  record[<<"restore", other>>].resource # n
    <3>1. ~Fresh("restore", other)
      BY <2>1 DEF Fresh
    <3>2. record[<<"restore", other>>].resource <= Len(history)
      BY <3>1 DEF IInv, Known
    <3> QED BY <1>2, <3>2
  <2> QED BY <1>7, <1>10, <2>1
<1>12. ASSUME NEW u \in Uploads, NEW other \in Keys, record'[<<u, other>>] # None
       PROVE  record'[<<u, other>>].resource = upload'[u].version
  <2>1. <<u, other>> # <<"restore", key>> /\ <<u, other>> \in Operations \X Keys
    BY UploadsAssumption DEF Operations
  <2> QED BY <1>7, <1>8, <1>12, <2>1, Facts
<1>13. /\ new.parent < n /\ new.mergeParent < n
       /\ new.parent = 0 => n = 1
       /\ new.source # "merge" => (new.aside <=> new.base # head)
       /\ ~new.aside => new.parent = head
       /\ ~new.aside
  BY <1>2, <1>5
<1>14. \A w \in Uploads :
         /\ upload'[w].version = upload[w].version
         /\ upload'[w].base = upload[w].base
         /\ upload'[w].version # 0 <=> upload'[w].status = "finalized"
  BY <1>8, Facts
<1>15. \A t \in Triples :
         /\ merge'[t].result = merge[t].result
         /\ merge'[t].status \in {"absent", "open"} => merge'[t].result = 0
         /\ merge'[t].status # "absent" => merge[t].status # "absent"
  BY <1>8, Facts
<1>16. upload' \in [Uploads -> Upload] /\ merge' \in [Triples -> Merge]
  BY <1>8 DEF IInv, TypeOK
<1>17. \A other \in Keys :
         \/ record'[<<"restore", other>>] = record[<<"restore", other>>]
         \/ /\ record[<<"restore", other>>] = None
            /\ record'[<<"restore", other>>].resource = n
  BY <1>7, <1>9, <1>10
<1> QED BY <1>2, <1>5, <1>6, <1>7, <1>8, <1>11, <1>12, <1>13, <1>14, <1>15, <1>16, <1>17,
           AddsInv

LEMMA PublishMergeInv ==
  ASSUME IInv, NEW t \in Triples, PublishMerge(t)
  PROVE  IInv' /\ \E n \in Nat : Lengthens(n)
<1>1. PICK n \in Nat : n = NextSequence
  BY NextNumber
<1>2. /\ n = Len(history) + 1 /\ n \in Numbers /\ Len(history) \in Nat
      /\ head \in 0..Len(history) /\ (head = 0 => n = 1)
      /\ Len(history) <= MaxVersions /\ DOMAIN history = 1..Len(history)
  BY <1>1, NextNumber DEF PublishMerge, Adds
<1>3. /\ merge[t].status = "open" /\ merge[t].result = 0 /\ head = t[2]
      /\ t[1] \in DOMAIN history /\ t[2] \in DOMAIN history /\ t[3] \in DOMAIN history
  <2>1. merge[t].status = "open" /\ head = t[2]
    BY DEF PublishMerge
  <2>2. {t[1], t[2], t[3]} \subseteq DOMAIN history
    BY <2>1 DEF IInv, Known
  <2> QED BY <2>1, <2>2, Facts
<1>4. PICK new : new = [NewVersion EXCEPT !.source = "merge", !.parent = t[2],
                                          !.mergeParent = t[3], !.base = t[1]]
  OBVIOUS
<1>5. /\ new \in Version /\ new.source = "merge" /\ new.parent = head
      /\ new.mergeParent = t[3] /\ new.aside = FALSE
  <2>1. /\ t[1] \in 0..MaxVersions /\ t[2] \in 0..MaxVersions
        /\ t[3] \in 0..MaxVersions
    BY <1>2, <1>3, MaxVersionsAssumption
  <2> QED BY <1>1, <1>2, <1>3, <1>4, <2>1 DEF NewVersion, Version, VersionStatus
<1>6. Adds(new) /\ head' = IF new.aside THEN head ELSE n
  BY <1>1, <1>4, <1>5 DEF PublishMerge
<1>7. PICK value : value = [status |-> "completed", result |-> n]
  OBVIOUS
<1>8. value \in Merge /\ value.status = "completed" /\ value.result = n
  BY <1>2, <1>7, MaxVersionsAssumption DEF Merge, Numbers
<1>9. /\ merge' \in [Triples -> Merge] /\ merge'[t] = value
      /\ \A s \in Triples \ {t} : merge'[s] = merge[s]
  <2>1. merge' = [merge EXCEPT ![t] = value]
    BY <1>1, <1>7 DEF PublishMerge
  <2> QED BY <1>8, <2>1 DEF IInv, TypeOK
<1>10. scan' = scan /\ upload' = upload /\ record' = record
  BY DEF PublishMerge
<1>11. /\ new.parent < n /\ new.mergeParent < n
       /\ new.parent = 0 => n = 1
       /\ new.source # "merge" => (new.aside <=> new.base # head)
       /\ ~new.aside => new.parent = head
       /\ ~new.aside
  BY <1>2, <1>3, <1>5
<1>12. \A w \in Uploads :
         /\ upload'[w].version = upload[w].version
         /\ upload'[w].base = upload[w].base
         /\ upload'[w].version # 0 <=> upload'[w].status = "finalized"
  BY <1>10, Facts
<1>13. ASSUME NEW s \in Triples
       PROVE  /\ \/ merge'[s].result = merge[s].result
                 \/ merge[s].result = 0 /\ merge'[s].result = n
              /\ merge'[s].status \in {"absent", "open"} => merge'[s].result = 0
              /\ merge'[s].status # "absent" => merge[s].status # "absent"
  <2>1. CASE s = t
    BY <1>3, <1>8, <1>9, <2>1
  <2>2. CASE s # t
    BY <1>9, <2>2, Facts
  <2> QED BY <2>1, <2>2
<1>14. {s \in Triples : merge'[s].result = n} = {t}
  <2>1. \A s \in Triples \ {t} : merge'[s].result # n
    BY <1>2, <1>9, Facts
  <2> QED BY <1>8, <1>9, <2>1
<1>15. /\ upload' \in [Uploads -> Upload]
       /\ DOMAIN record' = Operations \X Keys
       /\ \A c \in Operations \X Keys : record'[c] \in Record(c[1]) \cup {None}
  BY <1>10 DEF IInv, TypeOK
<1>16. \A u \in Uploads, key \in Keys :
         record'[<<u, key>>] # None => record'[<<u, key>>].resource = upload'[u].version
  BY <1>10, Facts
<1>17. \A key \in Keys : record'[<<"restore", key>>] = record[<<"restore", key>>]
  BY <1>10
<1> QED BY <1>2, <1>5, <1>6, <1>9, <1>10, <1>11, <1>12, <1>13, <1>14, <1>15, <1>16, <1>17,
           AddsInv

-----------------------------------------------------------------------------
(* The invariants.                                                         *)

LEMMA NextInv ==
  ASSUME IInv, [Next]_vars
  PROVE  IInv' /\ (Stands \/ \E n \in Nat : Lengthens(n))
<1>1. ASSUME NEW u \in Uploads, Push(u)
      PROVE  IInv' /\ (Stands \/ \E n \in Nat : Lengthens(n))
  BY <1>1, CreateUploadInv, EndUploadInv, FinalizeUploadInv, FinalizeAgainInv DEF Push
<1>2. ASSUME NEW t \in Triples, MergeStep(t)
      PROVE  IInv' /\ (Stands \/ \E n \in Nat : Lengthens(n))
  BY <1>2, CreateMergeInv, PublishMergeInv, EndMergeInv DEF MergeStep
<1>3. ASSUME UNCHANGED vars PROVE IInv' /\ Stands
  <2>1. UNCHANGED <<history, head, scan, upload, merge, record>>
    BY <1>3 DEF vars
  <2>2. TypeOK' /\ GoesOn
    <3>1. TypeOK'
      BY <2>1 DEF IInv, TypeOK
    <3> QED BY <2>1, <3>1, SameHistory DEF IInv
  <2> QED BY <2>1, <2>2, NoRequest, QuietStep DEF Stands
<1> QED BY <1>1, <1>2, <1>3, RestoreVersionInv, InspectedInv DEF Next

(* In every reachable state the strengthened invariant holds.              *)
THEOREM Invariance == Spec => []IInv
<1>1. Init => IInv
  BY InitInv
<1>2. IInv /\ [Next]_vars => IInv'
  BY NextInv
<1> QED BY <1>1, <1>2, PTL DEF Spec

(* The rows of the history always have the shapes the schema and the code  *)
(* of postgres-store.ts give them.                                         *)
THEOREM TypeCorrect == Spec => []TypeOK
<1>1. IInv => TypeOK
  BY DEF IInv
<1> QED BY <1>1, Invariance, PTL

(* The history is one line plus the versions beside it, and the head is    *)
(* the last of the line: no push, restore or merge replaces a version its  *)
(* author did not build upon.                                              *)
THEOREM LineIsLinear == Spec => []Linear
<1>1. IInv => Linear
  BY DEF IInv
<1> QED BY <1>1, Invariance, PTL

(* However requests are repeated, each makes at most one version.          *)
THEOREM RequestsMakeOne == Spec => []OncePerRequest
<1>1. IInv => OncePerRequest
  BY DEF IInv
<1> QED BY <1>1, Invariance, PTL

(* A merge operation only ever names versions that passed inspection, and  *)
(* its base is an ancestor of both sides.                                  *)
THEOREM SoundMerges == Spec => []MergesAreSound
<1>1. IInv => MergesAreSound
  BY DEF IInv
<1> QED BY <1>1, Invariance, PTL

-----------------------------------------------------------------------------
(* What has been published stays.                                          *)

LEMMA SameVersions ==
  ASSUME TypeOK, UNCHANGED <<history, head>>
  PROVE  VersionsStay /\ HeadMovesOn
BY DEF VersionsStay, HeadMovesOn

LEMMA AppendKeeps ==
  ASSUME TypeOK, NEW new, Adds(new), head' = head \/ head' = NextSequence
  PROVE  VersionsStay /\ HeadMovesOn
<1>1. history' = Append(history, new)
  BY DEF Adds
<1>2. /\ Len(history') = Len(history) + 1
      /\ \A v \in 1..Len(history) : history'[v] = history[v]
  BY <1>1, Appended
<1>3. /\ Len(history) \in Nat /\ DOMAIN history = 1..Len(history)
      /\ DOMAIN history' = 1..Len(history')
  <2>1. history \in Seq(Version \cup {new}) /\ new \in Version \cup {new}
    BY DEF TypeOK
  <2>2. history' \in Seq(Version \cup {new})
    BY <1>1, <2>1, AppendProperties
  <2> QED BY <2>2, HistoryTypes
<1>4. \A v \in DOMAIN history : v \in DOMAIN history' /\ history'[v] = history[v]
  BY <1>2, <1>3
<1>5. VersionsStay
  BY <1>4 DEF VersionsStay
<1>6. HeadMovesOn
  BY <1>2 DEF HeadMovesOn, NextSequence
<1> QED BY <1>5, <1>6

LEMMA PushKeeps ==
  ASSUME IInv, NEW u \in Uploads, Push(u)
  PROVE  VersionsStay /\ EndsStay /\ HeadMovesOn
<1>1. upload \in [Uploads -> Upload] /\ TypeOK
  BY DEF IInv, TypeOK
<1>2. ASSUME NEW seen \in 0..MaxVersions, CreateUpload(u, seen)
      PROVE  VersionsStay /\ EndsStay /\ HeadMovesOn
  <2>1. EndsStay
    BY <1>1, <1>2 DEF CreateUpload, EndsStay
  <2> QED BY <1>1, <1>2, <2>1, SameVersions DEF CreateUpload
<1>3. CASE EndUpload(u)
  <2>1. EndsStay
    BY <1>1, <1>3 DEF EndUpload, EndsStay
  <2> QED BY <1>1, <1>3, <2>1, SameVersions DEF EndUpload
<1>4. ASSUME NEW key \in Keys, FinalizeUpload(u, key)
      PROVE  VersionsStay /\ EndsStay /\ HeadMovesOn
  <2>1. EndsStay
    <3>1. /\ upload[u].status = "pending" /\ merge' = merge
          /\ \A w \in Uploads \ {u} : upload'[w] = upload[w]
      BY <1>1, <1>4 DEF FinalizeUpload
    <3> QED BY <3>1 DEF EndsStay
  <2>2. head' = head \/ head' = NextSequence
    BY <1>4 DEF FinalizeUpload
  <2>3. PICK new : Adds(new)
    BY <1>4 DEF FinalizeUpload
  <2> QED BY <1>1, <2>1, <2>2, <2>3, AppendKeeps
<1>5. ASSUME NEW key \in Keys, FinalizeAgain(u, key)
      PROVE  VersionsStay /\ EndsStay /\ HeadMovesOn
  <2>1. EndsStay
    BY <1>5 DEF FinalizeAgain, EndsStay
  <2> QED BY <1>1, <1>5, <2>1, SameVersions DEF FinalizeAgain
<1> QED BY <1>2, <1>3, <1>4, <1>5 DEF Push

LEMMA RestoreKeeps ==
  ASSUME IInv, NEW v \in Numbers, NEW key \in Keys, RestoreVersion(v, key)
  PROVE  VersionsStay /\ EndsStay /\ HeadMovesOn
<1>1. EndsStay
  BY DEF RestoreVersion, EndsStay
<1>2. head' = NextSequence
  BY DEF RestoreVersion
<1>3. PICK new : Adds(new)
  BY DEF RestoreVersion
<1> QED BY <1>1, <1>2, <1>3, AppendKeeps DEF IInv

LEMMA InspectedKeeps ==
  ASSUME IInv, NEW v \in Numbers, NEW outcome \in Outcomes, Inspected(v, outcome)
  PROVE  VersionsStay /\ EndsStay /\ HeadMovesOn
<1>1. /\ history \in Seq(Version) /\ v \in DOMAIN history
      /\ history[v].job = "open" /\ UNCHANGED <<head, upload, merge>>
  BY DEF Inspected, IInv, TypeOK
<1>2. PICK old \in Version : old = history[v]
  BY <1>1
<1>3. PICK new : new = [old EXCEPT !.job = outcome,
                                   !.status = VersionAfter(@, outcome)]
  OBVIOUS
<1>4. history' = [history EXCEPT ![v] = new]
  BY <1>1, <1>2, <1>3 DEF Inspected
<1>5. Published(new) = Published(old)
  BY <1>2, <1>3 DEF Published, Version
<1>6. /\ DOMAIN history' = DOMAIN history /\ history'[v] = new
      /\ \A w \in DOMAIN history : w # v => history'[w] = history[w]
  BY <1>1, <1>4
<1>7. VersionsStay
  BY <1>1, <1>2, <1>5, <1>6 DEF VersionsStay
<1>8. EndsStay /\ HeadMovesOn
  BY <1>1 DEF EndsStay, HeadMovesOn
<1> QED BY <1>7, <1>8

LEMMA MergeKeeps ==
  ASSUME IInv, NEW t \in Triples, MergeStep(t)
  PROVE  VersionsStay /\ EndsStay /\ HeadMovesOn
<1>1. merge \in [Triples -> Merge] /\ TypeOK
  BY DEF IInv, TypeOK
<1>2. ASSUME NEW key \in Keys, CreateMerge(t, key)
      PROVE  VersionsStay /\ EndsStay /\ HeadMovesOn
  <2>1. EndsStay
    BY <1>1, <1>2 DEF CreateMerge, EndsStay
  <2> QED BY <1>1, <1>2, <2>1, SameVersions DEF CreateMerge
<1>3. CASE PublishMerge(t)
  <2>1. EndsStay
    <3>1. /\ merge[t].status = "open" /\ upload' = upload
          /\ \A s \in Triples \ {t} : merge'[s] = merge[s]
      BY <1>1, <1>3 DEF PublishMerge
    <3> QED BY <3>1 DEF EndsStay
  <2>2. head' = NextSequence
    BY <1>3 DEF PublishMerge
  <2>3. PICK new : Adds(new)
    BY <1>3 DEF PublishMerge
  <2> QED BY <1>1, <2>1, <2>2, <2>3, AppendKeeps
<1>4. ASSUME NEW status, EndMerge(t, status)
      PROVE  VersionsStay /\ EndsStay /\ HeadMovesOn
  <2>1. EndsStay
    BY <1>1, <1>4 DEF EndMerge, EndsStay
  <2> QED BY <1>1, <1>4, <2>1, SameVersions DEF EndMerge
<1> QED BY <1>2, <1>3, <1>4 DEF MergeStep

(* A step never takes a version from its place, its file or its parents,   *)
(* never judges a version twice, never reopens a finished upload or merge, *)
(* and moves the head only to the version it creates.                      *)
THEOREM HistoryIsKept == Spec => HistoryKept
<1>1. IInv /\ [Next]_vars => [VersionsStay /\ EndsStay /\ HeadMovesOn]_vars
  BY PushKeeps, RestoreKeeps, InspectedKeeps, MergeKeeps DEF Next
<1> QED BY <1>1, Invariance, PTL DEF Spec, HistoryKept

-----------------------------------------------------------------------------
(* The history implements the main line.                                   *)

LEMMA StartsEmpty == Init => Branch!Init
<1> SUFFICES ASSUME Init PROVE Branch!Init
  OBVIOUS
<1>1. Len(history) = 0 /\ DOMAIN history = {}
  BY EmptySeq DEF Init
<1>2. PICK h : h = history
  OBVIOUS
<1>3. Older(h, 0) /\ 0 = Len(h)
  BY <1>1, <1>2 DEF Older
<1>4. Line(h, 0) = <<>>
  BY <1>3, LineSteps
<1>5. LineTo(head) = <<>>
  BY <1>2, <1>4, Named DEF Init
<1> QED BY <1>1, <1>5 DEF Branch!Init

LEMMA StepsMap ==
  ASSUME IInv, [Next]_vars
  PROVE  [Branch!Extend \/ Branch!KeepAside]_Branch!lineVars
<1>1. Branch!NextNumber = Len(history) + 1
  <2>1. \A S : Branch!Cardinality(S) = Cardinality(S)
    BY DEF Cardinality, Branch!Cardinality
  <2> QED BY <2>1 DEF IInv, Counted, Branch!NextNumber
<1>2. ASSUME NEW n \in Nat, Lengthens(n) PROVE Branch!Extend \/ Branch!KeepAside
  <2>1. CASE Extends(n)
    BY <1>1, <1>2, <2>1 DEF Lengthens, Extends, Branch!Extend
  <2>2. CASE KeepsAside(n)
    BY <1>1, <1>2, <2>2 DEF Lengthens, KeepsAside, Branch!KeepAside
  <2> QED BY <1>2, <2>1, <2>2 DEF Lengthens
<1>3. CASE Stands
  BY <1>3 DEF Stands, Branch!lineVars
<1> QED BY <1>2, <1>3, NextInv

(* The line that parents trace from the head and the versions beside it    *)
(* take only the steps of MainLine: each version gets the next number, and *)
(* extends the line or stays aside for good.                               *)
THEOREM LineIsKept == Spec => KeepsLine
<1>1. Init => Branch!Init
  BY StartsEmpty
<1>2. IInv /\ [Next]_vars => [Branch!Extend \/ Branch!KeepAside]_Branch!lineVars
  BY StepsMap
<1> QED BY <1>1, <1>2, Invariance, PTL DEF Spec, KeepsLine, Branch!Spec

-----------------------------------------------------------------------------
(* DocumentMerge: what the comparison finds.                               *)

(* The targets that the inspector lists, and those whose fingerprints      *)
(* differ between two documents.                                           *)
ListedIn(k, d) == {p \in Targets : Listed(k, d.target[p])}
Differ(k, a, b) ==
  {p \in Targets : Fingerprint(k, a.target[p]) # Fingerprint(k, b.target[p])}

(* Two documents list the same targets in the same places.                 *)
SameShape(k, a, b) ==
  /\ ListedIn(k, a) = ListedIn(k, b)
  /\ Structure(k, a) = Structure(k, b)
  /\ k = "slides" =>
       \A p \in ListedIn(k, a) :
         Position(a, ListedIn(k, a), p) = Position(b, ListedIn(k, b), p)

Modified(k, a, b, p) ==
  Change("modified", p, Display(k, a.target[p]), Display(k, b.target[p]))

(* The parts of a change (OoxmlComparator.Compare).                        *)
LEMMA ChangeFields ==
  ASSUME NEW type, NEW p, NEW x, NEW y
  PROVE  /\ Change(type, p, x, y).type = type
         /\ Change(type, p, x, y).at = p
BY DEF Change

(* A document has a target or nothing at every path (Document).            *)
LEMMA TargetType ==
  ASSUME NEW d \in Document, NEW p \in Targets
  PROVE  d.target[p] \in Target \cup {Nothing}
BY DEF Document

(* A target has a fingerprint exactly if it is listed (OoxmlInspector).    *)
LEMMA FingerprintOfListed ==
  ASSUME NEW k, NEW t \in Target \cup {Nothing}
  PROVE  /\ Listed(k, t) => Fingerprint(k, t) # Nothing
         /\ ~Listed(k, t) => Fingerprint(k, t) = Nothing
<1>1. ASSUME Listed(k, t) PROVE Fingerprint(k, t) \in Target
  <2>1. t \in Target
    BY <1>1 DEF Listed
  <2>2. [t EXCEPT !.split = 1] \in Target
    BY <2>1 DEF Target
  <2> QED
    BY <1>1, <2>1, <2>2 DEF Fingerprint
<1> QED
  BY <1>1, NothingAssumption DEF Fingerprint

(* Outside the sheets the fingerprint tells targets apart.                 *)
LEMMA FingerprintIsTarget ==
  ASSUME NEW k, k # "sheets", NEW t
  PROVE  Fingerprint(k, t) = t
BY DEF Fingerprint, Listed

(* Listed cells with the same fingerprint show the same.                   *)
LEMMA FingerprintShowsContent ==
  ASSUME NEW k, NEW t \in Target \cup {Nothing}, NEW u \in Target \cup {Nothing},
         Listed(k, t), Fingerprint(k, t) = Fingerprint(k, u)
  PROVE  Content(t) = Content(u)
<1>1. Listed(k, u)
  BY FingerprintOfListed
<1>2. t \in Target /\ u \in Target
  BY <1>1 DEF Listed
<1>3. CASE k = "sheets"
  <2>1. [t EXCEPT !.split = 1] = [u EXCEPT !.split = 1]
    BY <1>1, <1>3 DEF Fingerprint
  <2>2. t.text = u.text /\ t.markup = u.markup
    BY <1>2, <2>1 DEF Target
  <2> QED
    BY <1>2, <2>2, NothingAssumption DEF Content
<1>4. CASE k # "sheets"
  BY <1>4, FingerprintIsTarget
<1> QED
  BY <1>3, <1>4

(* Documents of the same shape differ by modified contents, one change for *)
(* each fingerprint that differs (OoxmlComparator.Compare).                *)
LEMMA ChangesOfContents ==
  ASSUME NEW k, NEW a \in Document, NEW b \in Document, SameShape(k, a, b)
  PROVE  /\ Changes(k, a, b) = {Modified(k, a, b, p) : p \in Differ(k, a, b)}
         /\ Paths(Changes(k, a, b)) = Differ(k, a, b)
         /\ 0 \notin Paths(Changes(k, a, b))
<1> DEFINE A == ListedIn(k, a)
           B == ListedIn(k, b)
           Type(p) == IF p \notin A THEN "added"
                      ELSE IF p \notin B THEN "removed" ELSE "modified"
           Contents == {Change(Type(p), p, Display(k, a.target[p]),
                               Display(k, b.target[p])) :
                          p \in {q \in A \cup B :
                                   Fingerprint(k, a.target[q])
                                     # Fingerprint(k, b.target[q])}}
           Moves == {Change("moved", p, Nothing, Nothing) :
                       p \in {q \in A \cap B : k = "slides"
                                /\ Position(a, A, q) # Position(b, B, q)}}
           Structures == {Change("modified", 0, Nothing, Nothing) :
                            x \in {1} \cap (IF Structure(k, a) # Structure(k, b)
                                            THEN {1} ELSE {})}
<1>1. Changes(k, a, b) = Contents \cup Moves \cup Structures
  BY DEF Changes, ListedIn
<1>2. A = B
  BY DEF SameShape
<1>3. Moves = {}
  <2>1. {q \in A \cap B : k = "slides"
           /\ Position(a, A, q) # Position(b, B, q)} = {}
    BY DEF SameShape
  <2> QED
    BY <2>1
<1>4. Structures = {}
  <2>1. Structure(k, a) = Structure(k, b)
    BY DEF SameShape
  <2> QED
    BY <2>1
<1>5. {q \in A \cup B : Fingerprint(k, a.target[q]) # Fingerprint(k, b.target[q])}
        = Differ(k, a, b)
  <2>1. \A p \in Differ(k, a, b) : p \in A \cup B
    BY TargetType, FingerprintOfListed DEF Differ, ListedIn
  <2> QED
    BY <2>1 DEF Differ, ListedIn
<1>6. \A p \in Differ(k, a, b) : p \in A /\ p \in B
  BY <1>2, <1>5
<1>7. Contents = {Modified(k, a, b, p) : p \in Differ(k, a, b)}
  BY <1>5, <1>6 DEF Modified
<1>8. Changes(k, a, b) = {Modified(k, a, b, p) : p \in Differ(k, a, b)}
  BY <1>1, <1>3, <1>4, <1>7
<1>9. Paths(Changes(k, a, b)) = Differ(k, a, b)
  <2>1. \A p : Modified(k, a, b, p).at = p
    BY ChangeFields DEF Modified
  <2> QED
    BY <1>8, <2>1 DEF Paths
<1> QED
  BY <1>8, <1>9, MaxTargetAssumption DEF Differ, Targets

(* Changes that can be merged leave the shape of a document alone          *)
(* (MergeableChanges).                                                     *)
LEMMA MergeableKeepsShape ==
  ASSUME NEW k, NEW a \in Document, NEW b \in Document,
         MergeableChanges(Changes(k, a, b))
  PROVE  SameShape(k, a, b)
<1> DEFINE A == ListedIn(k, a)
           B == ListedIn(k, b)
           Type(p) == IF p \notin A THEN "added"
                      ELSE IF p \notin B THEN "removed" ELSE "modified"
           At2(q) == Fingerprint(k, a.target[q]) # Fingerprint(k, b.target[q])
           Moved(q) == k = "slides" /\ Position(a, A, q) # Position(b, B, q)
           Contents == {Change(Type(p), p, Display(k, a.target[p]),
                               Display(k, b.target[p])) :
                          p \in {q \in A \cup B : At2(q)}}
           Moves == {Change("moved", p, Nothing, Nothing) :
                       p \in {q \in A \cap B : Moved(q)}}
           Structures == {Change("modified", 0, Nothing, Nothing) :
                            x \in {1} \cap (IF Structure(k, a) # Structure(k, b)
                                            THEN {1} ELSE {})}
<1>1. Changes(k, a, b) = Contents \cup Moves \cup Structures
  BY DEF Changes, ListedIn
<1>2. \A c \in Contents \cup Moves \cup Structures : c.type = "modified" /\ c.at # 0
  BY <1>1 DEF MergeableChanges
<1>3. Structure(k, a) = Structure(k, b)
  <2>1. SUFFICES ASSUME Structure(k, a) # Structure(k, b) PROVE FALSE
    OBVIOUS
  <2>2. Change("modified", 0, Nothing, Nothing) \in Structures
    BY <2>1
  <2>3. Change("modified", 0, Nothing, Nothing).at # 0
    BY <1>2, <2>2
  <2> QED
    BY <2>3, ChangeFields
<1>4. \A p \in A \cup B : p \in A /\ p \in B
  <2>1. SUFFICES ASSUME NEW p \in A \cup B, p \notin A \/ p \notin B PROVE FALSE
    OBVIOUS
  <2>2. At2(p)
    <3>1. p \in Targets /\ (Listed(k, a.target[p]) <=> ~Listed(k, b.target[p]))
      BY <2>1 DEF ListedIn
    <3> QED
      BY <3>1, TargetType, FingerprintOfListed
  <2>3. Change(Type(p), p, Display(k, a.target[p]), Display(k, b.target[p]))
          \in Contents
    BY <2>1, <2>2
  <2>4. Type(p) = "modified"
    <3>1. Change(Type(p), p, Display(k, a.target[p]), Display(k, b.target[p])).type
            = "modified"
      BY <1>2, <2>3
    <3> HIDE DEF Type
    <3> QED
      BY <3>1, ChangeFields
  <2> QED
    BY <2>1, <2>4
<1>5. A = B
  BY <1>4
<1>6. \A p \in A : ~Moved(p)
  <2>1. SUFFICES ASSUME NEW p \in A, Moved(p) PROVE FALSE
    OBVIOUS
  <2> HIDE DEF Moved
  <2>2. Change("moved", p, Nothing, Nothing) \in Moves
    BY <1>5, <2>1
  <2>3. Change("moved", p, Nothing, Nothing).type = "modified"
    BY <1>2, <2>2
  <2> QED
    BY <2>3, ChangeFields
<1> QED
  BY <1>3, <1>5, <1>6 DEF SameShape

(* Heads whose changes can be joined: they keep the shape and the parts of *)
(* their base, each changed only texts, and what both changed they changed *)
(* in the same way.                                                        *)
Joinable(k, b, o, t) ==
  /\ SameShape(k, b, o) /\ SameShape(k, b, t)
  /\ b.parts = o.parts /\ b.parts = t.parts
  /\ \A p \in Differ(k, b, o) : TextOnly(k, b.target[p], o.target[p])
  /\ \A p \in Differ(k, b, t) : TextOnly(k, b.target[p], t.target[p])
  /\ \A p \in Differ(k, b, o) \cap Differ(k, b, t) : o.target[p] = t.target[p]
  /\ k = "sheets" =>
       SkeletonsEqual({b, o, t}, Differ(k, b, o) \cup Differ(k, b, t))

(* A candidate that joins them: a copy of ours with what theirs changed.   *)
Joins(k, b, o, t, d) ==
  /\ d \in Document
  /\ d.frame = o.frame /\ d.order = o.order /\ d.parts = o.parts
  /\ \A p \in Targets :
       d.target[p] = IF p \in Differ(k, b, t) THEN t.target[p] ELSE o.target[p]

(* A text change of a target that is there leaves it there, and listed     *)
(* (TextOnly).                                                             *)
LEMMA TextOnlyListed ==
  ASSUME NEW k, NEW t, NEW u, TextOnly(k, t, u)
  PROVE  Listed(k, t) /\ Listed(k, u)
BY DEF TextOnly, Listed

(* A candidate is a document (MergeCandidate).                             *)
LEMMA CandidateIsDocument ==
  ASSUME NEW b, NEW o \in Document, NEW t \in Document, NEW applied
  PROVE  CandidateOf(b, o, t, applied) \in Document
<1>1. [p \in Targets |-> IF p \in applied THEN t.target[p] ELSE o.target[p]]
        \in [Targets -> Target \cup {Nothing}]
  BY TargetType
<1> QED
  BY <1>1 DEF CandidateOf, Document

(* What both sides changed may be taken from either (CreateCandidate).     *)
LEMMA CandidateJoins ==
  ASSUME NEW k, NEW b \in Document, NEW o \in Document, NEW t \in Document,
         Joinable(k, b, o, t),
         NEW applied \in {Differ(k, b, t), Differ(k, b, t) \ Differ(k, b, o)}
  PROVE  Joins(k, b, o, t, CandidateOf(b, o, t, applied))
<1> DEFINE d == CandidateOf(b, o, t, applied)
<1>1. d \in Document
  BY CandidateIsDocument
<1>2. d.frame = o.frame /\ d.order = o.order /\ d.parts = o.parts
  BY DEF CandidateOf, Document
<1>3. d.target = [p \in Targets |->
                    IF p \in applied THEN t.target[p] ELSE o.target[p]]
  BY DEF CandidateOf, Document
<1>4. \A p \in Differ(k, b, o) \cap Differ(k, b, t) : o.target[p] = t.target[p]
  BY DEF Joinable
<1>5. \A p \in Targets :
        d.target[p] = IF p \in Differ(k, b, t) THEN t.target[p] ELSE o.target[p]
  BY <1>3, <1>4
<1> QED
  BY <1>1, <1>2, <1>5 DEF Joins

(* The candidate keeps the shape of the base.                              *)
LEMMA JoinKeepsShape ==
  ASSUME NEW k, NEW b \in Document, NEW o \in Document, NEW t \in Document,
         Joinable(k, b, o, t), NEW d, Joins(k, b, o, t, d)
  PROVE  SameShape(k, b, d)
<1>1. ListedIn(k, b) = ListedIn(k, o) /\ ListedIn(k, b) = ListedIn(k, t)
  BY DEF Joinable, SameShape
<1>2. \A p \in Targets : d.target[p] \in {o.target[p], t.target[p]}
  BY DEF Joins
<1>3. ListedIn(k, d) = ListedIn(k, b)
  <2>1. \A p \in Targets : /\ Listed(k, o.target[p]) <=> Listed(k, b.target[p])
                           /\ Listed(k, t.target[p]) <=> Listed(k, b.target[p])
    BY <1>1 DEF ListedIn
  <2>2. \A p \in Targets : Listed(k, d.target[p]) <=> Listed(k, b.target[p])
    BY <1>2, <2>1
  <2> QED
    BY <2>2 DEF ListedIn
<1>4. Structure(k, b) = Structure(k, d)
  <2>1. Structure(k, b) = Structure(k, o)
    BY DEF Joinable, SameShape
  <2>2. o.frame = d.frame
    BY DEF Joins
  <2>3. CASE k = "word"
    <3>1. /\ {p \in Targets : o.target[p] # Nothing} = ListedIn(k, o)
          /\ {p \in Targets : d.target[p] # Nothing} = ListedIn(k, d)
      BY <2>3 DEF ListedIn, Listed
    <3> QED
      BY <1>1, <1>3, <2>1, <2>2, <3>1 DEF Structure
  <2>4. CASE k # "word"
    BY <2>1, <2>2, <2>4 DEF Structure
  <2> QED
    BY <2>3, <2>4
<1>5. ASSUME k = "slides", NEW p \in ListedIn(k, b)
      PROVE  Position(b, ListedIn(k, b), p) = Position(d, ListedIn(k, d), p)
  <2>1. Position(b, ListedIn(k, b), p) = Position(o, ListedIn(k, o), p)
    BY <1>5 DEF Joinable, SameShape
  <2>2. o.order = d.order
    BY DEF Joins
  <2> QED
    BY <1>1, <1>3, <2>1, <2>2 DEF Position
<1> QED
  BY <1>3, <1>4, <1>5 DEF SameShape

(* The candidate differs from the base where a head does.                  *)
LEMMA JoinDiffers ==
  ASSUME NEW k, NEW b \in Document, NEW o \in Document, NEW t \in Document,
         NEW d, Joins(k, b, o, t, d)
  PROVE  Differ(k, b, d) = Differ(k, b, o) \cup Differ(k, b, t)
BY DEF Joins, Differ

(* The comparison of the base with a candidate finds the changes of both   *)
(* heads and no other: the verification of a candidate whose heads passed  *)
(* the checks cannot fail (VerifyCandidate).                               *)
LEMMA JoinIsVerified ==
  ASSUME NEW k, NEW b \in Document, NEW o \in Document, NEW t \in Document,
         Joinable(k, b, o, t), NEW d, Joins(k, b, o, t, d)
  PROVE  Verified(k, b, Changes(k, b, o), Changes(k, b, t), d)
<1> DEFINE O == Differ(k, b, o)
           T == Differ(k, b, t)
<1>1. d \in Document
  BY DEF Joins
<1>2. SameShape(k, b, d) /\ SameShape(k, b, o) /\ SameShape(k, b, t)
  BY JoinKeepsShape DEF Joinable
<1>3. /\ Changes(k, b, o) = {Modified(k, b, o, p) : p \in O}
      /\ Changes(k, b, t) = {Modified(k, b, t, p) : p \in T}
      /\ Changes(k, b, d) = {Modified(k, b, d, p) : p \in Differ(k, b, d)}
      /\ Paths(Changes(k, b, t)) = T
  BY <1>1, <1>2, ChangesOfContents
<1>4. Differ(k, b, d) = O \cup T
  BY JoinDiffers
<1>5. \A p \in T : Modified(k, b, d, p) = Modified(k, b, t, p)
  BY DEF Modified, Joins, Differ
<1>6. \A p \in O \ T : Modified(k, b, d, p) = Modified(k, b, o, p)
  BY DEF Modified, Joins, Differ
<1>7. \A p : Modified(k, b, o, p).at = p
  BY ChangeFields DEF Modified
<1>8. {c \in Changes(k, b, o) : c.at \notin T} = {Modified(k, b, o, p) : p \in O \ T}
  <2> HIDE DEF O, T
  <2> QED
    BY <1>3, <1>7
<1>9. Changes(k, b, d) = {Modified(k, b, d, p) : p \in (O \ T) \cup T}
  BY <1>3, <1>4
<1>10. Changes(k, b, d) = {Modified(k, b, d, p) : p \in O \ T}
                            \cup {Modified(k, b, d, p) : p \in T}
  BY <1>9
<1>11. {Modified(k, b, d, p) : p \in O \ T} = {Modified(k, b, o, p) : p \in O \ T}
  BY <1>6
<1>12. {Modified(k, b, d, p) : p \in T} = {Modified(k, b, t, p) : p \in T}
  BY <1>5
<1> QED
  BY <1>3, <1>8, <1>10, <1>11, <1>12 DEF Verified

(* Shapes in the same places are in the same order: two shapes tell the    *)
(* orders apart, and fewer have only one (PowerPointMerger.ShapeMap).      *)
LEMMA SlidesKeepOrder ==
  ASSUME NEW a \in Document, NEW b \in Document,
         Possible("slides", a), Possible("slides", b), SameShape("slides", a, b)
  PROVE  a.order = b.order
<1> DEFINE S == ListedIn("slides", a)
<1>1. S = ListedIn("slides", b) /\ S \subseteq Targets
  BY DEF SameShape, ListedIn
<1>2. S = {p \in Targets : a.target[p] # Nothing}
      /\ S = {p \in Targets : b.target[p] # Nothing}
  BY <1>1 DEF ListedIn, Listed
<1>3. a.order \in {"up", "down"} /\ b.order \in {"up", "down"}
  BY DEF Document
<1>4. Targets \subseteq Nat /\ IsFiniteSet(Targets)
  BY FS_Interval, MaxTargetAssumption DEF Targets
<1>5. ASSUME NEW p \in S, NEW q \in S, p < q,
             NEW x \in Document, NEW y \in Document,
             x.order = "up", y.order = "down",
             \A r \in S : Position(x, S, r) = Position(y, S, r)
      PROVE  FALSE
  <2> DEFINE Below(r) == {s \in S : s <= r}
             Above(r) == {s \in S : s >= r}
  <2>1. p \in Nat /\ q \in Nat /\ S \subseteq Nat /\ IsFiniteSet(S)
    BY <1>1, <1>4, FS_Subset
  <2>2. \A r \in S : Position(x, S, r) = Cardinality(Below(r))
                     /\ Position(y, S, r) = Cardinality(Above(r))
    BY <1>5 DEF Position
  <2>3. /\ Below(p) \subseteq Below(q) /\ Below(p) # Below(q)
        /\ Above(q) \subseteq Above(p) /\ Above(q) # Above(p)
    BY <1>5, <2>1
  <2>4. IsFiniteSet(Below(q)) /\ IsFiniteSet(Above(p))
    BY <2>1, FS_Subset
  <2>5. /\ Cardinality(Below(p)) \in Nat /\ Cardinality(Below(q)) \in Nat
        /\ Cardinality(Above(p)) \in Nat /\ Cardinality(Above(q)) \in Nat
        /\ Cardinality(Below(p)) <= Cardinality(Below(q))
        /\ Cardinality(Below(p)) # Cardinality(Below(q))
        /\ Cardinality(Above(q)) <= Cardinality(Above(p))
        /\ Cardinality(Above(q)) # Cardinality(Above(p))
    BY <2>3, <2>4, FS_Subset, FS_CardinalityType
  <2>6. /\ Cardinality(Below(p)) = Cardinality(Above(p))
        /\ Cardinality(Below(q)) = Cardinality(Above(q))
    BY <1>5, <2>2
  <2> HIDE DEF Below, Above
  <2> QED
    BY <2>5, <2>6
<1>6. \A r \in S : Position(a, S, r) = Position(b, S, r)
  BY <1>1 DEF SameShape
<1>7. CASE \E p, q \in S : p # q
  <2>1. PICK p \in S, q \in S : p # q
    BY <1>7
  <2>2. p \in Nat /\ q \in Nat
    BY <1>1, <1>4
  <2>3. PICK v \in S, w \in S : v < w
    BY <2>1, <2>2
  <2> HIDE DEF S
  <2>4. ~(a.order = "up" /\ b.order = "down")
    BY <1>5, <1>6, <2>3
  <2>5. ~(b.order = "up" /\ a.order = "down")
    BY <1>5, <1>6, <2>3
  <2> QED
    BY <1>3, <2>4, <2>5
<1>8. CASE ~ \E p, q \in S : p # q
  <2>1. a.order = "up"
    BY <1>2, <1>8 DEF Possible
  <2>2. b.order = "up"
    BY <1>2, <1>8 DEF Possible
  <2> QED
    BY <2>1, <2>2
<1> QED
  BY <1>7, <1>8

(* Equal skeletons are equal frames and orders, and equal targets off the  *)
(* approved paths (ExcelMerger.BuildSkeleton).                             *)
LEMMA SkeletonsAgree ==
  ASSUME NEW docs, NEW paths, SkeletonsEqual(docs, paths),
         NEW d \in docs, NEW e \in docs
  PROVE  /\ d.frame = e.frame /\ d.order = e.order
         /\ \A p \in Targets \ paths : d.target[p] = e.target[p]
<1> DEFINE Blanked(x) == [p \in Targets |->
                            IF p \in paths /\ x.target[p] # Nothing
                            THEN [x.target[p] EXCEPT !.text = Blank, !.split = 1]
                            ELSE x.target[p]]
<1>1. Skeleton(d, paths) = Skeleton(e, paths)
  BY DEF SkeletonsEqual
<1>2. d.frame = e.frame /\ d.order = e.order /\ Blanked(d) = Blanked(e)
  BY <1>1 DEF Skeleton
<1>3. ASSUME NEW p \in Targets, p \notin paths
      PROVE  d.target[p] = e.target[p]
  <2>1. Blanked(d)[p] = Blanked(e)[p]
    BY <1>2
  <2> QED
    BY <1>3, <2>1
<1> QED
  BY <1>2, <1>3

(* What a head does not change it shows as the base does.                  *)
LEMMA UnchangedContent ==
  ASSUME NEW k, NEW b \in Document, NEW o \in Document, NEW t \in Document,
         Joinable(k, b, o, t), NEW p \in Targets
  PROVE  /\ p \notin Differ(k, b, o) => Content(o.target[p]) = Content(b.target[p])
         /\ p \notin Differ(k, b, t) => Content(t.target[p]) = Content(b.target[p])
<1> DEFINE paths == Differ(k, b, o) \cup Differ(k, b, t)
<1>1. /\ p \notin Differ(k, b, o) =>
           Fingerprint(k, b.target[p]) = Fingerprint(k, o.target[p])
      /\ p \notin Differ(k, b, t) =>
           Fingerprint(k, b.target[p]) = Fingerprint(k, t.target[p])
  BY DEF Differ
<1>2. CASE Listed(k, b.target[p])
  BY <1>1, <1>2, TargetType, FingerprintShowsContent
<1>3. CASE ~Listed(k, b.target[p]) /\ k = "sheets"
  <2>1. p \notin paths
    BY <1>3, TextOnlyListed DEF Joinable
  <2>2. SkeletonsEqual({b, o, t}, paths)
    BY <1>3 DEF Joinable
  <2>3. b.target[p] = o.target[p] /\ b.target[p] = t.target[p]
    BY <2>1, <2>2, SkeletonsAgree
  <2> QED
    BY <2>3
<1>4. CASE k # "sheets"
  BY <1>1, <1>4, FingerprintIsTarget
<1> QED
  BY <1>2, <1>3, <1>4

(* Documents whose changes can be joined have one order, and sheets one    *)
(* frame.                                                                  *)
LEMMA JoinableOrder ==
  ASSUME NEW k \in AllKinds, NEW b \in Document, NEW o \in Document,
         NEW t \in Document, Possible(k, b), Possible(k, o), Possible(k, t),
         Joinable(k, b, o, t)
  PROVE  /\ b.order = o.order /\ b.order = t.order
         /\ k = "sheets" => b.frame = o.frame /\ b.frame = t.frame
<1>1. CASE k = "word"
  BY <1>1 DEF Possible
<1>2. CASE k = "slides"
  BY <1>2, SlidesKeepOrder DEF Joinable
<1>3. CASE k = "sheets"
  <2>1. SkeletonsEqual({b, o, t}, Differ(k, b, o) \cup Differ(k, b, t))
    BY <1>3 DEF Joinable
  <2> QED
    BY <2>1, SkeletonsAgree
<1> QED
  BY <1>1, <1>2, <1>3 DEF AllKinds

-----------------------------------------------------------------------------
(* The decision.                                                           *)

WordPasses(b, o, t) ==
  Failing(WordChecks(b, o, t, Changes("word", b, o), Changes("word", b, t))) = {}
StablePasses(k, b, o, t) ==
  /\ Failing(StableChecks(k, b, o, t, Changes(k, b, o), Changes(k, b, t))) = {}
  /\ ~Overlapping(o, t, Changes(k, b, o), Changes(k, b, t))
Passes(k, b, o, t) ==
  IF k = "word" THEN WordPasses(b, o, t) ELSE StablePasses(k, b, o, t)

(* A list of checks passes if none of them fails.                          *)
LEMMA WordChecksPass ==
  ASSUME NEW b, NEW o, NEW t
  PROVE  LET oc == Changes("word", b, o)
             tc == Changes("word", b, t)
         IN  WordPasses(b, o, t) <=>
               /\ b.parts = o.parts /\ o.parts = t.parts
               /\ MergeableChanges(oc) /\ MergeableChanges(tc)
               /\ Paths(oc) \cap Paths(tc) = {}
               /\ TextOnlyAt("word", b, o, o, Paths(oc) \ {0})
               /\ TextOnlyAt("word", b, t, t, Paths(tc) \ {0})
<1> DEFINE oc == Changes("word", b, o)
           tc == Changes("word", b, t)
           checks == WordChecks(b, o, t, oc, tc)
<1>1. DOMAIN checks = 1 .. 4
  BY DEF WordChecks
<1>2. /\ checks[1].fails = ~(b.parts = o.parts /\ o.parts = t.parts)
      /\ checks[2].fails = ~(MergeableChanges(oc) /\ MergeableChanges(tc))
      /\ checks[3].fails = (Paths(oc) \cap Paths(tc) # {})
      /\ checks[4].fails = ~(TextOnlyAt("word", b, o, o, Paths(oc) \ {0})
                             /\ TextOnlyAt("word", b, t, t, Paths(tc) \ {0}))
  BY DEF WordChecks, Check
<1>3. WordPasses(b, o, t) <=> \A i \in 1 .. 4 : ~checks[i].fails
  BY <1>1 DEF WordPasses, Failing
<1>4. (\A i \in 1 .. 4 : ~checks[i].fails)
        <=> /\ ~checks[1].fails /\ ~checks[2].fails
            /\ ~checks[3].fails /\ ~checks[4].fails
  <2> HIDE DEF checks
  <2> QED
    OBVIOUS
<1> QED
  BY <1>2, <1>3, <1>4

LEMMA StableChecksPass ==
  ASSUME NEW k, NEW b, NEW o, NEW t
  PROVE  LET oc == Changes(k, b, o)
             tc == Changes(k, b, t)
             paths == Paths(oc) \cup Paths(tc)
         IN  StablePasses(k, b, o, t) <=>
               /\ ~TrueConflict(oc, tc)
               /\ b.parts = o.parts /\ o.parts = t.parts
               /\ MergeableChanges(oc) /\ MergeableChanges(tc)
               /\ StableIdentity(k, {b, o, t})
               /\ k = "sheets" => SkeletonsEqual({b, o, t}, paths)
               /\ TextOnlyAt(k, b, o, t, paths \ {0})
               /\ ~Overlapping(o, t, oc, tc)
<1> DEFINE oc == Changes(k, b, o)
           tc == Changes(k, b, t)
           paths == Paths(oc) \cup Paths(tc)
           checks == StableChecks(k, b, o, t, oc, tc)
<1>1. DOMAIN checks = 1 .. 6
  BY DEF StableChecks
<1>2. /\ checks[1].fails = TrueConflict(oc, tc)
      /\ checks[2].fails = ~(b.parts = o.parts /\ o.parts = t.parts)
      /\ checks[3].fails = ~(MergeableChanges(oc) /\ MergeableChanges(tc))
      /\ checks[4].fails = ~StableIdentity(k, {b, o, t})
      /\ checks[5].fails = (k = "sheets" /\ ~SkeletonsEqual({b, o, t}, paths))
      /\ checks[6].fails = ~TextOnlyAt(k, b, o, t, paths \ {0})
  BY DEF StableChecks, Check
<1>3. StablePasses(k, b, o, t)
        <=> (\A i \in 1 .. 6 : ~checks[i].fails) /\ ~Overlapping(o, t, oc, tc)
  BY <1>1 DEF StablePasses, Failing
<1>4. (\A i \in 1 .. 6 : ~checks[i].fails)
        <=> /\ ~checks[1].fails /\ ~checks[2].fails /\ ~checks[3].fails
            /\ ~checks[4].fails /\ ~checks[5].fails /\ ~checks[6].fails
  <2> HIDE DEF checks
  <2> QED
    OBVIOUS
<1> QED
  BY <1>2, <1>3, <1>4

(* Heads that pass the checks can be joined.                               *)
LEMMA PassedIsJoinable ==
  ASSUME NEW k \in AllKinds, NEW b \in Document, NEW o \in Document,
         NEW t \in Document, Passes(k, b, o, t)
  PROVE  Joinable(k, b, o, t)
<1> DEFINE oc == Changes(k, b, o)
           tc == Changes(k, b, t)
<1>1. MergeableChanges(oc) /\ MergeableChanges(tc)
  BY WordChecksPass, StableChecksPass DEF Passes
<1>2. SameShape(k, b, o) /\ SameShape(k, b, t)
  BY <1>1, MergeableKeepsShape
<1>3. /\ Paths(oc) = Differ(k, b, o) /\ 0 \notin Paths(oc)
      /\ Paths(tc) = Differ(k, b, t) /\ 0 \notin Paths(tc)
  BY <1>2, ChangesOfContents
<1>4. CASE k = "word"
  <2>1. /\ b.parts = o.parts /\ o.parts = t.parts
        /\ Paths(oc) \cap Paths(tc) = {}
        /\ TextOnlyAt("word", b, o, o, Paths(oc) \ {0})
        /\ TextOnlyAt("word", b, t, t, Paths(tc) \ {0})
    BY <1>4, WordChecksPass DEF Passes
  <2>2. /\ \A p \in Differ(k, b, o) : TextOnly(k, b.target[p], o.target[p])
        /\ \A p \in Differ(k, b, t) : TextOnly(k, b.target[p], t.target[p])
    BY <1>3, <1>4, <2>1 DEF TextOnlyAt
  <2> QED
    BY <1>2, <1>3, <1>4, <2>1, <2>2 DEF Joinable
<1>5. CASE k # "word"
  <2>1. /\ b.parts = o.parts /\ o.parts = t.parts
        /\ k = "sheets" => SkeletonsEqual({b, o, t}, Paths(oc) \cup Paths(tc))
        /\ TextOnlyAt(k, b, o, t, (Paths(oc) \cup Paths(tc)) \ {0})
        /\ ~Overlapping(o, t, oc, tc)
    BY <1>5, StableChecksPass DEF Passes
  <2>2. /\ \A p \in Differ(k, b, o) : TextOnly(k, b.target[p], o.target[p])
        /\ \A p \in Differ(k, b, t) : TextOnly(k, b.target[p], t.target[p])
    BY <1>3, <2>1 DEF TextOnlyAt
  <2>3. \A p \in Differ(k, b, o) \cap Differ(k, b, t) : o.target[p] = t.target[p]
    BY <1>3, <2>1 DEF Overlapping
  <2> QED
    BY <1>2, <1>3, <2>1, <2>2, <2>3 DEF Joinable
<1> QED
  BY <1>4, <1>5

(* Heads that pass the checks have a candidate that passes its             *)
(* verification, whichever of them is ours: the comparison of the base     *)
(* with the candidate finds the exact union of both change sets            *)
(* (VerifyCandidate).                                                      *)
THEOREM PassedIsVerified ==
  ASSUME NEW k \in AllKinds, NEW b \in Document, NEW o \in Document,
         NEW t \in Document, Passes(k, b, o, t),
         NEW applied \in {Differ(k, b, t), Differ(k, b, t) \ Differ(k, b, o)}
  PROVE  Verified(k, b, Changes(k, b, o), Changes(k, b, t),
                  CandidateOf(b, o, t, applied))
BY PassedIsJoinable, CandidateJoins, JoinIsVerified

(* The checks treat the two heads alike.                                   *)
LEMMA PassesEitherWay ==
  ASSUME NEW k, NEW b, NEW o, NEW t, Passes(k, b, o, t)
  PROVE  Passes(k, b, t, o)
<1>1. CASE k = "word"
  BY <1>1, WordChecksPass DEF Passes
<1>2. CASE k # "word"
  <2> DEFINE oc == Changes(k, b, o)
             tc == Changes(k, b, t)
  <2>1. {b, o, t} = {b, t, o} /\ Paths(oc) \cup Paths(tc) = Paths(tc) \cup Paths(oc)
    OBVIOUS
  <2>2. /\ ~TrueConflict(oc, tc)
        /\ b.parts = o.parts /\ o.parts = t.parts
        /\ MergeableChanges(oc) /\ MergeableChanges(tc)
        /\ StableIdentity(k, {b, o, t})
        /\ k = "sheets" => SkeletonsEqual({b, o, t}, Paths(oc) \cup Paths(tc))
        /\ TextOnlyAt(k, b, o, t, (Paths(oc) \cup Paths(tc)) \ {0})
        /\ ~Overlapping(o, t, oc, tc)
    BY <1>2, StableChecksPass DEF Passes
  <2>3. ~TrueConflict(tc, oc)
    BY <2>2 DEF TrueConflict
  <2>4. ~Overlapping(t, o, tc, oc)
    BY <2>2 DEF Overlapping
  <2>5. TextOnlyAt(k, b, t, o, (Paths(tc) \cup Paths(oc)) \ {0})
    BY <2>1, <2>2 DEF TextOnlyAt
  <2>6. /\ StableIdentity(k, {b, t, o})
        /\ k = "sheets" => SkeletonsEqual({b, t, o}, Paths(tc) \cup Paths(oc))
    BY <2>1, <2>2
  <2> QED
    BY <1>2, <2>2, <2>3, <2>4, <2>5, <2>6, StableChecksPass DEF Passes
<1> QED
  BY <1>1, <1>2

(* The merge that the mergers carry out when no hash settles it.           *)
MergeOf(k, b, o, t, enabled, valid) ==
  IF k = "word" THEN WordMerge(b, o, t, valid)
  ELSE StableMerge(k, b, o, t, enabled, valid)

(* Heads that fail a check are left to a manual resolution.                *)
LEMMA FailedIsManual ==
  ASSUME NEW k, NEW b, NEW o, NEW t, NEW enabled \in BOOLEAN,
         NEW valid \in BOOLEAN, ~Passes(k, b, o, t)
  PROVE  /\ MergeOf(k, b, o, t, enabled, valid).outcome = "manual"
         /\ ~MergeOf(k, b, o, t, enabled, valid).eligible
         /\ MergeOf(k, b, o, t, enabled, valid).candidate = Nothing
<1> DEFINE r == MergeOf(k, b, o, t, enabled, valid)
<1>1. CASE k = "word"
  <2> DEFINE checks == WordChecks(b, o, t, Changes("word", b, o), Changes("word", b, t))
  <2>1. r = Manual(FirstFailure(checks), FALSE)
    BY <1>1 DEF Passes, WordPasses, MergeOf, WordMerge
  <2> QED
    BY <2>1 DEF Answer, Manual
<1>2. CASE k # "word"
  <2> DEFINE checks == StableChecks(k, b, o, t, Changes(k, b, o), Changes(k, b, t))
  <2>1. \/ r = Manual(FirstFailure(checks), FALSE)
        \/ r = Manual("changes_conflict", FALSE)
    BY <1>2 DEF Passes, StablePasses, MergeOf, StableMerge
  <2> QED
    BY <2>1 DEF Answer, Manual
<1> QED
  BY <1>1, <1>2

(* Heads that pass are merged, if slides and sheets are to be merged at    *)
(* all and the candidate is valid; nothing else can stop the merge.        *)
LEMMA PassedWord ==
  ASSUME NEW b \in Document, NEW o \in Document, NEW t \in Document,
         NEW enabled \in BOOLEAN, NEW valid \in BOOLEAN,
         Passes("word", b, o, t)
  PROVE  LET r == MergeOf("word", b, o, t, enabled, valid)
         IN  /\ r.outcome = IF valid THEN "completed" ELSE "manual"
             /\ ~r.eligible
             /\ Joins("word", b, o, t, r.candidate)
<1> DEFINE oc == Changes("word", b, o)
           tc == Changes("word", b, t)
           d == CandidateOf(b, o, t, Paths(tc))
           r == MergeOf("word", b, o, t, enabled, valid)
<1>1. Joinable("word", b, o, t)
  BY PassedIsJoinable DEF AllKinds
<1>2. Joins("word", b, o, t, d)
  <2>1. Paths(tc) = Differ("word", b, t)
    BY <1>1, ChangesOfContents DEF Joinable
  <2>2. Joins("word", b, o, t, CandidateOf(b, o, t, Differ("word", b, t)))
    BY <1>1, CandidateJoins
  <2> QED
    BY <2>1, <2>2
<1>3. Verified("word", b, oc, tc, d)
  BY <1>1, <1>2, JoinIsVerified
<1>4. Failing(WordChecks(b, o, t, oc, tc)) = {}
  BY DEF Passes, WordPasses
<1>5. r = IF ~valid
          THEN Answer("manual", "merge_candidate_validation_failed", FALSE, d)
          ELSE Answer("completed", "disjoint_word_text", FALSE, d)
  BY <1>3, <1>4 DEF MergeOf, WordMerge, Completed
<1>6. /\ r.outcome = IF valid THEN "completed" ELSE "manual"
      /\ ~r.eligible /\ r.candidate = d
  BY <1>5 DEF Answer
<1> QED
  BY <1>2, <1>6

LEMMA PassedStable ==
  ASSUME NEW k \in AllKinds, NEW b \in Document, NEW o \in Document,
         NEW t \in Document, NEW enabled \in BOOLEAN, NEW valid \in BOOLEAN,
         k # "word", Passes(k, b, o, t)
  PROVE  LET r == MergeOf(k, b, o, t, enabled, valid)
         IN  /\ ~enabled => /\ r.outcome = "manual" /\ r.eligible
                            /\ r.candidate = Nothing
             /\ enabled /\ ~valid => /\ r.outcome = "manual" /\ ~r.eligible
                                     /\ r.candidate = Nothing
             /\ enabled /\ valid => /\ r.outcome = "completed" /\ r.eligible
                                    /\ Joins(k, b, o, t, r.candidate)
<1> DEFINE oc == Changes(k, b, o)
           tc == Changes(k, b, t)
           d == CandidateOf(b, o, t, Paths(tc) \ Paths(oc))
           r == MergeOf(k, b, o, t, enabled, valid)
<1>1. Joinable(k, b, o, t)
  BY PassedIsJoinable
<1>2. Joins(k, b, o, t, d)
  <2>1. Paths(tc) = Differ(k, b, t) /\ Paths(oc) = Differ(k, b, o)
    BY <1>1, ChangesOfContents DEF Joinable
  <2>2. Joins(k, b, o, t, CandidateOf(b, o, t, Differ(k, b, t) \ Differ(k, b, o)))
    BY <1>1, CandidateJoins
  <2> QED
    BY <2>1, <2>2
<1>3. Verified(k, b, oc, tc, d)
  BY <1>1, <1>2, JoinIsVerified
<1>4. /\ Failing(StableChecks(k, b, o, t, oc, tc)) = {}
      /\ ~Overlapping(o, t, oc, tc)
  BY DEF Passes, StablePasses
<1>5. r = IF ~enabled
          THEN Answer("manual", "automatic_merge_disabled", TRUE, Nothing)
          ELSE IF ~valid
          THEN Answer("manual", "candidate_validation_failed", FALSE, Nothing)
          ELSE Answer("completed", "disjoint", TRUE, d)
  BY <1>3, <1>4 DEF MergeOf, StableMerge, Completed, Manual
<1>6. /\ ~enabled => /\ r.outcome = "manual" /\ r.eligible
                     /\ r.candidate = Nothing
      /\ enabled /\ ~valid => /\ r.outcome = "manual" /\ ~r.eligible
                              /\ r.candidate = Nothing
      /\ enabled /\ valid => /\ r.outcome = "completed" /\ r.eligible
                             /\ r.candidate = d
  BY <1>5 DEF Answer
<1> QED
  BY <1>2, <1>6

(* A merge that is carried out: of any Word document, and of slides and    *)
(* sheets where the organization has automatic merges.                     *)
Merges(k, enabled) == k = "word" \/ enabled

LEMMA PassedIsMerged ==
  ASSUME NEW k \in AllKinds, NEW b \in Document, NEW o \in Document,
         NEW t \in Document, NEW enabled \in BOOLEAN, NEW valid \in BOOLEAN,
         Passes(k, b, o, t), Merges(k, enabled)
  PROVE  /\ MergeOf(k, b, o, t, enabled, valid).outcome
              = IF valid THEN "completed" ELSE "manual"
         /\ MergeOf(k, b, o, t, enabled, valid).eligible <=> valid /\ k # "word"
         /\ MergeOf(k, b, o, t, enabled, valid).outcome = "completed" =>
              Joins(k, b, o, t, MergeOf(k, b, o, t, enabled, valid).candidate)
         /\ MergeOf(k, b, o, t, enabled, valid).candidate \in Document \cup {Nothing}
<1>1. CASE k = "word"
  BY <1>1, PassedWord DEF Joins
<1>2. CASE k # "word"
  <2> DEFINE r == MergeOf(k, b, o, t, enabled, valid)
  <2>1. /\ ~enabled => /\ r.outcome = "manual" /\ r.eligible
                       /\ r.candidate = Nothing
        /\ enabled /\ ~valid => /\ r.outcome = "manual" /\ ~r.eligible
                                /\ r.candidate = Nothing
        /\ enabled /\ valid => /\ r.outcome = "completed" /\ r.eligible
                               /\ Joins(k, b, o, t, r.candidate)
    BY <1>2, PassedStable
  <2>2. enabled
    BY <1>2 DEF Merges
  <2> QED
    BY <1>2, <2>1, <2>2 DEF Joins
<1> QED
  BY <1>1, <1>2

LEMMA DisabledIsEligible ==
  ASSUME NEW k \in AllKinds, NEW b \in Document, NEW o \in Document,
         NEW t \in Document, NEW enabled \in BOOLEAN, NEW valid \in BOOLEAN,
         Passes(k, b, o, t), ~Merges(k, enabled)
  PROVE  /\ MergeOf(k, b, o, t, enabled, valid).outcome = "manual"
         /\ MergeOf(k, b, o, t, enabled, valid).eligible
         /\ MergeOf(k, b, o, t, enabled, valid).candidate = Nothing
BY PassedStable DEF Merges

(* Requests that a hash or the coverage settles, and the others.           *)
Covered(b, o, t) == \A d \in {b, o, t} : d.coverage = "complete"
Distinct(b, o, t) == o # t /\ b # o /\ b # t

LEMMA CoverageOf ==
  ASSUME NEW b \in Document, NEW o \in Document, NEW t \in Document
  PROVE  Covered(b, o, t) <=>
           /\ "unreadable" \notin {d.coverage : d \in {b, o, t}}
           /\ "partial" \notin {d.coverage : d \in {b, o, t}}
<1>1. \A d \in {b, o, t} : d.coverage \in {"complete", "partial", "unreadable"}
  BY DEF Document
<1> QED
  BY <1>1 DEF Covered

LEMMA UncoveredIsManual ==
  ASSUME NEW k, NEW b \in Document, NEW o \in Document, NEW t \in Document,
         NEW enabled \in BOOLEAN, NEW valid \in BOOLEAN, ~Covered(b, o, t)
  PROVE  /\ Decide(k, b, o, t, enabled, valid).outcome = "manual"
         /\ ~Decide(k, b, o, t, enabled, valid).eligible
         /\ Decide(k, b, o, t, enabled, valid).candidate = Nothing
<1>1. \/ Decide(k, b, o, t, enabled, valid) = Manual("merge_source_rejected", FALSE)
      \/ Decide(k, b, o, t, enabled, valid)
           = Manual("merge_coverage_incomplete", FALSE)
  BY CoverageOf DEF Decide
<1> QED
  BY <1>1 DEF Manual, Answer

LEMMA EqualHashesComplete ==
  ASSUME NEW k, NEW b \in Document, NEW o \in Document, NEW t \in Document,
         NEW enabled \in BOOLEAN, NEW valid \in BOOLEAN,
         Covered(b, o, t), ~Distinct(b, o, t)
  PROVE  /\ Decide(k, b, o, t, enabled, valid).outcome = "completed"
         /\ ~Decide(k, b, o, t, enabled, valid).eligible
         /\ Decide(k, b, o, t, enabled, valid).candidate = IF b = o THEN t ELSE o
<1>1. \E why : Decide(k, b, o, t, enabled, valid)
                 = Answer("completed", why, FALSE, IF b = o THEN t ELSE o)
  <2>1. CASE o = t
    BY <2>1, CoverageOf DEF Decide, Completed
  <2>2. CASE o # t /\ b = o
    BY <2>2, CoverageOf DEF Decide, Completed
  <2>3. CASE o # t /\ b # o /\ b = t
    BY <2>3, CoverageOf DEF Decide, Completed
  <2> QED
    BY <2>1, <2>2, <2>3 DEF Distinct
<1> QED
  BY <1>1 DEF Answer

LEMMA DistinctAreMerged ==
  ASSUME NEW k, NEW b \in Document, NEW o \in Document, NEW t \in Document,
         NEW enabled \in BOOLEAN, NEW valid \in BOOLEAN,
         Covered(b, o, t), Distinct(b, o, t)
  PROVE  Decide(k, b, o, t, enabled, valid) = MergeOf(k, b, o, t, enabled, valid)
BY CoverageOf DEF Decide, MergeOf, Distinct

-----------------------------------------------------------------------------
(* The merge of heads that can be joined is their three-way merge.         *)
LEMMA JoinIsThreeWay ==
  ASSUME NEW k \in AllKinds, NEW b \in Document, NEW o \in Document,
         NEW t \in Document, Possible(k, b), Possible(k, o), Possible(k, t),
         Joinable(k, b, o, t), NEW d, Joins(k, b, o, t, d)
  PROVE  /\ \A p \in Targets :
              ThreeWay(Content(b.target[p]), Content(o.target[p]),
                       Content(t.target[p])) = <<Content(d.target[p])>>
         /\ ThreeWay(b.order, o.order, t.order) = <<d.order>>
         /\ ThreeWay(b.parts, o.parts, t.parts) = <<d.parts>>
         /\ k = "sheets" => ThreeWay(b.frame, o.frame, t.frame) = <<d.frame>>
<1>1. ASSUME NEW p \in Targets
      PROVE  ThreeWay(Content(b.target[p]), Content(o.target[p]),
                      Content(t.target[p])) = <<Content(d.target[p])>>
  <2>1. CASE p \in Differ(k, b, t)
    <3>1. d.target[p] = t.target[p]
      BY <2>1 DEF Joins
    <3>2. CASE p \in Differ(k, b, o)
      <4>1. o.target[p] = t.target[p]
        BY <2>1, <3>2 DEF Joinable
      <4> QED
        BY <3>1, <4>1 DEF ThreeWay
    <3>3. CASE p \notin Differ(k, b, o)
      <4>1. Content(o.target[p]) = Content(b.target[p])
        BY <3>3, UnchangedContent
      <4> QED
        BY <3>1, <4>1 DEF ThreeWay
    <3> QED
      BY <3>2, <3>3
  <2>2. CASE p \notin Differ(k, b, t)
    <3>1. d.target[p] = o.target[p]
      BY <2>2 DEF Joins
    <3>2. Content(t.target[p]) = Content(b.target[p])
      BY <2>2, UnchangedContent
    <3> QED
      BY <3>1, <3>2 DEF ThreeWay
  <2> QED
    BY <2>1, <2>2
<1>2. /\ b.order = o.order /\ b.order = t.order
      /\ k = "sheets" => b.frame = o.frame /\ b.frame = t.frame
  BY JoinableOrder
<1>3. b.parts = o.parts /\ b.parts = t.parts
  BY DEF Joinable
<1>4. d.order = o.order /\ d.parts = o.parts /\ d.frame = o.frame
  BY DEF Joins
<1> QED
  BY <1>1, <1>2, <1>3, <1>4 DEF ThreeWay

(* Whichever head is ours, the joined contents are the same.               *)
LEMMA JoinsShowTheSame ==
  ASSUME NEW k, NEW b \in Document, NEW o \in Document, NEW t \in Document,
         Joinable(k, b, o, t), NEW d, Joins(k, b, o, t, d),
         NEW e, Joins(k, b, t, o, e), NEW p \in Targets
  PROVE  Content(d.target[p]) = Content(e.target[p])
<1>1. /\ d.target[p] = IF p \in Differ(k, b, t) THEN t.target[p] ELSE o.target[p]
      /\ e.target[p] = IF p \in Differ(k, b, o) THEN o.target[p] ELSE t.target[p]
  BY DEF Joins
<1>2. p \in Differ(k, b, o) /\ p \in Differ(k, b, t) => o.target[p] = t.target[p]
  BY DEF Joinable
<1>3. /\ p \notin Differ(k, b, o) => Content(o.target[p]) = Content(b.target[p])
      /\ p \notin Differ(k, b, t) => Content(t.target[p]) = Content(b.target[p])
  BY UnchangedContent
<1> QED
  BY <1>1, <1>2, <1>3

(* The request stays, and the answer to it is a decision on it.            *)
MergeInv ==
  /\ kind \in Kinds
  /\ \A d \in {base, ours, theirs} : d \in Document /\ Possible(kind, d)
  /\ \/ result = Nothing
     \/ \E enabled, valid \in BOOLEAN :
          result = Decide(kind, base, ours, theirs, enabled, valid)

(* Every reachable state has a request and, at most, a decision on it.     *)
THEOREM AnswersAreDecisions == MergeSpec => []MergeInv
<1>1. MergeInit => MergeInv
  BY InputsAssumption DEF MergeInit, MergeInv
<1>2. MergeInv /\ [MergeNext]_mergeVars => MergeInv'
  <2> SUFFICES ASSUME MergeInv, [MergeNext]_mergeVars PROVE MergeInv'
    OBVIOUS
  <2>1. ASSUME NEW enabled \in BOOLEAN, NEW valid \in BOOLEAN,
               MergeAsync(enabled, valid)
        PROVE  MergeInv'
    <3>1. UNCHANGED <<kind, base, ours, theirs>>
      BY <2>1 DEF MergeAsync, request
    <3>2. result' = Decide(kind', base', ours', theirs', enabled, valid)
      BY <2>1, <3>1 DEF MergeAsync
    <3>3. (\E e, v \in BOOLEAN : result = Decide(kind, base, ours, theirs, e, v))'
      BY <3>2
    <3> QED
      BY <3>1, <3>3 DEF MergeInv
  <2>2. CASE UNCHANGED mergeVars
    BY <2>2 DEF mergeVars, MergeInv
  <2> QED
    BY <2>1, <2>2 DEF MergeNext
<1> QED
  BY <1>1, <1>2, PTL DEF MergeSpec

(* What is known of a request in every reachable state.                    *)
LEMMA RequestType ==
  MergeInv => /\ kind \in AllKinds
              /\ base \in Document /\ ours \in Document /\ theirs \in Document
              /\ Possible(kind, base) /\ Possible(kind, ours)
              /\ Possible(kind, theirs)
BY KindsAssumption DEF MergeInv

(* An answer is a completed merge with a document, or a refusal that has a *)
(* document or none.                                                       *)
LEMMA DecisionType ==
  ASSUME NEW k \in AllKinds, NEW b \in Document, NEW o \in Document,
         NEW t \in Document, NEW enabled \in BOOLEAN, NEW valid \in BOOLEAN
  PROVE  /\ Decide(k, b, o, t, enabled, valid).outcome \in {"completed", "manual"}
         /\ Decide(k, b, o, t, enabled, valid).candidate \in Document \cup {Nothing}
<1>1. CASE ~Covered(b, o, t)
  BY <1>1, UncoveredIsManual
<1>2. CASE Covered(b, o, t) /\ ~Distinct(b, o, t)
  BY <1>2, EqualHashesComplete
<1>3. CASE Covered(b, o, t) /\ Distinct(b, o, t)
  <2>1. Decide(k, b, o, t, enabled, valid) = MergeOf(k, b, o, t, enabled, valid)
    BY <1>3, DistinctAreMerged
  <2>2. CASE ~Passes(k, b, o, t)
    BY <2>1, <2>2, FailedIsManual
  <2>3. CASE Passes(k, b, o, t) /\ Merges(k, enabled)
    BY <2>1, <2>3, PassedIsMerged
  <2>4. CASE Passes(k, b, o, t) /\ ~Merges(k, enabled)
    BY <2>1, <2>4, DisabledIsEligible
  <2> QED
    BY <2>2, <2>3, <2>4
<1> QED
  BY <1>1, <1>2, <1>3

(* Only heads that pass the checks are merged.                             *)
LEMMA CompletedPassed ==
  ASSUME NEW k \in AllKinds, NEW b \in Document, NEW o \in Document,
         NEW t \in Document, NEW enabled \in BOOLEAN, NEW valid \in BOOLEAN,
         Decide(k, b, o, t, enabled, valid).outcome = "completed",
         Distinct(b, o, t)
  PROVE  /\ Passes(k, b, o, t)
         /\ Joins(k, b, o, t, Decide(k, b, o, t, enabled, valid).candidate)
<1>1. Covered(b, o, t)
  BY UncoveredIsManual
<1>2. Decide(k, b, o, t, enabled, valid) = MergeOf(k, b, o, t, enabled, valid)
  BY <1>1, DistinctAreMerged
<1>3. Passes(k, b, o, t)
  BY <1>2, FailedIsManual
<1>4. Merges(k, enabled)
  BY <1>2, <1>3, DisabledIsEligible
<1> QED
  BY <1>2, <1>3, <1>4, PassedIsMerged

(* The type invariant of the merge holds of every request.                 *)
THEOREM MergeTypeCorrect == MergeSpec => []MergeTypeOK
<1>1. MergeInv => MergeTypeOK
  BY RequestType, DecisionType DEF MergeInv, MergeTypeOK
<1> QED
  BY <1>1, AnswersAreDecisions, PTL

(* A merge that completes has every change of either head and no other,    *)
(* whatever the documents, the settings and the outcome of the validation  *)
(* (OoxmlMerger.Merge).                                                    *)
THEOREM MergesAreRight == MergeSpec => []MergedRight
<1>1. MergeInv => MergedRight
  <2> SUFFICES ASSUME MergeInv, IsCompleted
               PROVE  /\ MergesTo(result.candidate)
                      /\ kind = "sheets" => FrameMergesTo(result.candidate)
    BY DEF MergedRight
  <2>1. PICK enabled \in BOOLEAN, valid \in BOOLEAN :
          result = Decide(kind, base, ours, theirs, enabled, valid)
    BY DEF MergeInv, IsCompleted
  <2>2. result.outcome = "completed"
    BY DEF IsCompleted
  <2>3. CASE ~Distinct(base, ours, theirs)
    <3>1. Covered(base, ours, theirs)
      BY <2>1, <2>2, RequestType, UncoveredIsManual
    <3>2. result.candidate = IF base = ours THEN theirs ELSE ours
      BY <2>1, <2>3, <3>1, RequestType, EqualHashesComplete
    <3> QED
      BY <2>3, <3>2 DEF Distinct, MergesTo, FrameMergesTo, ThreeWay
  <2>4. CASE Distinct(base, ours, theirs)
    <3>1. /\ Passes(kind, base, ours, theirs)
          /\ Joins(kind, base, ours, theirs, result.candidate)
      BY <2>1, <2>2, <2>4, RequestType, CompletedPassed
    <3>2. Joinable(kind, base, ours, theirs)
      BY <3>1, RequestType, PassedIsJoinable
    <3> QED
      BY <3>1, <3>2, RequestType, JoinIsThreeWay DEF MergesTo, FrameMergesTo
  <2> QED
    BY <2>3, <2>4
<1> QED
  BY <1>1, AnswersAreDecisions, PTL

(* It does not matter which head is called ours: the merge completes from  *)
(* both sides or from neither, with the same contents (OoxmlMerger.Merge). *)
LEMMA DecideEitherWay ==
  ASSUME NEW k \in AllKinds, NEW b \in Document, NEW o \in Document,
         NEW t \in Document, NEW enabled \in BOOLEAN, NEW valid \in BOOLEAN
  PROVE  LET r == Decide(k, b, o, t, enabled, valid)
             s == Decide(k, b, t, o, enabled, valid)
         IN  /\ r.outcome = s.outcome
             /\ r.eligible <=> s.eligible
             /\ r.outcome = "completed" =>
                  \A p \in Targets : Content(r.candidate.target[p])
                                       = Content(s.candidate.target[p])
<1> DEFINE r == Decide(k, b, o, t, enabled, valid)
           s == Decide(k, b, t, o, enabled, valid)
<1>1. CASE ~Covered(b, o, t)
  <2>1. ~Covered(b, t, o)
    BY <1>1 DEF Covered
  <2>2. r.outcome = "manual" /\ ~r.eligible
    BY <1>1, UncoveredIsManual
  <2>3. s.outcome = "manual" /\ ~s.eligible
    BY <2>1, UncoveredIsManual
  <2> QED
    BY <2>2, <2>3
<1>2. CASE Covered(b, o, t) /\ ~Distinct(b, o, t)
  <2>1. Covered(b, t, o) /\ ~Distinct(b, t, o)
    BY <1>2 DEF Covered, Distinct
  <2>2. /\ r.outcome = "completed" /\ ~r.eligible
        /\ r.candidate = IF b = o THEN t ELSE o
    BY <1>2, EqualHashesComplete
  <2>3. /\ s.outcome = "completed" /\ ~s.eligible
        /\ s.candidate = IF b = t THEN o ELSE t
    BY <2>1, EqualHashesComplete
  <2>4. r.candidate = s.candidate
    BY <1>2, <2>2, <2>3 DEF Distinct
  <2> QED
    BY <2>2, <2>3, <2>4
<1>3. CASE Covered(b, o, t) /\ Distinct(b, o, t)
  <2>1. Covered(b, t, o) /\ Distinct(b, t, o)
    BY <1>3 DEF Covered, Distinct
  <2>2. /\ r = MergeOf(k, b, o, t, enabled, valid)
        /\ s = MergeOf(k, b, t, o, enabled, valid)
    BY <1>3, <2>1, DistinctAreMerged
  <2>3. Passes(k, b, o, t) <=> Passes(k, b, t, o)
    BY PassesEitherWay
  <2>4. CASE ~Passes(k, b, o, t)
    <3>1. r.outcome = "manual" /\ ~r.eligible
      BY <2>2, <2>4, FailedIsManual
    <3>2. s.outcome = "manual" /\ ~s.eligible
      BY <2>2, <2>3, <2>4, FailedIsManual
    <3> QED
      BY <3>1, <3>2
  <2>5. CASE Passes(k, b, o, t) /\ ~Merges(k, enabled)
    <3>1. r.outcome = "manual" /\ r.eligible
      BY <2>2, <2>5, DisabledIsEligible
    <3>2. s.outcome = "manual" /\ s.eligible
      BY <2>2, <2>3, <2>5, DisabledIsEligible
    <3> QED
      BY <3>1, <3>2
  <2>6. CASE Passes(k, b, o, t) /\ Merges(k, enabled)
    <3>1. /\ r.outcome = IF valid THEN "completed" ELSE "manual"
          /\ r.eligible <=> valid /\ k # "word"
          /\ r.outcome = "completed" => Joins(k, b, o, t, r.candidate)
      BY <2>2, <2>6, PassedIsMerged
    <3>2. /\ s.outcome = IF valid THEN "completed" ELSE "manual"
          /\ s.eligible <=> valid /\ k # "word"
          /\ s.outcome = "completed" => Joins(k, b, t, o, s.candidate)
      BY <2>2, <2>3, <2>6, PassedIsMerged
    <3>3. Joinable(k, b, o, t)
      BY <2>6, PassedIsJoinable
    <3>4. ASSUME r.outcome = "completed", NEW p \in Targets
          PROVE  Content(r.candidate.target[p]) = Content(s.candidate.target[p])
      <4>1. Joins(k, b, o, t, r.candidate)
        BY <3>1, <3>4
      <4>2. Joins(k, b, t, o, s.candidate)
        BY <3>1, <3>2, <3>4
      <4>3. ASSUME NEW d, NEW e, Joins(k, b, o, t, d), Joins(k, b, t, o, e)
            PROVE  Content(d.target[p]) = Content(e.target[p])
        BY <3>3, <4>3, JoinsShowTheSame
      <4> QED
        BY <4>1, <4>2, <4>3
    <3> QED
      BY <3>1, <3>2, <3>4
  <2> QED
    BY <2>4, <2>5, <2>6
<1> QED
  BY <1>1, <1>2, <1>3

(* The merge is the same from either side, for every request               *)
(* (OoxmlMerger.Merge).                                                    *)
THEOREM EitherHeadMayBeOurs == MergeSpec => []EitherOrder
<1>1. MergeInv => EitherOrder
  <2> SUFFICES ASSUME MergeInv, NEW enabled \in BOOLEAN
               PROVE  LET r == Decide(kind, base, ours, theirs, enabled, TRUE)
                          s == Decide(kind, base, theirs, ours, enabled, TRUE)
                      IN  /\ r.outcome = s.outcome
                          /\ r.eligible <=> s.eligible
                          /\ r.outcome = "completed" =>
                               \A p \in Targets :
                                 Content(r.candidate.target[p])
                                   = Content(s.candidate.target[p])
    BY DEF EitherOrder
  <2> DEFINE valid == TRUE
  <2>1. valid \in BOOLEAN
    OBVIOUS
  <2> HIDE DEF valid
  <2>2. LET r == Decide(kind, base, ours, theirs, enabled, valid)
            s == Decide(kind, base, theirs, ours, enabled, valid)
        IN  /\ r.outcome = s.outcome
            /\ r.eligible <=> s.eligible
            /\ r.outcome = "completed" =>
                 \A p \in Targets : Content(r.candidate.target[p])
                                      = Content(s.candidate.target[p])
    BY <2>1, RequestType, DecideEitherWay
  <2> QED
    BY <2>2 DEF valid
<1> QED
  BY <1>1, AnswersAreDecisions, PTL

(* Three distinct documents make a set of three.                           *)
LEMMA ThreeAreDistinct ==
  ASSUME NEW b, NEW o, NEW t, Cardinality({b, o, t}) = 3
  PROVE  Distinct(b, o, t)
<1>1. \A x, y : Cardinality({x, y}) \in {1, 2}
  <2> TAKE x, y
  <2>1. IsFiniteSet({y}) /\ Cardinality({y}) = 1
    BY FS_Singleton
  <2>2. Cardinality({y} \cup {x}) \in {1, 2}
    BY <2>1, FS_AddElement
  <2>3. {x, y} = {y} \cup {x}
    OBVIOUS
  <2> QED
    BY <2>2, <2>3
<1>2. /\ o = t => {b, o, t} = {b, o}
      /\ b = o => {b, o, t} = {b, t}
      /\ b = t => {b, o, t} = {b, o}
  OBVIOUS
<1>3. ~(o = t) /\ ~(b = o) /\ ~(b = t)
  <2>1. \A x, y : Cardinality({x, y}) # 3
    BY <1>1
  <2> QED
    BY <1>2, <2>1
<1> QED
  BY <1>3 DEF Distinct

(* What an organization without automatic merges is told to be eligible is *)
(* what completes in one that has them (MergeAnalysis.Eligible): no check  *)
(* that comes after the analysis can fail, the verification included.      *)
THEOREM EligibleIsKept == MergeSpec => []EligibleMeans
<1>1. MergeInv => EligibleMeans
  <2> SUFFICES ASSUME MergeInv, kind # "word",
                      Cardinality({base, ours, theirs}) = 3
               PROVE  Decide(kind, base, ours, theirs, FALSE, TRUE).eligible
                        <=> Decide(kind, base, ours, theirs, TRUE, TRUE).outcome
                              = "completed"
    BY DEF EligibleMeans
  <2> DEFINE yes == TRUE
             no == FALSE
             off == Decide(kind, base, ours, theirs, no, yes)
             on == Decide(kind, base, ours, theirs, yes, yes)
  <2>1. Distinct(base, ours, theirs)
    BY ThreeAreDistinct
  <2>2. yes \in BOOLEAN /\ no \in BOOLEAN
    OBVIOUS
  <2>6. yes /\ Merges(kind, yes) /\ ~Merges(kind, no)
    BY DEF Merges
  <2>3. SUFFICES off.eligible <=> on.outcome = "completed"
    OBVIOUS
  <2> HIDE DEF yes, no
  <2>4. CASE ~Covered(base, ours, theirs)
    <3>1. ~off.eligible
      BY <2>2, <2>4, RequestType, UncoveredIsManual
    <3>2. on.outcome = "manual"
      BY <2>2, <2>4, RequestType, UncoveredIsManual
    <3> QED
      BY <3>1, <3>2
  <2>5. CASE Covered(base, ours, theirs)
    <3>1. /\ off = MergeOf(kind, base, ours, theirs, no, yes)
          /\ on = MergeOf(kind, base, ours, theirs, yes, yes)
      BY <2>1, <2>2, <2>5, RequestType, DistinctAreMerged
    <3>2. CASE ~Passes(kind, base, ours, theirs)
      <4>1. ~off.eligible
        BY <2>2, <3>1, <3>2, FailedIsManual
      <4>2. on.outcome = "manual"
        BY <2>2, <3>1, <3>2, FailedIsManual
      <4> QED
        BY <4>1, <4>2
    <3>3. CASE Passes(kind, base, ours, theirs)
      <4>1. off.eligible
        <5>1. ~Merges(kind, no)
          BY <2>6
        <5> QED
          BY <2>2, <3>1, <3>3, <5>1, RequestType, DisabledIsEligible
      <4>2. on.outcome = IF yes THEN "completed" ELSE "manual"
        <5>1. Merges(kind, yes)
          BY <2>6
        <5> QED
          BY <2>2, <3>1, <3>3, <5>1, RequestType, PassedIsMerged
      <4> QED
        BY <2>6, <4>1, <4>2
    <3> QED
      BY <3>2, <3>3
  <2> QED
    BY <2>4, <2>5
<1> QED
  BY <1>1, AnswersAreDecisions, PTL

=============================================================================
