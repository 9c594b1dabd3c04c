-------------------------- MODULE IdRedirect_proofs --------------------------
(* What recording and resolving a redirect do, for every table.            *)
EXTENDS IdRedirect, SequenceTheorems, FiniteSetTheorems, TLAPS

USE RedirectAssumption

\* Resolving never leaves a set of ids that the redirects do not leave.
THEOREM ResolveStays ==
  ASSUME NEW table, NEW id, NEW S, id \in S,
         \A e \in Entries(table) : e.old \in S => e.new \in S
  PROVE  Resolve(table, id) \in S
<1> DEFINE nodes == {id} \cup UNION {{e.old, e.new} : e \in Entries(table)}
           Follows(T) == id \in T /\ \A e \in Entries(table) : e.old \in T => e.new \in T
           ends == Chain(table, id) \ Olds(table)
<1>1. S \cap nodes \in SUBSET nodes /\ Follows(S \cap nodes)
  OBVIOUS
<1>2. \A x \in Chain(table, id) : x \in S
  BY <1>1 DEF Chain
<1>3. CASE ends = {}
  BY <1>3 DEF Resolve
<1>4. CASE ends # {}
  <2>1. Resolve(table, id) \in ends
    BY <1>4 DEF Resolve
  <2> QED
    BY <1>2, <2>1
<1> QED
  BY <1>3, <1>4

-----------------------------------------------------------------------------
LEMMA DropAtProperties ==
  ASSUME NEW E, NEW table \in Seq(E), NEW i \in DOMAIN table
  PROVE  /\ DropAt(table, i) \in Seq(E)
         /\ Len(DropAt(table, i)) = Len(table) - 1
         /\ \A j \in 1..(Len(table) - 1) :
              DropAt(table, i)[j] = IF j < i THEN table[j] ELSE table[j + 1]
<1>1. Len(table) \in Nat /\ DOMAIN table = 1..Len(table) /\ i \in 1..Len(table)
  BY LenProperties
<1>2. \A j \in DOMAIN table : table[j] \in E
  BY ElementOfSeq, <1>1
<1> DEFINE n == Len(table) - 1
           f == [j \in 1..n |-> IF j < i THEN table[j] ELSE table[j + 1]]
<1>3. n \in Nat
  BY <1>1
<1>4. \A j \in 1..n : f[j] \in E /\ f[j] = IF j < i THEN table[j] ELSE table[j + 1]
  BY <1>1, <1>2
<1>5. f \in Seq(E)
  BY <1>3, <1>4, IsASeq
<1>6. Len(f) = n
  BY <1>3, <1>5, LenProperties
<1> QED
  BY <1>4, <1>5, <1>6 DEF DropAt

LEMMA WithoutProperties ==
  ASSUME NEW E, NEW table \in Seq(E), NEW id, IsTable(table)
  PROVE  /\ Without(table, id) \in Seq(E)
         /\ Len(Without(table, id)) <= Len(table)
         /\ Entries(Without(table, id)) \subseteq Entries(table)
         /\ IsTable(Without(table, id))
         /\ id \notin Olds(Without(table, id))
<1>1. Len(table) \in Nat /\ DOMAIN table = 1..Len(table)
  BY LenProperties
<1>2. CASE id \notin Olds(table)
  BY <1>1, <1>2 DEF Without
<1>3. CASE id \in Olds(table)
  <2> DEFINE i == CHOOSE i \in DOMAIN table : table[i].old = id
             rest == DropAt(table, i)
  <2>1. i \in DOMAIN table /\ table[i].old = id
    BY <1>3 DEF Olds, Entries
  <2>2. Without(table, id) = rest
    BY <1>3 DEF Without
  <2>3. /\ rest \in Seq(E)
        /\ Len(rest) = Len(table) - 1
        /\ \A j \in 1..(Len(table) - 1) :
             rest[j] = IF j < i THEN table[j] ELSE table[j + 1]
    BY <2>1, DropAtProperties
  <2> HIDE DEF i, rest
  <2>4. DOMAIN rest = 1..(Len(table) - 1)
    BY <2>3, LenProperties
  <2> DEFINE Was(j) == IF j < i THEN j ELSE j + 1
  <2>5. \A j \in DOMAIN rest : Was(j) \in DOMAIN table /\ Was(j) # i /\ rest[j] = table[Was(j)]
    BY <1>1, <2>1, <2>3, <2>4
  <2>6. \A j, k \in DOMAIN rest : Was(j) = Was(k) => j = k
    BY <1>1, <2>1, <2>4
  <2> HIDE DEF Was
  <2>7. Entries(rest) \subseteq Entries(table)
    BY <2>5 DEF Entries
  <2>8. IsTable(rest)
    BY <2>5, <2>6 DEF IsTable
  <2>9. id \notin Olds(rest)
    BY <2>1, <2>5 DEF Olds, Entries, IsTable
  <2> QED
    BY <1>1, <2>2, <2>3, <2>7, <2>8, <2>9
<1> QED
  BY <1>2, <1>3

LEMMA TailProperties ==
  ASSUME NEW E, NEW table \in Seq(E), table # <<>>, IsTable(table)
  PROVE  /\ Tail(table) \in Seq(E)
         /\ Len(Tail(table)) = Len(table) - 1
         /\ Entries(Tail(table)) \subseteq Entries(table)
         /\ IsTable(Tail(table))
<1>1. /\ Tail(table) \in Seq(E)
      /\ Len(Tail(table)) = Len(table) - 1
      /\ \A j \in 1..Len(Tail(table)) : Tail(table)[j] = table[j + 1]
  BY HeadTailProperties
<1>2. Len(table) \in Nat /\ DOMAIN table = 1..Len(table)
  BY LenProperties
<1>3. DOMAIN Tail(table) = 1..(Len(table) - 1)
  BY <1>1, LenProperties
<1>4. \A j \in DOMAIN Tail(table) :
        j \in Nat /\ j + 1 \in DOMAIN table /\ Tail(table)[j] = table[j + 1]
  BY <1>1, <1>2, <1>3
<1>5. Entries(Tail(table)) \subseteq Entries(table)
  BY <1>4 DEF Entries
<1>6. \A j, k \in DOMAIN Tail(table) : j + 1 = k + 1 => j = k
  BY <1>4
<1>7. IsTable(Tail(table))
  BY <1>4, <1>6 DEF IsTable
<1> QED
  BY <1>1, <1>5, <1>7

LEMMA AppendEntry ==
  ASSUME NEW E, NEW table \in Seq(E), NEW e \in E, IsTable(table), e.old \notin Olds(table)
  PROVE  /\ Append(table, e) \in Seq(E)
         /\ Len(Append(table, e)) = Len(table) + 1
         /\ Entries(Append(table, e)) = Entries(table) \cup {e}
         /\ IsTable(Append(table, e))
         /\ Append(table, e) # <<>>
<1> DEFINE n == Len(table)
           longer == Append(table, e)
<1>1. /\ longer \in Seq(E) /\ longer # <<>> /\ Len(longer) = n + 1
      /\ \A j \in 1..n : longer[j] = table[j]
      /\ longer[n + 1] = e
  BY AppendProperties
<1>2. n \in Nat /\ DOMAIN table = 1..n /\ DOMAIN longer = 1..(n + 1)
  BY <1>1, LenProperties
<1> HIDE DEF n, longer
<1>3. \A j \in DOMAIN longer : j \in DOMAIN table \/ j = n + 1
  BY <1>2
<1>4. n + 1 \in DOMAIN longer /\ \A j \in DOMAIN table : j \in DOMAIN longer
  BY <1>2
<1>5. Entries(longer) = Entries(table) \cup {e}
  BY <1>1, <1>2, <1>3, <1>4 DEF Entries
<1>6. \A j \in DOMAIN table : table[j].old # e.old
  BY DEF Olds, Entries
<1>7. IsTable(longer)
  BY <1>1, <1>2, <1>3, <1>6 DEF IsTable
<1> QED
  BY <1>1, <1>5, <1>7 DEF longer, n

\* record() keeps a table: one entry per id, at most MaxEntries of them, and
\* none that was not there but the new one (id_redirect.py:32-39).
THEOREM RecordKeepsTable ==
  ASSUME NEW I, NEW table \in Seq([old : I, new : I]), NEW x \in I, NEW y \in I,
         IsTable(table), Len(table) <= MaxEntries
  PROVE  /\ Record(table, x, y) \in Seq([old : I, new : I])
         /\ IsTable(Record(table, x, y))
         /\ Len(Record(table, x, y)) <= MaxEntries
         /\ Entries(Record(table, x, y)) \subseteq Entries(table) \cup {[old |-> x, new |-> y]}
<1> DEFINE E == [old : I, new : I]
           e == [old |-> x, new |-> y]
           kept == Without(table, x)
           longer == Append(kept, e)
<1>1. CASE x = y
  BY <1>1 DEF Record
<1>2. CASE x # y
  <2>1. e \in E /\ e.old = x
    OBVIOUS
  <2>2. /\ kept \in Seq(E)
        /\ Len(kept) <= Len(table)
        /\ Entries(kept) \subseteq Entries(table)
        /\ IsTable(kept)
        /\ x \notin Olds(kept)
    BY WithoutProperties
  <2>3. Record(table, x, y) = IF Len(longer) > MaxEntries THEN Tail(longer) ELSE longer
    BY <1>2 DEF Record
  <2> HIDE DEF E, e, kept
  <2>4. /\ longer \in Seq(E)
        /\ Len(longer) = Len(kept) + 1
        /\ Entries(longer) = Entries(kept) \cup {e}
        /\ IsTable(longer)
        /\ longer # <<>>
    BY <2>1, <2>2, AppendEntry
  <2> HIDE DEF longer
  <2>5. /\ Tail(longer) \in Seq(E)
        /\ Len(Tail(longer)) = Len(longer) - 1
        /\ Entries(Tail(longer)) \subseteq Entries(longer)
        /\ IsTable(Tail(longer))
    BY <2>4, TailProperties
  <2>6. Len(kept) \in Nat /\ Len(table) \in Nat
    BY <2>2, LenProperties
  <2>7. /\ Record(table, x, y) \in Seq(E)
        /\ IsTable(Record(table, x, y))
        /\ Len(Record(table, x, y)) <= MaxEntries
        /\ Entries(Record(table, x, y)) \subseteq Entries(table) \cup {e}
    BY <2>2, <2>3, <2>4, <2>5, <2>6
  <2> QED
    BY <2>7 DEF E, e
<1> QED
  BY <1>1, <1>2

-----------------------------------------------------------------------------
LEMMA EmptyTable ==
  ASSUME NEW E
  PROVE  /\ << >> \in Seq(E) /\ Len(<< >>) <= MaxEntries
         /\ Entries(<< >>) = {} /\ IsTable(<< >>)
<1>1. << >> \in Seq(E)
  BY EmptySeq
<1>2. Len(<< >>) = 0
  OBVIOUS
<1>3. DOMAIN << >> = {}
  OBVIOUS
<1>4. Len(<< >>) <= MaxEntries
  BY <1>2
<1> QED BY <1>1, <1>3, <1>4 DEF Entries, IsTable

-----------------------------------------------------------------------------
(* Where redirects lead that lead forward only.                            *)

\* S has id and follows the redirects.
Closed(table, id, S) ==
    id \in S /\ \A e \in Entries(table) : e.old \in S => e.new \in S

\* From id the redirects lead, forward only, to here; each id before it on
\* the way has a redirect to the next one, and no other way joins this one.
Leads(table, id, here) ==
    LET way == Chain(table, id)
    IN  /\ here \in way \ Olds(table)
        /\ way \ {here} \subseteq Olds(table)
        /\ \A e \in Entries(table) :
              /\ e.old < e.new /\ e.new <= here
              /\ e.new \in way => e.old \in way
              /\ e.old \in way => \A z \in way : z <= e.old \/ e.new <= z

LEMMA ChainWithin ==
  ASSUME NEW table, NEW id, NEW S, Closed(table, id, S)
  PROVE  Chain(table, id) \subseteq S
<1> DEFINE nodes == {id} \cup UNION {{e.old, e.new} : e \in Entries(table)}
<1>1. S \cap nodes \in SUBSET nodes /\ Closed(table, id, S \cap nodes)
  BY DEF Closed
<1> QED BY <1>1 DEF Chain, Closed

LEMMA InChain ==
  ASSUME NEW table, NEW id, NEW x, \A S : Closed(table, id, S) => x \in S
  PROVE  x \in Chain(table, id)
<1> DEFINE nodes == {id} \cup UNION {{e.old, e.new} : e \in Entries(table)}
<1>1. Closed(table, id, nodes)
  BY DEF Closed
<1> QED BY <1>1 DEF Chain, Closed

LEMMA ChainCloses ==
  ASSUME NEW table, NEW id
  PROVE  Closed(table, id, Chain(table, id))
<1>1. id \in Chain(table, id)
  BY InChain DEF Closed
<1>2. ASSUME NEW e \in Entries(table), e.old \in Chain(table, id)
      PROVE  e.new \in Chain(table, id)
  <2>1. ASSUME NEW S, Closed(table, id, S) PROVE e.new \in S
    <3>1. e.old \in S
      BY <1>2, <2>1, ChainWithin
    <3> QED BY <2>1, <3>1 DEF Closed
  <2> QED BY <2>1, InChain
<1> QED BY <1>1, <1>2 DEF Closed

\* An id that leads somewhere resolves to that.
LEMMA LeadsThere ==
  ASSUME NEW table, NEW id, NEW here, Leads(table, id, here)
  PROVE  Resolve(table, id) = here
<1>1. Chain(table, id) \ Olds(table) = {here}
  BY DEF Leads
<1> QED BY <1>1 DEF Resolve

\* What resolves to the same is on the way.
LEMMA OnTheWay ==
  ASSUME NEW table, NEW id, NEW here, NEW x, Leads(table, id, here),
         Resolve(table, x) = here
  PROVE  x \in Chain(table, id)
<1> DEFINE way == Chain(table, id)
           others == {y \in {x} \cup UNION {{e.old, e.new} : e \in Entries(table)} : y \notin way}
<1> SUFFICES ASSUME x \notin way PROVE FALSE
  OBVIOUS
<1>1. Closed(table, x, others)
  BY DEF Closed, Leads
<1>2. Resolve(table, x) \in others
  BY <1>1, ResolveStays DEF Closed
<1> QED BY <1>2 DEF Leads

\* A table has no more entries than ids.
LEMMA TableSize ==
  ASSUME NEW E, NEW table \in Seq(E), IsTable(table), NEW S, IsFiniteSet(S), Olds(table) \subseteq S
  PROVE  Len(table) <= Cardinality(S)
<1> DEFINE n == Len(table)
           f == [i \in 1..n |-> table[i].old]
<1>1. n \in Nat /\ DOMAIN table = 1..n
  BY LenProperties
<1>2. f \in Injection(1..n, S)
  <2>1. \A i \in 1..n : table[i].old \in S
    BY <1>1 DEF Olds, Entries
  <2>2. \A i, j \in 1..n : table[i].old = table[j].old => i = j
    BY <1>1 DEF IsTable
  <2>3. f \in [1..n -> S] /\ \A i, j \in 1..n : f[i] = f[j] => i = j
    BY <2>1, <2>2
  <2> QED BY <2>3 DEF Injection, IsInjective
<1>3. Cardinality(1..n) <= Cardinality(S)
  BY <1>2, FS_Injection
<1>4. Cardinality(1..n) = n
  BY <1>1, FS_Interval
<1> QED BY <1>3, <1>4

LEMMA WithoutKeeps ==
  ASSUME NEW E, NEW table \in Seq(E), NEW id, IsTable(table)
  PROVE  \A e \in Entries(table) : e.old # id => e \in Entries(Without(table, id))
<1>1. Len(table) \in Nat /\ DOMAIN table = 1..Len(table)
  BY LenProperties
<1>2. CASE id \notin Olds(table)
  BY <1>2 DEF Without
<1>3. CASE id \in Olds(table)
  <2> DEFINE i == CHOOSE i \in DOMAIN table : table[i].old = id
             rest == DropAt(table, i)
  <2>1. i \in DOMAIN table /\ table[i].old = id
    BY <1>3 DEF Olds, Entries
  <2>2. Without(table, id) = rest
    BY <1>3 DEF Without
  <2>3. /\ DOMAIN rest = 1..(Len(table) - 1)
        /\ \A j \in 1..(Len(table) - 1) :
             rest[j] = IF j < i THEN table[j] ELSE table[j + 1]
    BY DEF DropAt
  <2> HIDE DEF i, rest
  <2>4. ASSUME NEW j \in DOMAIN table, j # i
        PROVE  \E k \in DOMAIN rest : rest[k] = table[j]
    <3>1. CASE j < i
      <4>1. j \in 1..(Len(table) - 1)
        BY <1>1, <2>1, <3>1
      <4> QED BY <2>3, <3>1, <4>1
    <3>2. CASE j > i
      <4>1. j - 1 \in 1..(Len(table) - 1) /\ ~(j - 1 < i) /\ (j - 1) + 1 = j
        BY <1>1, <2>1, <3>2
      <4> QED BY <2>3, <4>1
    <3> QED BY <1>1, <2>1, <2>4, <3>1, <3>2
  <2> QED BY <2>1, <2>2, <2>4 DEF Entries
<1> QED BY <1>2, <1>3

\* What record() leaves while there is room for the ids that have redirects:
\* the other ids' entries and the new one.
LEMMA RecordsEntryOf ==
  ASSUME NEW I, NEW table \in Seq([old : I, new : I]), IsTable(table),
         NEW D, IsFiniteSet(D), Cardinality(D) <= MaxEntries, Olds(table) \subseteq D,
         NEW x \in I, x \in D, NEW y \in I, x # y
  PROVE  Entries(Record(table, x, y))
           = {e \in Entries(table) : e.old # x} \cup {[old |-> x, new |-> y]}
<1> DEFINE E == [old : I, new : I]
           new == [old |-> x, new |-> y]
           kept == Without(table, x)
           longer == Append(kept, new)
<1>1. /\ kept \in Seq(E) /\ IsTable(kept)
      /\ x \notin Olds(kept)
      /\ Entries(kept) = {e \in Entries(table) : e.old # x}
  BY WithoutProperties, WithoutKeeps DEF Olds
<1>2. new \in E /\ new.old = x
  OBVIOUS
<1> HIDE DEF E, kept, new
<1>3. /\ longer \in Seq(E)
      /\ Entries(longer) = Entries(kept) \cup {new}
      /\ IsTable(longer)
  BY <1>1, <1>2, AppendEntry
<1> HIDE DEF longer
<1>4. Olds(longer) \subseteq D
  BY <1>1, <1>2, <1>3 DEF Olds
<1>5. Len(longer) <= Cardinality(D)
  BY <1>3, <1>4, TableSize
<1>6. ~(Len(longer) > MaxEntries)
  <2>1. Len(longer) \in Nat /\ Cardinality(D) \in Nat
    BY <1>3, LenProperties, FS_CardinalityType
  <2> QED BY <1>5, <2>1, RedirectAssumption
<1>7. Record(table, x, y) = longer
  BY <1>6 DEF Record, longer, kept, new
<1> QED BY <1>1, <1>3, <1>7 DEF new

LEMMA RecordsEntry ==
  ASSUME NEW I, NEW table \in Seq([old : I, new : I]), IsTable(table),
         NEW x \in I, NEW y \in I, x # y, IsFiniteSet(I), Cardinality(I) <= MaxEntries
  PROVE  Entries(Record(table, x, y))
           = {e \in Entries(table) : e.old # x} \cup {[old |-> x, new |-> y]}
<1>1. Olds(table) \subseteq I
  <2>1. \A i \in DOMAIN table : table[i] \in [old : I, new : I]
    BY ElementOfSeq, LenProperties
  <2> QED BY <2>1 DEF Olds, Entries
<1> QED BY <1>1, RecordsEntryOf

\* Nothing on the way is later than its end.
LEMMA LeadsUp ==
  ASSUME NEW I \in SUBSET Int, NEW id \in I, NEW here \in I,
         NEW table \in Seq([old : I, new : I]), Leads(table, id, here),
         NEW z \in Chain(table, id)
  PROVE  z \in I /\ z <= here
<1>1. \A e \in Entries(table) : e.old \in I /\ e.new \in I
  <2>1. \A i \in DOMAIN table : table[i] \in [old : I, new : I]
    BY ElementOfSeq, LenProperties
  <2> QED BY <2>1 DEF Entries
<1>2. z \in I
  <2>1. Closed(table, id, I)
    BY <1>1 DEF Closed
  <2> QED BY <2>1, ChainWithin
<1>3. z = here \/ \E e \in Entries(table) : e.old = z
  BY DEF Leads, Olds
<1>4. \A e \in Entries(table) : e.old <= here
  <2>1. \A e \in Entries(table) : e.old \in Int /\ e.new \in Int /\ here \in Int
    BY <1>1
  <2> QED BY <2>1 DEF Leads
<1>5. here <= here
  OBVIOUS
<1> QED BY <1>2, <1>3, <1>4, <1>5

\* A redirect from an id on the way to a later one than all prolongs the way.
LEMMA RecordLeads ==
  ASSUME NEW I \in SUBSET Int, NEW id \in I, NEW here \in I,
         NEW table \in Seq([old : I, new : I]), Leads(table, id, here),
         NEW x \in Chain(table, id), NEW y \in I, here < y,
         NEW table2,
         Entries(table2) = {e \in Entries(table) : e.old # x} \cup {[old |-> x, new |-> y]}
  PROVE  Leads(table2, id, y)
<1> DEFINE way == Chain(table, id)
           way2 == Chain(table2, id)
           new == [old |-> x, new |-> y]
<1>1. \A e \in Entries(table) : e.old \in I /\ e.new \in I /\ e.old \in Int /\ e.new \in Int
  <2>1. \A i \in DOMAIN table : table[i] \in [old : I, new : I]
    BY ElementOfSeq, LenProperties
  <2> QED BY <2>1 DEF Entries
<1>2. way \subseteq I /\ x \in Int /\ y \in Int /\ here \in Int
  BY LeadsUp
<1>3. \A z \in way : z <= here
  BY LeadsUp
<1>4. x < y /\ id \in way /\ \A e \in Entries(table) : e.old \in way => e.new \in way
  BY <1>2, <1>3, ChainCloses DEF Closed
<1>5. way2 \subseteq {z \in way : z <= x} \cup {y}
  <2>1. id <= x
    <3> DEFINE S == {z \in way : id <= z}
    <3>1. Closed(table, id, S)
      BY <1>1, <1>2, <1>4 DEF Closed, Leads
    <3> QED BY <3>1, ChainWithin
  <2> DEFINE S == {z \in way : z <= x} \cup {y}
  <2>2. ASSUME NEW e \in Entries(table2), e.old \in S
        PROVE  e.new \in S
    <3>1. CASE e = new
      BY <3>1
    <3>2. CASE e \in Entries(table) /\ e.old # x
      <4>1. e.old # y
        BY <1>1, <1>2, <3>2 DEF Leads
      <4>2. e.old \in way /\ e.old <= x
        BY <2>2, <4>1
      <4>3. e.new \in way /\ e.old < x
        BY <1>1, <1>2, <1>4, <3>2, <4>2
      <4>4. e.new <= x
        BY <1>1, <1>2, <3>2, <4>2, <4>3 DEF Leads
      <4> QED BY <4>3, <4>4
    <3>3. e = new \/ (e \in Entries(table) /\ e.old # x)
      BY <2>2
    <3> QED BY <3>1, <3>2, <3>3
  <2>3. Closed(table2, id, S)
    BY <1>4, <2>1, <2>2 DEF Closed
  <2> QED BY <2>3, ChainWithin
<1>6. {z \in way : z <= x} \cup {y} \subseteq way2
  <2>1. ASSUME NEW S, Closed(table2, id, S), NEW z \in way, z <= x
        PROVE  z \in S
    <3> DEFINE T == S \cup {w \in I : x < w}
    <3>1. ASSUME NEW e \in Entries(table), e.old \in T PROVE e.new \in T
      <4>1. CASE x <= e.old
        BY <1>1, <1>2, <4>1 DEF Leads
      <4>2. CASE e.old < x
        <5>1. e.old \in S /\ e \in Entries(table2)
          BY <1>1, <1>2, <3>1, <4>2
        <5> QED BY <2>1, <5>1 DEF Closed
      <4> QED BY <1>1, <1>2, <4>1, <4>2
    <3>2. Closed(table, id, T)
      BY <2>1, <3>1 DEF Closed
    <3>3. z \in T
      BY <3>2, ChainWithin
    <3> QED BY <1>2, <2>1, <3>3
  <2>2. \A z \in way : z <= x => z \in way2
    BY <2>1, InChain
  <2>3. x \in way2
    BY <1>2, <2>2
  <2>4. new \in Entries(table2) /\ new.old = x /\ new.new = y
    OBVIOUS
  <2>5. y \in way2
    BY <2>3, <2>4, ChainCloses DEF Closed
  <2> QED BY <2>2, <2>5
<1>7. way2 = {z \in way : z <= x} \cup {y}
  BY <1>5, <1>6
<1> HIDE DEF way2
<1>8. ASSUME NEW e \in Entries(table2)
      PROVE  /\ e.old < e.new /\ e.new <= y /\ e.old # y
             /\ e.new \in way2 => e.old \in way2
             /\ e.old \in way2 => \A z \in way2 : z <= e.old \/ e.new <= z
  <2>1. CASE e = new
    BY <1>2, <1>3, <1>4, <1>7, <2>1
  <2>2. CASE e \in Entries(table) /\ e.old # x
    <3>1. e.old < e.new /\ e.new <= here /\ e.new < y /\ e.old < y
      BY <1>1, <1>2, <2>2 DEF Leads
    <3>2. e.old \in Int /\ e.new \in Int /\ e.old # x
      BY <1>1, <2>2
    <3>3. e.new \in way2 => e.old \in way2
      BY <1>2, <1>7, <2>2, <3>1, <3>2 DEF Leads
    <3>4. ASSUME e.old \in way2, NEW z \in way2 PROVE z <= e.old \/ e.new <= z
      <4>1. e.old \in way
        BY <1>2, <1>7, <3>1, <3>2, <3>4
      <4>2. CASE z = y
        BY <1>2, <3>1, <3>2, <4>2
      <4>3. CASE z \in way
        BY <2>2, <4>1, <4>3 DEF Leads
      <4> QED BY <1>7, <4>2, <4>3
    <3> QED BY <1>2, <3>1, <3>2, <3>3, <3>4
  <2> QED BY <1>8, <2>1, <2>2
<1>9. y \in way2 \ Olds(table2)
  BY <1>7, <1>8 DEF Olds
<1>10. way2 \ {y} \subseteq Olds(table2)
  <2>1. ASSUME NEW z \in way2, z # y PROVE z \in Olds(table2)
    <3>1. z \in way /\ z <= x
      BY <1>7, <2>1
    <3>2. CASE z = x
      BY <3>2 DEF Olds
    <3>3. CASE z # x
      <4>1. z < here
        BY <1>2, <1>3, <3>1, <3>3
      <4>2. z \in Olds(table)
        BY <1>2, <3>1, <4>1 DEF Leads
      <4> QED BY <3>3, <4>2 DEF Olds
    <3> QED BY <3>2, <3>3
  <2> QED BY <2>1
<1> QED BY <1>8, <1>9, <1>10 DEF Leads, way2

-----------------------------------------------------------------------------
(* Chains in general: where they part, where they end.                     *)

LEMMA OneEntry ==
  ASSUME NEW table, IsTable(table), NEW d \in Entries(table), NEW e \in Entries(table),
         d.old = e.old
  PROVE  d = e
BY DEF IsTable, Entries

LEMMA EndOfChain ==
  ASSUME NEW table, NEW id, id \notin Olds(table)
  PROVE  Chain(table, id) = {id}
<1>1. Closed(table, id, {id})
  BY DEF Closed, Olds
<1> QED BY <1>1, ChainWithin, ChainCloses DEF Closed

LEMMA ChainTransitive ==
  ASSUME NEW table, NEW id, NEW x \in Chain(table, id)
  PROVE  Chain(table, x) \subseteq Chain(table, id)
<1>1. Closed(table, x, Chain(table, id))
  BY ChainCloses DEF Closed
<1> QED BY <1>1, ChainWithin

\* What is on a chain but does not start it comes after another id on it.
LEMMA ChainStep ==
  ASSUME NEW table, NEW id, NEW x \in Chain(table, id), x # id
  PROVE  \E e \in Entries(table) : e.new = x /\ e.old \in Chain(table, id)
<1> SUFFICES ASSUME \A e \in Entries(table) : e.old \in Chain(table, id) => e.new # x
             PROVE  FALSE
  OBVIOUS
<1>1. Closed(table, id, Chain(table, id) \ {x})
  BY ChainCloses DEF Closed
<1> QED BY <1>1, ChainWithin

LEMMA ChainFrom ==
  ASSUME NEW table, IsTable(table), NEW e \in Entries(table)
  PROVE  Chain(table, e.old) \subseteq {e.old} \cup Chain(table, e.new)
<1> DEFINE S == {e.old} \cup Chain(table, e.new)
<1>1. ASSUME NEW d \in Entries(table), d.old \in S PROVE d.new \in S
  <2>1. CASE d.old = e.old
    <3>1. d = e
      BY <2>1, OneEntry
    <3> QED BY <3>1, ChainCloses DEF Closed
  <2>2. CASE d.old \in Chain(table, e.new)
    BY <2>2, ChainCloses DEF Closed
  <2> QED BY <1>1, <2>1, <2>2
<1>2. Closed(table, e.old, S)
  BY <1>1 DEF Closed
<1> QED BY <1>2, ChainWithin

LEMMA OneEnd ==
  ASSUME NEW table, IsTable(table), NEW id,
         NEW y \in Chain(table, id) \ Olds(table), NEW z \in Chain(table, id) \ Olds(table)
  PROVE  y = z
<1> DEFINE S == {w \in Chain(table, id) : y \in Chain(table, w)}
<1>1. ASSUME NEW e \in Entries(table), e.old \in S PROVE e.new \in S
  <2>1. e.new \in Chain(table, id)
    BY <1>1, ChainCloses DEF Closed
  <2>2. y # e.old
    BY DEF Olds
  <2>3. y \in Chain(table, e.new)
    BY <1>1, <2>2, ChainFrom
  <2> QED BY <2>1, <2>3
<1>2. id \in S
  BY ChainCloses DEF Closed
<1>3. Closed(table, id, S)
  BY <1>1, <1>2 DEF Closed
<1>4. y \in Chain(table, z)
  BY <1>3, ChainWithin
<1> QED BY <1>4, EndOfChain

\* A redirect from elsewhere keeps a chain.
LEMMA ChainKept ==
  ASSUME NEW table, NEW id, NEW x, x \notin Chain(table, id), NEW table2,
         \A e \in Entries(table) : e.old # x => e \in Entries(table2)
  PROVE  Chain(table, id) \subseteq Chain(table2, id)
<1>1. Closed(table, id, Chain(table, id) \cap Chain(table2, id))
  BY ChainCloses DEF Closed
<1> QED BY <1>1, ChainWithin

\* The chain of an id that no redirect leads to has an end, if no two
\* redirects lead to the same id.
LEMMA ChainEnds ==
  ASSUME NEW table, NEW id, NEW D, IsFiniteSet(D), Olds(table) \subseteq D,
         \A d, e \in Entries(table) : d.new = e.new => d = e,
         \A e \in Entries(table) : e.new # id
  PROVE  Resolve(table, id) \in Chain(table, id) \ Olds(table)
<1> DEFINE way == Chain(table, id)
           rest == way \ {id}
           entry(x) == CHOOSE e \in Entries(table) : e.old = x
           f == [x \in way |-> entry(x).new]
<1>1. ASSUME way \subseteq Olds(table) PROVE FALSE
  <2>1. \A x \in way : entry(x) \in Entries(table) /\ entry(x).old = x
    BY <1>1 DEF Olds
  <2>2. id \in way
    BY ChainCloses DEF Closed
  <2> HIDE DEF entry
  <2>3. f \in [way -> rest]
    BY <2>1, ChainCloses DEF Closed
  <2>4. IsFiniteSet(way)
    BY <1>1, FS_Subset
  <2> HIDE DEF way
  <2>5. IsFiniteSet(rest) /\ Cardinality(rest) = Cardinality(way) - 1
    BY <2>2, <2>4, FS_RemoveElement
  <2>6. Cardinality(rest) < Cardinality(way)
    BY <2>4, <2>5, FS_CardinalityType
  <2> HIDE DEF rest
  <2>7. \E x, y \in way : x # y /\ f[x] = f[y]
    <3> HIDE DEF f
    <3> QED BY <2>3, <2>4, <2>5, <2>6, FS_PigeonHole
  <2> QED BY <2>1, <2>7
<1> QED BY <1>1 DEF Resolve
=============================================================================
