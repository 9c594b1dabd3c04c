----------------------------- MODULE IdRedirect -----------------------------
(***************************************************************************)
(* The table of id_redirect.py for one account: a dict in insertion order, *)
(* here the sequence of its entries.                                       *)
(***************************************************************************)
EXTENDS Integers, Sequences

CONSTANT MaxEntries   \* max_entries_per_account

ASSUME RedirectAssumption == MaxEntries \in Nat \ {0}

Entries(table) == {table[i] : i \in DOMAIN table}
Olds(table) == {e.old : e \in Entries(table)}

\* Every id occurs once as a key.
IsTable(table) ==
    \A i, j \in DOMAIN table : table[i].old = table[j].old => i = j

DropAt(table, i) ==
    [j \in 1..(Len(table) - 1) |-> IF j < i THEN table[j] ELSE table[j + 1]]

Without(table, id) ==
    IF id \in Olds(table)
      THEN DropAt(table, CHOOSE i \in DOMAIN table : table[i].old = id)
      ELSE table

\* The new entry is the youngest; the oldest one makes room for it.
Record(table, old, new) ==
    IF old = new THEN table
    ELSE LET longer == Append(Without(table, old), [old |-> old, new |-> new])
         IN IF Len(longer) > MaxEntries THEN Tail(longer) ELSE longer

\* The ids on the redirect chain that starts with id: those in every set
\* that has id and follows the entries.
Chain(table, id) ==
    LET nodes == {id} \cup UNION {{e.old, e.new} : e \in Entries(table)}
        Follows(S) == id \in S /\ \A e \in Entries(table) : e.old \in S => e.new \in S
    IN {x \in nodes : \A S \in SUBSET nodes : Follows(S) => x \in S}

\* The end of the chain, or id itself if it runs in a cycle.
Resolve(table, id) ==
    LET ends == Chain(table, id) \ Olds(table)
    IN IF ends = {} THEN id ELSE CHOOSE x \in ends : TRUE
=============================================================================
