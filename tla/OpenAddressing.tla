--------------------------- MODULE OpenAddressing ---------------------------
(***************************************************************************)
(* The hash table of SequenceRecovery::FindOrCreate (src/engine.cpp) and   *)
(* of InstrumentCatalog (src/catalog.cpp): a power of two of cells, probed *)
(* from the home cell of a hash around the end.  A cell holds the index of *)
(* an entry, counted from 1, or 0.                                         *)
(***************************************************************************)
EXTENDS Naturals, FiniteSetsExt

\* The smallest power of two that is at least twice the number of entries.
TableSize(entries) ==
  Min({2 ^ k : k \in {j \in 0..entries : 2 ^ j >= 2 * entries}})

EmptyTable(entries) == [cell \in 0..(TableSize(entries) - 1) |-> 0]

\* How far a cell is from the home cell of a hash.
ProbeDistance(table, hash, cell) ==
  (Cardinality(DOMAIN table) + cell - hash) % Cardinality(DOMAIN table)

\* Mutant: only the home cell is compared with the entry looked for.
StopsAtHome(table, hash, hits) ==
  {cell \in DOMAIN table : table[cell] = 0 \/ (cell = hash /\ table[cell] \in hits)}

\* The cells where a probe may end: free, or holding one of the entries looked for.
Stops(table, hash, hits) == {cell \in DOMAIN table : table[cell] \in {0} \cup hits}

\* The first such cell in probing order; the size of the table if there is none.
Probe(table, hash, hits) ==
  LET First(stops) == CHOOSE cell \in stops : \A other \in stops :
                        ProbeDistance(table, hash, cell) <= ProbeDistance(table, hash, other)
  IN  IF Stops(table, hash, hits) = {} THEN Cardinality(DOMAIN table)
      ELSE First(Stops(table, hash, hits))
=============================================================================
