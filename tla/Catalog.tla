------------------------------- MODULE Catalog -------------------------------
(***************************************************************************)
(* InstrumentCatalog (src/catalog.cpp): a table of exact identities, built *)
(* once from definitions or from a CSV file and read by every lane.        *)
(*                                                                         *)
(* An identity is a market, a source and a security.  A text is a record   *)
(* of its size and its content; contents are model values, and of equal    *)
(* size if they are equal.  The hash is any function of identities.  The   *)
(* object under construction is seen by nobody else: a step per definition *)
(* is only the loop of Build.                                              *)
(***************************************************************************)
EXTENDS Integers, Sequences, OpenAddressing

CONSTANTS
  MaximumIdentityBytes,   \* kMaximumIdentityBytes
  DefinitionLists,        \* lists of definitions handed to Build, rows of a file
  Hashes                  \* functions of identities: what HashIdentity may compute

Identity(d) == <<d.market, d.source, d.security>>

\* A row of a file is a definition with its number of columns and whether its id is
\* a number.
IdentityText == [content : STRING, size : Nat, printable : BOOLEAN]
Row == [columns : Nat, number : BOOLEAN, id : Nat, market : STRING, source : IdentityText,
        security : IdentityText]

\* What Build asks of one definition, apart from the others.
WellFormed(d) ==
  /\ d.id # 0
  /\ d.market \in {"SH", "SZ"}
  /\ d.security.size \in 1..MaximumIdentityBytes /\ d.source.size <= MaximumIdentityBytes
  /\ d.security.printable /\ d.source.printable
  /\ (d.market = "SH") = (d.source.size = 0)

\* The loop that doubles the size of the table ends at twice the entries or above.
ASSUME CatalogAssumption ==
  /\ MaximumIdentityBytes \in Nat \ {0}
  /\ \A list \in DefinitionLists :
       /\ list \in Seq(Row)
       /\ list # <<>> => /\ TableSize(Len(list)) \in Nat
                         /\ TableSize(Len(list)) >= 2 * Len(list)
       /\ \A h \in Hashes : \A i \in 1..Len(list) :
            WellFormed(list[i]) => Identity(list[i]) \in DOMAIN h
  /\ \A h \in Hashes : \A identity \in DOMAIN h :
       h[identity] \in Nat /\ identity \in STRING \X IdentityText \X IdentityText

\* What LoadCsv asks of a row before there is a definition.
RowAccepted(row) == row.columns = 4 /\ row.number /\ row.market \in {"SH", "SZ"}

\* The home cell of an identity in a table.
Home(table, h, identity) == h[identity] % Cardinality(DOMAIN table)

\* The entries of a table that hold an identity.
EntriesOf(entries, identity) == {i \in DOMAIN entries : Identity(entries[i]) = identity}

VARIABLES
  file,          \* where the definitions come from: "none", or a CSV file whose
                 \* header has the required "schema" or some "other"
  definitions,   \* handed to Build
  hash,          \* what HashIdentity computes of identities; empty before Build
  catalog        \* the catalog: is it accepted so far, its entries and its table

catalogVars == <<file, definitions, hash, catalog>>

\* A catalog that was not built: nothing is found in it.
Refused == [built |-> FALSE, entries |-> <<>>, table |-> <<>>]

CatalogInit ==
  /\ file = "none" /\ definitions = <<>> /\ hash = <<>> /\ catalog = Refused

Unused == file = "none" /\ hash = <<>>
Finished == catalog.built => Len(catalog.entries) = Len(definitions)

\* Build before its loop, given the definitions.
BeginBuild(list) ==
  catalog' = IF list = <<>> THEN Refused
             ELSE [built |-> TRUE, entries |-> <<>>, table |-> EmptyTable(Len(list))]

Build(list, h) ==
  /\ Unused /\ definitions' = list /\ hash' = h
  /\ BeginBuild(list)
  /\ UNCHANGED file

\* A file with another header, or with a row that is none, is refused as a whole.
LoadCsv(header, rows, h) ==
  /\ Unused /\ file' = header /\ definitions' = rows /\ hash' = h
  /\ IF header # "schema" \/ \E i \in DOMAIN rows : ~RowAccepted(rows[i])
       THEN catalog' = Refused ELSE BeginBuild(rows)

\* The loop of Build: the next definition is checked, and placed in the free cell
\* its probe ends at, or refused because the probe ends at its own identity.
AddDefinition ==
  /\ ~Finished
  /\ LET index == Len(catalog.entries) + 1
         d == definitions[index]
         cell == Probe(catalog.table, Home(catalog.table, hash, Identity(d)),
                       EntriesOf(catalog.entries, Identity(d)))
     IN  IF ~WellFormed(d) \/ (\E e \in DOMAIN catalog.entries : catalog.entries[e].id = d.id)
            \/ catalog.table[cell] # 0
           THEN catalog' = Refused
           ELSE catalog' = [built |-> TRUE, entries |-> Append(catalog.entries, d),
                            table |-> [catalog.table EXCEPT ![cell] = index]]
  /\ UNCHANGED <<file, definitions, hash>>

\* Another catalog object.
NewCatalog ==
  /\ Finished
  /\ file' = "none" /\ definitions' = <<>> /\ hash' = <<>> /\ catalog' = Refused

CatalogNext ==
  \/ \E list \in DefinitionLists, h \in Hashes :
       Build(list, h) \/ \E header \in {"schema", "other"} : LoadCsv(header, list, h)
  \/ AddDefinition
  \/ NewCatalog

CatalogSpec == CatalogInit /\ [][CatalogNext]_catalogVars

\* The definition found for an identity, or nothing; also of a catalog that was
\* never built, whose table is empty.
Find(identity) ==
  LET security == identity[3]
      source == identity[2]
      cell == Probe(catalog.table, Home(catalog.table, hash, identity),
                    EntriesOf(catalog.entries, identity))
  IN  IF \/ ~catalog.built \/ security.size = 0
         \/ source.size > MaximumIdentityBytes \/ security.size > MaximumIdentityBytes
         \/ cell \notin DOMAIN catalog.table \/ catalog.table[cell] = 0
        THEN {}
        ELSE {[id |-> catalog.entries[catalog.table[cell]].id,
               ordinal |-> catalog.table[cell] - 1]}

-----------------------------------------------------------------------------
(* Properties. *)

\* The definitions a catalog may be built from: each well formed, no two with an id
\* or an identity in common, and a file's rows all read.
Acceptable ==
  /\ definitions # <<>>
  /\ \A i \in DOMAIN definitions : WellFormed(definitions[i])
  /\ \A i, j \in DOMAIN definitions : i # j =>
       /\ definitions[i].id # definitions[j].id
       /\ Identity(definitions[i]) # Identity(definitions[j])
  /\ file # "none" =>
       file = "schema" /\ \A i \in DOMAIN definitions : RowAccepted(definitions[i])

\* Whatever the hash is, colliding at the end of the table too: Build and LoadCsv
\* accept exactly the acceptable definitions, and then Find returns the one definition
\* with exactly that identity, and nothing for any other or from a refused catalog.
FindAgrees ==
  Finished =>
    /\ catalog.built <=> Acceptable
    /\ \A identity \in DOMAIN hash :
         Find(identity) =
           {[id |-> definitions[i].id, ordinal |-> i - 1] :
              i \in {j \in DOMAIN definitions :
                       catalog.built /\ Identity(definitions[j]) = identity}}
=============================================================================
