-------------------------------- MODULE Catalog --------------------------------
(***************************************************************************)
(* Products, customers and suppliers: made and changed one by one,         *)
(* products imported row by row from a file, and all of them exported to a *)
(* backup and restored from it, matched by what names them.  An import may *)
(* die between two rows and be repeated.                                   *)
(***************************************************************************)
EXTENDS Integers, FiniteSets, Sequences

CONSTANTS
  Keys,       \* what names a record: a product's sku, a customer's email, a supplier's name
  Values,     \* what else a form holds
  Codes,      \* barcodes, or phone numbers: what a record may lack
  Files,      \* the files that may be imported: sequences of [key, value, count, code]; a row whose
              \* value is none of Values is not readable
  MaxEntries, \* bound
  MaxRequested  \* bound: requests other than backups

Kinds == {"product", "customer", "supplier"}
NoCode == "no code"   \* no such field
Blank == "blank"      \* the field is there, with nothing in it
NoColumn == -1

ASSUME CatalogAssumption ==
  /\ MaxEntries \in Nat /\ MaxRequested \in Nat
  /\ \A f \in Files :
       /\ f \in Seq({f[n] : n \in DOMAIN f})
       /\ \A n \in DOMAIN f : /\ f[n].key \in Keys /\ f[n].code \in Codes \cup {NoCode}
                              /\ f[n].count \in Nat \cup {NoColumn}

NoFile == <<>>
NoBackup == "no backup"

VARIABLES
  records,  \* [kind, key, value, count, code, active]; count is a product's stock or what is owed
  creating, \* products checked and not stored yet: [key, value, count, code]
  file,     \* imported last
  row,      \* its next row; 0 when it ended, -1 when it died
  failed,   \* whether the import has told of a row that failed
  before,   \* records as they were when it was first imported, while nothing else has changed them
  backup,
  requested

catalogVars == <<records, creating, file, row, failed, before, backup, requested>>

Untold == "untold"

CatalogInit ==
  /\ records = <<>> /\ creating = {}
  /\ file = NoFile /\ row = 0 /\ failed = FALSE /\ before = Untold
  /\ backup = NoBackup
  /\ requested = 0

Change ==
  /\ requested < MaxRequested
  /\ requested' = requested + 1
  /\ before' = Untold
NoImport == UNCHANGED <<file, row, failed>>

Of(recs, kind, key) == {i \in DOMAIN recs : recs[i].kind = kind /\ recs[i].key = key}
FirstOf(s) == CHOOSE i \in s : \A j \in s : i <= j
Record(kind, key, value, count, code) ==
  [kind |-> kind, key |-> key, value |-> value, count |-> count, code |-> code, active |-> TRUE]
-----------------------------------------------------------------------------
(* One by one *)

CodeTaken(code) == code # NoCode /\ \E i \in DOMAIN records : records[i].code = code

\* createProduct, up to its insert.
createProduct(p) ==
  /\ Change
  /\ Of(records, "product", p.key) = {} /\ ~CodeTaken(p.code)
  /\ creating' = creating \cup {p}
  /\ UNCHANGED <<records, backup>> /\ NoImport

\* The index on organization and sku.
Inserts(p) == Of(records, "product", p.key) = {}

StoreProduct(p) ==
  /\ creating' = creating \ {p}
  /\ IF Inserts(p)
     THEN /\ Len(records) < MaxEntries
          /\ records' = Append(records, Record("product", p.key, p.value, p.count, p.code))
     ELSE UNCHANGED records
  /\ before' = Untold
  /\ UNCHANGED <<backup, requested>> /\ NoImport

\* createCustomer and createSupplier: nothing keeps two apart, and nothing is owed yet.
createParty(kind, key, value, code) ==
  /\ Change
  /\ kind # "product" /\ Len(records) < MaxEntries
  /\ records' = Append(records, Record(kind, key, value, 0, code))
  /\ UNCHANGED <<creating, backup>> /\ NoImport

\* The documents are written with $set: a field that is not sent keeps what it has.
Kept(now, code) == IF code = NoCode THEN now ELSE code

\* updateProduct, updateCustomer, updateSupplier: neither the sku nor the stock nor what is owed.
updateRecord(i, key, value, code, active) ==
  /\ Change
  /\ records[i].kind = "product" => key = records[i].key
  /\ records' = [records EXCEPT ![i] = [kind |-> @.kind, key |-> key, value |-> value,
                                        count |-> @.count, code |-> Kept(@.code, code),
                                        active |-> active]]
  /\ UNCHANGED <<creating, backup>> /\ NoImport

\* deleteProduct, deleteCustomer, deleteSupplier.
deleteRecord(i) ==
  /\ Change
  /\ records' = [records EXCEPT ![i].active = FALSE]
  /\ UNCHANGED <<creating, backup>> /\ NoImport

\* A sale, a purchase or a payment elsewhere moves stock and what is owed.
Moves(i, d) ==
  /\ Change
  /\ records[i].active /\ records[i].count + d \in 0..2
  /\ records' = [records EXCEPT ![i].count = @ + d]
  /\ UNCHANGED <<creating, backup>> /\ NoImport
-----------------------------------------------------------------------------
(* Import *)

\* Mutant of ImportedOver: what the file counts comes on top of the stock.
ImportedOnTop(p, r) ==
  [p EXCEPT !.value = r.value, !.active = TRUE,
            !.count = IF r.count = NoColumn THEN @ ELSE @ + r.count,
            !.code = IF r.code = NoCode THEN @ ELSE r.code]

\* Only the columns of the file; a product that was deactivated is active again.
ImportedOver(p, r) ==
  [kind |-> p.kind, key |-> p.key, value |-> r.value, active |-> TRUE,
   count |-> IF r.count = NoColumn THEN p.count ELSE r.count,
   code |-> Kept(p.code, r.code)]

\* A barcode in use is not refused here.
Imported(recs, r) ==
  LET at == Of(recs, "product", r.key) IN
  IF r.value \notin Values THEN recs
  ELSE IF at # {} THEN [recs EXCEPT ![FirstOf(at)] = ImportedOver(@, r)]
  ELSE Append(recs, Record("product", r.key, r.value, IF r.count = NoColumn THEN 0 ELSE r.count,
                           r.code))

\* importProducts, and the same file again after it died.
importProducts(f) ==
  /\ requested < MaxRequested
  /\ requested' = requested + 1
  /\ row <= 0
  /\ file' = f /\ row' = 1 /\ failed' = FALSE
  /\ before' = IF before # Untold /\ f = file THEN before ELSE records
  /\ UNCHANGED <<records, creating, backup>>

ImportRow ==
  /\ row \in DOMAIN file
  /\ LET made == Imported(records, file[row]) IN
     /\ Len(made) <= MaxEntries
     /\ records' = made
  /\ row' = row + 1
  /\ UNCHANGED <<creating, file, failed, before, backup, requested>>

\* The database refuses a row, and the next one is tried.
RowFails ==
  /\ row \in DOMAIN file
  /\ row' = row + 1 /\ failed' = TRUE
  /\ UNCHANGED <<records, creating, file, before, backup, requested>>

ImportEnds ==
  /\ row > Len(file)
  /\ row' = 0
  /\ UNCHANGED <<records, creating, file, failed, before, backup, requested>>

\* The process dies. What was imported stays, and what was checked is never stored.
Dies ==
  /\ row > 0 \/ creating # {}
  /\ row' = (IF row > 0 THEN -1 ELSE row) /\ creating' = {}
  /\ UNCHANGED <<records, file, failed, before, backup, requested>>
-----------------------------------------------------------------------------
(* Backup *)

\* The collections are read one beside the other, each as it stands.
exportTenantBackup ==
  /\ backup' = records
  /\ UNCHANGED <<records, creating, file, row, failed, before, requested>>

\* Mutant of Same: records are matched by their names, whatever they are.
SameName(recs, r) == {i \in DOMAIN recs : recs[i].key = r.key}

Same(recs, r) == Of(recs, r.kind, r.key)

\* A record that r is written over.
Over(p, r) == [kind |-> r.kind, key |-> r.key, value |-> r.value, count |-> r.count,
               code |-> Kept(p.code, r.code), active |-> r.active]

\* findOneAndUpdate with upsert: r is written over the first match, or added.
Put(recs, r) ==
  LET at == Same(recs, r) IN
  IF at = {} THEN Append(recs, r) ELSE [recs EXCEPT ![FirstOf(at)] = Over(@, r)]

\* What the backup holds of a kind, one record after the other.
Restored(recs, saved, kind) ==
  LET after[n \in 0..Len(saved)] ==
        IF n = 0 THEN recs
        ELSE IF saved[n].kind = kind THEN Put(after[n - 1], saved[n]) ELSE after[n - 1]
  IN after[Len(saved)]

\* Products, then customers, then suppliers, in one transaction.
Restoring(recs, saved) ==
  LET products == Restored(recs, saved, "product")
      parties == Restored(products, saved, "customer")
  IN Restored(parties, saved, "supplier")

restoreTenantBackup ==
  /\ Change
  /\ backup # NoBackup
  /\ LET made == Restoring(records, backup) IN
     /\ Len(made) <= MaxEntries
     /\ records' = made
  /\ UNCHANGED <<creating, backup>> /\ NoImport

CatalogNext ==
  \/ \E k \in Keys, v \in Values, c \in Codes \cup {NoCode}, n \in 0..1 :
       createProduct([key |-> k, value |-> v, count |-> n, code |-> c])
  \/ \E p \in creating : StoreProduct(p)
  \/ \E kind \in Kinds, k \in Keys, v \in Values, c \in Codes \cup {NoCode} :
       createParty(kind, k, v, c)
  \/ \E i \in DOMAIN records :
       \/ \E k \in Keys, v \in Values, c \in Codes \cup {NoCode, Blank}, a \in BOOLEAN :
            updateRecord(i, k, v, c, a)
       \/ deleteRecord(i)
       \/ \E d \in {-1, 1} : Moves(i, d)
  \/ \E f \in Files : importProducts(f)
  \/ ImportRow \/ RowFails \/ ImportEnds \/ Dies
  \/ exportTenantBackup
  \/ restoreTenantBackup

CatalogSpec == CatalogInit /\ [][CatalogNext]_catalogVars
-----------------------------------------------------------------------------
(* Properties *)

SkusApart ==
  \A i, j \in DOMAIN records :
    records[i].kind = "product" /\ j \in Of(records, "product", records[i].key) => i = j

ImportedAll(recs, f) ==
  LET after[n \in 0..Len(f)] == IF n = 0 THEN recs ELSE Imported(after[n - 1], f[n])
  IN after[Len(f)]

SameRecords(a, b) ==
  /\ Len(a) = Len(b)
  /\ {a[i] : i \in DOMAIN a} = {b[i] : i \in DOMAIN b}

\* An import that died or failed in some rows, any number of times and anywhere, and was repeated
\* leaves what it would have left at once, and moves no stock its file does not count. Skus are
\* apart whoever stores.
ImportIsRepeatable ==
  /\ SkusApart
  /\ row = 0 /\ ~failed /\ before # Untold =>
       /\ SameRecords(records, ImportedAll(before, file))
       /\ \A i \in DOMAIN before :
            (\A n \in DOMAIN file : file[n].key = before[i].key => file[n].count = NoColumn)
              => records[i].count = before[i].count

Single(recs, r) == Cardinality(Of(recs, r.kind, r.key)) = 1

\* What a restore makes of r at place j, where the document of recs is if there is one.
Returned(recs, j, r) == IF j \in DOMAIN recs THEN Over(recs[j], r) ELSE r

\* A restore gives back each record that the backup names once: as it was, but that a field it
\* lacked keeps what has been entered since. It leaves alone what the backup does not name, and
\* done twice is done once.
RestoreGivesBack ==
  [][restoreTenantBackup =>
       /\ \A i \in DOMAIN backup :
            LET r == backup[i] IN
            Single(backup, r)
              => \E j \in Of(records', r.kind, r.key) : records'[j] = Returned(records, j, r)
       /\ \A i \in DOMAIN records :
            Of(backup, records[i].kind, records[i].key) = {} => records'[i] = records[i]
       /\ Restoring(records', backup) = records']_catalogVars
=============================================================================
