-------------------------- MODULE DatabaseUpgrade --------------------------
(* Opening the shop's one SQLite file: the bootstrap of the schema, the        *)
(* columns added to older files, the rebuild of `orders`, the change from      *)
(* rupees to exact paisas, the public references, the redaction of derived     *)
(* memory (src/db.ts), and the verified backups the running process takes      *)
(* (src/database-backup.ts, the backup loop of src/server.ts).                 *)
(*                                                                             *)
(* Outside a transaction every SQL statement commits on its own, so a crash    *)
(* falls between any two of them.  The process works through Steps and is up   *)
(* at the end; a throw ends it and the next start begins again.                *)
EXTENDS Naturals, FiniteSets, Sequences, FiniteSetsExt

CONSTANTS
  Orders,       \* orders the shop may hold
  Sends,        \* outbound attempts recorded in send_ledger
  Texts,        \* derived memory: checkpoint summaries and notes
  Retention,    \* DATABASE_BACKUP_RETENTION_COUNT
  MaxBackups,   \* bound: backup files the runs create
  Builds        \* SQLite builds considered: does a rename resolve every trigger?

ASSUME RetentionAssumption == Retention \in Nat /\ Retention >= 2
ASSUME BoundAssumption == MaxBackups \in Nat
ASSUME BuildsAssumption == Builds \subseteq BOOLEAN

VARIABLES
  disk,      \* the tables of the database file
  pc,        \* the step of the start-up, or "down", "up", "failed"
  build,     \* whether this SQLite resolves every trigger at a rename
  shelf,     \* backup files, oldest name first
  copying,   \* db.backup has begun and its promise has not settled
  taken,     \* backup files created so far
  placed,    \* history: every order the shop ever recorded
  own,       \* history: attempts begun by the process that is up
  converted, \* history: this start has replaced the tables that hold money
  verified   \* history: the newest backup that was verified, 0 before the first

histories == <<placed, own, verified>>
vars == <<disk, pc, build, shelf, copying, taken, histories, converted>>

-----------------------------------------------------------------------------
(* The file *)

(* Mutation of Steps: the old orders table is dropped before the copy is made. *)
StepsDropFirst ==
  <<"schema", "columns", "pending", "balance", "rebuild", "drop", "copy",
    "rename", "money", "delivery", "references", "memory", "catalog">>

Money == {"products", "orders", "ledger", "payment_claims"}
Units == {"none", "rupees", "paisas"}

(* Columns added to older files: of send_ledger, products.image_filename, of    *)
(* payment_claims when an approval is reversed, of orders and again of products. *)
Columns == {"attempts", "image", "reversal", "delivery", "public_ref", "catalog"}
SendStates == {"none", "pending", "sent", "uncertain"}

Steps == <<"schema", "columns", "pending", "balance", "rebuild", "copy", "drop",
           "rename", "money", "delivery", "references", "memory", "catalog">>

StepNames == {Steps[i] : i \in 1..Len(Steps)}

After(s) == IF s = "catalog" THEN "up"
            ELSE Steps[(CHOOSE i \in 1..Len(Steps) : Steps[i] = s) + 1]

Disks == [units : [Money -> Units],        \* the money column of each table
          checked : BOOLEAN,               \* orders has its status CHECK
          sound : BOOLEAN,                 \* rupee amounts and item totals convert
          rows : SUBSET Orders,            \* rows of orders
          rebuilt : BOOLEAN,               \* a table orders_new exists
          copies : SUBSET Orders,          \* rows of orders_new
          columns : SUBSET Columns,        \* columns added since
          balance : BOOLEAN,               \* customers.balance_owed is still there
          referenced : SUBSET Orders,      \* orders with a public reference
          sends : [Sends -> SendStates],   \* send_ledger
          raw : SUBSET Texts,              \* derived memory that is not redacted
          marked : BOOLEAN]                \* privacy_migrations has the marker

Empty == [units |-> [t \in Money |-> "none"], checked |-> FALSE, sound |-> TRUE,
          rows |-> {}, rebuilt |-> FALSE, copies |-> {}, columns |-> {},
          balance |-> FALSE, referenced |-> {}, sends |-> [s \in Sends |-> "none"],
          raw |-> {}, marked |-> FALSE]

(* A file of version 2.0: no ledger, no claims, orders without their CHECK. *)
BeforeLedger(rows, raw) ==
  [Empty EXCEPT !.units = [t \in Money |-> IF t \in {"products", "orders"} THEN "rupees" ELSE "none"],
                !.rows = rows, !.balance = TRUE, !.raw = raw]

(* A file of the last version that counted in rupees. *)
InRupees(rows, raw, sends, sound) ==
  [Empty EXCEPT !.units = [t \in Money |-> "rupees"], !.checked = TRUE, !.rows = rows,
                !.raw = raw, !.sends = sends, !.sound = sound]

(* A file of a version that already counted in paisas. *)
InPaisas(rows, raw, sends) ==
  [Empty EXCEPT !.units = [t \in Money |-> "paisas"], !.checked = TRUE, !.rows = rows,
                !.raw = raw, !.sends = sends, !.columns = {"image"}]

OlderSends == [Sends -> {"none", "pending", "sent"}]

Init ==
  /\ disk \in {Empty} \cup {BeforeLedger(rows, raw) : rows \in SUBSET Orders, raw \in SUBSET Texts}
                 \cup {InRupees(rows, raw, sends, sound) :
                         rows \in SUBSET Orders, raw \in SUBSET Texts, sends \in OlderSends, sound \in BOOLEAN}
                 \cup {InPaisas(rows, raw, sends) :
                         rows \in SUBSET Orders, raw \in SUBSET Texts, sends \in OlderSends}
  /\ pc = "down"
  /\ build \in Builds
  /\ shelf = <<>>
  /\ copying = FALSE
  /\ taken = 0
  /\ placed = disk.rows
  /\ own = {}
  /\ verified = 0
  /\ converted = FALSE

-----------------------------------------------------------------------------
(* Start-up, one autocommitted statement or transaction at a time *)

Shop == <<build, shelf, copying, taken, histories>>

Begin ==
  /\ pc \in {"down", "failed"}
  /\ pc' = "schema"
  /\ converted' = FALSE
  /\ UNCHANGED <<disk, Shop>>

Commits(s, d) == pc = s /\ disk' = d /\ pc' = After(s) /\ UNCHANGED Shop

Does(s, d) == Commits(s, d) /\ UNCHANGED converted

Throws(s) == pc = s /\ pc' = "failed" /\ UNCHANGED <<disk, Shop, converted>>

(* db.exec(schema): a missing table is created in its present form, an existing *)
(* one is left as it is.  Those of `attempts` are not told apart: the next step *)
(* completes them.                                                              *)
ColumnsOf(t) == CASE t = "products" -> {"image", "catalog"}
                  [] t = "orders" -> {"delivery", "public_ref"}
                  [] t = "payment_claims" -> {"reversal"}
                  [] t = "ledger" -> {}

Missing(d) == {t \in Money : d.units[t] = "none"}

Created(d) ==
  [d EXCEPT !.units = [t \in Money |-> IF d.units[t] = "none" THEN "paisas" ELSE d.units[t]],
            !.checked = d.checked \/ d.units["orders"] = "none",
            !.columns = @ \cup UNION {ColumnsOf(t) : t \in Missing(d)}]

Bootstrap == Does("schema", Created(disk))

(* ensureColumn, before the money is looked at *)
AddColumns == Does("columns", [disk EXCEPT !.columns = @ \cup {"attempts", "image", "reversal"}])

(* What an earlier process left pending has an unknown outcome. *)
Unsettled(sends) == [s \in Sends |-> IF sends[s] = "pending" THEN "uncertain" ELSE sends[s]]

SettlePending == Does("pending", [disk EXCEPT !.sends = Unsettled(@)])

DropBalance == Does("balance", [disk EXCEPT !.balance = FALSE])

(* migrateOrdersStatusConstraint: four statements, no transaction *)
StatusChecked == disk.checked

SkipRebuild ==
  /\ pc = "rebuild"
  /\ StatusChecked
  /\ pc' = "money"
  /\ UNCHANGED <<disk, Shop, converted>>

CreateRebuilt ==
  /\ ~StatusChecked
  /\ ~disk.rebuilt
  /\ Does("rebuild", [disk EXCEPT !.rebuilt = TRUE, !.copies = {}])

RebuiltExists == ~StatusChecked /\ disk.rebuilt /\ Throws("rebuild")

CopyRows == Does("copy", [disk EXCEPT !.copies = disk.rows])

DropOrders ==
  Does("drop", [disk EXCEPT !.units = [@ EXCEPT !["orders"] = "none"], !.rows = {}])

RenameRebuilt ==
  Does("rename", [disk EXCEPT !.units = [@ EXCEPT !["orders"] = "rupees"], !.rows = disk.copies,
                              !.checked = TRUE, !.rebuilt = FALSE, !.copies = {}])

(* Mutation of AllIn: one table in the unit speaks for all four. *)
AnyIn(unit) == \E t \in Money : disk.units[t] = unit

(* migrateExactMoney *)
AllIn(unit) == \A t \in Money : disk.units[t] = unit

MixedSchema == ~AllIn("paisas") /\ ~AllIn("rupees")

ExactAlready ==
  /\ pc = "money"
  /\ AllIn("paisas")
  /\ pc' = "delivery"
  /\ UNCHANGED <<disk, Shop, converted>>

(* What the new tables have no column for. *)
Lost == {"image", "reversal", "public_ref"}

(* Mutation of Exact: the claims keep their rupees. *)
ExactButClaims(d) ==
  [d EXCEPT !.units = [t \in Money |-> IF t = "payment_claims" THEN "rupees" ELSE "paisas"],
            !.columns = (@ \cup {"delivery", "catalog"}) \ Lost]

(* The four tables are replaced in one transaction.  With ledger and          *)
(* payment_claims dropped, the first rename meets the trigger of              *)
(* payment_claim_ledger_links, which names them: a SQLite that resolves every *)
(* trigger at a rename fails there and the transaction is rolled back.  The   *)
(* new products and payment_claims lack the columns that AddColumns gave the  *)
(* old ones: only the next start adds them again.                             *)
Exact(d) ==
  [d EXCEPT !.units = [t \in Money |-> "paisas"], !.columns = (@ \cup {"delivery", "catalog"}) \ Lost]

MigrateMoney ==
  /\ AllIn("rupees") /\ disk.sound /\ ~build
  /\ Commits("money", Exact(disk))
  /\ converted' = TRUE

MoneyRefused ==
  /\ MixedSchema \/ (AllIn("rupees") /\ (~disk.sound \/ build))
  /\ Throws("money")

AddDelivery == Does("delivery", [disk EXCEPT !.columns = @ \cup {"delivery", "public_ref"}])

AssignReferences == Does("references", [disk EXCEPT !.referenced = disk.rows])

(* minimizeHistoricalDerivedMemory: the rows and the marker commit together *)
Minimized(d) == IF d.marked THEN d ELSE [d EXCEPT !.raw = {}, !.marked = TRUE]

MinimizeMemory == Does("memory", Minimized(disk))

AddCatalog == Does("catalog", [disk EXCEPT !.columns = @ \cup {"catalog"}])

-----------------------------------------------------------------------------
(* The running process *)

(* Every insert receives its reference from the trigger. *)
PlaceOrder(o) ==
  /\ pc = "up"
  /\ o \notin placed
  /\ disk' = [disk EXCEPT !.rows = @ \cup {o}, !.referenced = @ \cup {o}]
  /\ placed' = placed \cup {o}
  /\ UNCHANGED <<pc, build, shelf, copying, taken, own, verified, converted>>

(* An attempt is pending from before the provider call until its outcome. *)
Attempt(s) ==
  /\ pc = "up"
  /\ disk.sends[s] = "none"
  /\ disk' = [disk EXCEPT !.sends = [@ EXCEPT ![s] = "pending"]]
  /\ own' = own \cup {s}
  /\ UNCHANGED <<pc, build, shelf, copying, taken, placed, verified, converted>>

Settle(s, outcome) ==
  /\ pc = "up"
  /\ disk.sends[s] = "pending"
  /\ disk' = [disk EXCEPT !.sends = [@ EXCEPT ![s] = outcome]]
  /\ UNCHANGED <<pc, Shop, converted>>

(* backup(): skipped while one is running; the file appears as the copy begins. *)
BackupBegins ==
  /\ pc = "up"
  /\ ~copying
  /\ taken < MaxBackups
  /\ copying' = TRUE
  /\ taken' = taken + 1
  /\ shelf' = Append(shelf, [name |-> taken + 1, good |-> FALSE])
  /\ UNCHANGED <<disk, pc, build, histories, converted>>

(* The copy or its verification fails: nothing is removed, the file stays. *)
BackupFails ==
  /\ copying
  /\ copying' = FALSE
  /\ UNCHANGED <<disk, pc, build, shelf, taken, histories, converted>>

(* Mutation of Kept: the oldest names stay. *)
KeptOldest(files) == IF Len(files) <= Retention THEN files ELSE SubSeq(files, 1, Retention)

(* The newest Retention names stay, verified or not. *)
Kept(files) ==
  IF Len(files) <= Retention THEN files
  ELSE SubSeq(files, Len(files) - Retention + 1, Len(files))

BackupVerified ==
  /\ copying
  /\ copying' = FALSE
  /\ shelf' = Kept([shelf EXCEPT ![Len(shelf)] = [name |-> taken, good |-> TRUE]])
  /\ verified' = taken
  /\ UNCHANGED <<disk, pc, build, taken, placed, own, converted>>

Crash ==
  /\ pc \notin {"down", "failed"}
  /\ pc' = "down"
  /\ copying' = FALSE
  /\ own' = {}
  /\ UNCHANGED <<disk, build, shelf, taken, placed, verified, converted>>

StartUp ==
  \/ Bootstrap \/ AddColumns \/ SettlePending \/ DropBalance
  \/ SkipRebuild \/ CreateRebuilt \/ RebuiltExists \/ CopyRows \/ DropOrders \/ RenameRebuilt
  \/ ExactAlready \/ MigrateMoney \/ MoneyRefused
  \/ AddDelivery \/ AssignReferences \/ MinimizeMemory \/ AddCatalog

Next ==
  \/ Begin
  \/ StartUp
  \/ \E o \in Orders : PlaceOrder(o)
  \/ \E s \in Sends : Attempt(s)
  \/ \E s \in Sends, outcome \in {"sent", "uncertain"} : Settle(s, outcome)
  \/ BackupBegins \/ BackupFails \/ BackupVerified
  \/ Crash

Spec == Init /\ [][Next]_vars

-----------------------------------------------------------------------------
(* Properties *)

Files == [name : 1..MaxBackups, good : BOOLEAN]

\* Every variable has its type, and only a process that is up copies its file.
TypeOK ==
  /\ disk \in Disks
  /\ pc \in StepNames \cup {"down", "up", "failed"}
  /\ build \in BOOLEAN
  /\ shelf \in Seq(Files)
  /\ copying \in BOOLEAN
  /\ copying => pc = "up"
  /\ taken \in 0..MaxBackups
  /\ placed \subseteq Orders
  /\ own \subseteq Sends
  /\ verified \in 0..MaxBackups
  /\ converted \in BOOLEAN

\* No crash between two statements of the start-up, no refused start and no
\* retried one loses an order: each is still a row of orders or of orders_new
\* (migrateOrdersStatusConstraint copies before it drops, without a transaction).
OrdersNeverLost == placed \subseteq disk.rows \cup disk.copies

\* Whatever crashes went before, a process that is up serves a file in which
\* every order the shop recorded is in orders under a public reference, all four
\* tables count in paisas, no memory is unredacted, no attempt is pending that
\* this process did not begin, and every column is there that the program uses;
\* but for the start that has just changed rupees to paisas: it serves products
\* without the image and claims without the reversal columns until the next one.
ServedFileIsWhole ==
  pc = "up" =>
    /\ disk.rows = placed
    /\ disk.referenced = disk.rows
    /\ \A t \in Money : disk.units[t] = "paisas"
    /\ (IF converted THEN Columns \ {"image", "reversal"} ELSE Columns) \subseteq disk.columns
    /\ disk.raw = {}
    /\ \A s \in Sends : disk.sends[s] = "pending" => s \in own

\* A file that was opened once opens again: no later start refuses it, wherever
\* the process stopped in between (the redaction marker is written after the
\* last check that can refuse).
OpenedFileReopens == disk.marked => pc # "failed"

\* Failed copies stay in the directory and count against the retention, yet the
\* newest backup that was ever verified is always still there.
NewestBackupKept ==
  verified # 0 => \E i \in 1..Len(shelf) : shelf[i] = [name |-> verified, good |-> TRUE]

=============================================================================
