----------------------- MODULE DatabaseUpgradeProofs -----------------------
(***************************************************************************)
(* Proofs about DatabaseUpgrade for any orders, attempts and memories, any *)
(* retention, any build of SQLite and any older file, wherever and however *)
(* often the process dies.                                                 *)
(***************************************************************************)
EXTENDS DatabaseUpgrade, TLAPS

-----------------------------------------------------------------------------
(* The start-up in its order. *)

\* The step that follows each step.
LEMMA Order ==
  /\ After("schema") = "columns" /\ After("columns") = "pending" /\ After("pending") = "balance"
  /\ After("balance") = "rebuild" /\ After("rebuild") = "copy" /\ After("copy") = "drop"
  /\ After("drop") = "rename" /\ After("rename") = "money" /\ After("money") = "delivery"
  /\ After("delivery") = "references" /\ After("references") = "memory"
  /\ After("memory") = "catalog" /\ After("catalog") = "up"
<1>1. \A i \in 1..12 : After(Steps[i]) = Steps[i + 1]
  <2>1. Len(Steps) = 13 /\ \A i \in 1..12 : Steps[i] # "catalog"
    BY DEF Steps
  <2>2. \A i, j \in 1..13 : Steps[i] = Steps[j] => i = j
    BY DEF Steps
  <2> SUFFICES ASSUME NEW i \in 1..12
               PROVE  After(Steps[i]) = Steps[i + 1]
    OBVIOUS
  <2>3. (CHOOSE j \in 1..Len(Steps) : Steps[j] = Steps[i]) = i
    BY <2>1, <2>2
  <2> QED BY <2>1, <2>3 DEF After
<1>2. /\ Steps[1] = "schema" /\ Steps[2] = "columns" /\ Steps[3] = "pending" /\ Steps[4] = "balance"
      /\ Steps[5] = "rebuild" /\ Steps[6] = "copy" /\ Steps[7] = "drop" /\ Steps[8] = "rename"
      /\ Steps[9] = "money" /\ Steps[10] = "delivery" /\ Steps[11] = "references"
      /\ Steps[12] = "memory" /\ Steps[13] = "catalog"
  BY DEF Steps
<1> DEFINE next(i) == After(Steps[i]) = Steps[i + 1]
<1>3. next(1) /\ next(2) /\ next(3) /\ next(4) /\ next(5) /\ next(6)
  BY <1>1
<1>4. next(7) /\ next(8) /\ next(9) /\ next(10) /\ next(11) /\ next(12)
  BY <1>1
<1>5. After("catalog") = "up"
  BY DEF After
<1> QED BY <1>2, <1>3, <1>4, <1>5

Places == {"schema", "columns", "pending", "balance", "rebuild", "copy", "drop", "rename", "money",
           "delivery", "references", "memory", "catalog"}

\* The steps are these thirteen.
LEMMA StepsNamed == StepNames = Places
<1>1. Len(Steps) = 13
  BY DEF Steps
<1>2. \A i \in 1..13 : Steps[i] \in Places
  BY DEF Steps, Places
<1>3. \A s \in Places : \E i \in 1..13 : Steps[i] = s
  <2>1. /\ Steps[1] = "schema" /\ Steps[2] = "columns" /\ Steps[3] = "pending" /\ Steps[4] = "balance"
        /\ Steps[5] = "rebuild" /\ Steps[6] = "copy" /\ Steps[7] = "drop" /\ Steps[8] = "rename"
        /\ Steps[9] = "money" /\ Steps[10] = "delivery" /\ Steps[11] = "references"
        /\ Steps[12] = "memory" /\ Steps[13] = "catalog"
    BY DEF Steps
  <2> QED BY <2>1 DEF Places
<1> QED BY <1>1, <1>2, <1>3 DEF StepNames

Rebuilding == {"copy", "drop", "rename"}
PastPending == {"balance", "rebuild", "copy", "drop", "rename", "money"}
PastMoney == {"delivery", "references", "memory", "catalog", "up"}

-----------------------------------------------------------------------------
(* The inductive invariant. *)

\* A file from before the ledger: its products count in rupees, its ledger is
\* missing or was made by a later start.
Legacy(d) == d.units["products"] = "rupees" /\ d.units["ledger"] # "rupees"

\* Only such a file is rebuilt, and it is refused when the money is looked at.
OnlyLegacyRebuilt(d) ==
  (d.rebuilt \/ (~d.checked /\ d.units["orders"] # "none")) => Legacy(d)

\* The orders are where they were, or all in the copy.
Rows(d) ==
  /\ d.rows = placed \/ (d.rebuilt /\ d.copies = placed)
  /\ pc \in Rebuilding => d.rebuilt
  /\ pc = "copy" => d.rows = placed
  /\ pc \in {"drop", "rename"} => d.copies = placed
  /\ pc \in {"drop"} => d.rows = placed

\* What the start-up has done so far.
Progress(d) ==
  /\ pc \in Places \ {"schema"} /\ pc # "rename" => d.units["orders"] # "none"
  /\ pc \in PastMoney => \A t \in Money : d.units[t] = "paisas"
  /\ pc \in {"pending"} \cup PastPending \cup PastMoney => "attempts" \in d.columns
  /\ pc \in {"pending"} \cup PastPending \cup PastMoney /\ ~converted =>
       {"image", "reversal"} \subseteq d.columns
  /\ converted => pc \in PastMoney \cup {"down"}
  /\ pc \in PastPending \cup PastMoney => \A s \in Sends : d.sends[s] = "pending" => s \in own
  /\ pc \in PastMoney \ {"delivery"} => {"delivery", "public_ref"} \subseteq d.columns
  /\ pc \in {"memory", "catalog", "up"} => d.referenced = d.rows
  /\ pc \in {"catalog", "up"} => d.marked
  /\ pc = "up" => "catalog" \in d.columns

\* A redacted file has been opened once.
Opened(d) ==
  d.marked =>
    /\ d.raw = {} /\ d.checked
    /\ \A t \in Money : d.units[t] = "paisas"
    /\ pc # "failed"

Shelf ==
  /\ shelf \in Seq(Files)
  /\ copying \in BOOLEAN
  /\ copying => pc = "up" /\ taken # 0 /\ shelf # <<>>
  /\ taken \in 0..MaxBackups
  /\ verified \in 0..MaxBackups

Typed ==
  /\ disk \in Disks
  /\ pc \in Places \cup {"down", "up", "failed"}
  /\ build \in BOOLEAN
  /\ placed \subseteq Orders
  /\ own \subseteq Sends
  /\ converted \in BOOLEAN

Inv ==
  /\ Typed /\ Shelf /\ NewestBackupKept
  /\ OnlyLegacyRebuilt(disk) /\ Rows(disk) /\ Progress(disk) /\ Opened(disk)

-----------------------------------------------------------------------------
(* Each step keeps the types of the file. *)

\* A step of the start-up that changes the file.
Changes ==
  \/ Bootstrap \/ AddColumns \/ SettlePending \/ DropBalance
  \/ CreateRebuilt \/ CopyRows \/ DropOrders \/ RenameRebuilt \/ MigrateMoney
  \/ AddDelivery \/ AssignReferences \/ MinimizeMemory \/ AddCatalog

\* Whatever the start-up does to its fields, a file remains a file.
LEMMA StartTyped ==
  ASSUME Inv, Changes
  PROVE  disk' \in Disks
<1>0. /\ disk \in Disks /\ disk.units \in [Money -> Units] /\ disk.checked \in BOOLEAN
      /\ disk.rows \in SUBSET Orders /\ disk.copies \in SUBSET Orders
      /\ disk.columns \in SUBSET Columns /\ disk.sends \in [Sends -> SendStates]
      /\ disk.raw \in SUBSET Texts
  BY DEF Inv, Typed, Disks
<1>1. CASE Bootstrap
  <2> DEFINE units == [t \in Money |-> IF disk.units[t] = "none" THEN "paisas" ELSE disk.units[t]]
             checked == disk.checked \/ disk.units["orders"] = "none"
             columns == disk.columns \cup UNION {ColumnsOf(t) : t \in Missing(disk)}
  <2>1. units \in [Money -> Units]
    BY <1>0 DEF Units
  <2>2. checked \in BOOLEAN
    BY Zenon
  <2>3. columns \in SUBSET Columns
    <3>1. \A t \in Money : ColumnsOf(t) \subseteq Columns
      BY DEF Money, ColumnsOf, Columns
    <3> QED BY <1>0, <3>1 DEF Missing
  <2>4. disk' = [disk EXCEPT !.units = units, !.checked = checked, !.columns = columns]
    BY <1>1 DEF Bootstrap, Does, Commits, Created
  <2> HIDE DEF units, checked, columns
  <2> QED BY <1>0, <2>1, <2>2, <2>3, <2>4 DEF Disks
<1>2. CASE AddColumns \/ AddDelivery \/ AddCatalog
  <2>1. PICK more \in SUBSET Columns : disk' = [disk EXCEPT !.columns = @ \cup more]
    <3>1. {"attempts", "image", "reversal"} \subseteq Columns /\ {"delivery", "public_ref"} \subseteq Columns
          /\ {"catalog"} \subseteq Columns
      BY DEF Columns
    <3> QED BY <1>2, <3>1 DEF AddColumns, AddDelivery, AddCatalog, Does, Commits
  <2> DEFINE columns == disk.columns \cup more
  <2>2. columns \in SUBSET Columns /\ disk' = [disk EXCEPT !.columns = columns]
    BY <1>0, <2>1
  <2> HIDE DEF columns
  <2> QED BY <1>0, <2>2 DEF Disks
<1>3. CASE SettlePending
  <2> DEFINE sends == [s \in Sends |-> IF disk.sends[s] = "pending" THEN "uncertain" ELSE disk.sends[s]]
  <2>1. sends \in [Sends -> SendStates]
    BY <1>0 DEF SendStates
  <2>2. disk' = [disk EXCEPT !.sends = sends]
    BY <1>3 DEF SettlePending, Does, Commits, Unsettled
  <2> HIDE DEF sends
  <2> QED BY <1>0, <2>1, <2>2 DEF Disks
<1>4. CASE DropBalance
  BY <1>0, <1>4 DEF Disks, DropBalance, Does, Commits
<1>5. CASE CreateRebuilt
  BY <1>0, <1>5 DEF Disks, CreateRebuilt, Does, Commits
<1>6. CASE CopyRows
  BY <1>0, <1>6 DEF Disks, CopyRows, Does, Commits
<1>7. CASE DropOrders \/ RenameRebuilt
  <2>1. ASSUME NEW u \in Units
        PROVE  [disk.units EXCEPT !["orders"] = u] \in [Money -> Units]
    BY <1>0, <2>1
  <2> DEFINE none == [disk.units EXCEPT !["orders"] = "none"]
             rupees == [disk.units EXCEPT !["orders"] = "rupees"]
  <2>2. none \in [Money -> Units] /\ rupees \in [Money -> Units]
    BY <2>1 DEF Units
  <2>3. CASE DropOrders
    <3>1. disk' = [disk EXCEPT !.units = none, !.rows = {}]
      BY <2>3 DEF DropOrders, Does, Commits
    <3> HIDE DEF none
    <3> QED BY <1>0, <2>2, <3>1 DEF Disks
  <2>4. CASE RenameRebuilt
    <3> DEFINE copies == disk.copies
    <3>1. disk' = [disk EXCEPT !.units = rupees, !.rows = copies, !.checked = TRUE,
                               !.rebuilt = FALSE, !.copies = {}]
      BY <2>4 DEF RenameRebuilt, Does, Commits
    <3>2. copies \in SUBSET Orders
      BY <1>0
    <3> HIDE DEF rupees, copies
    <3> QED BY <1>0, <2>2, <3>1, <3>2 DEF Disks
  <2> QED BY <1>7, <2>3, <2>4
<1>8. CASE MigrateMoney
  <2> DEFINE units == [t \in Money |-> "paisas"]
             columns == (disk.columns \cup {"delivery", "catalog"}) \ Lost
  <2>1. units \in [Money -> Units] /\ columns \in SUBSET Columns
    BY <1>0 DEF Units, Columns
  <2>2. disk' = [disk EXCEPT !.units = units, !.columns = columns]
    BY <1>8 DEF MigrateMoney, Commits, Exact
  <2> HIDE DEF units, columns
  <2> QED BY <1>0, <2>1, <2>2 DEF Disks
<1>9. CASE AssignReferences
  <2> DEFINE rows == disk.rows
  <2>1. rows \in SUBSET Orders /\ disk' = [disk EXCEPT !.referenced = rows]
    BY <1>0, <1>9 DEF AssignReferences, Does, Commits
  <2> HIDE DEF rows
  <2> QED BY <1>0, <2>1 DEF Disks
<1>10. CASE MinimizeMemory
  BY <1>0, <1>10 DEF Disks, MinimizeMemory, Does, Commits, Minimized
<1> QED BY <1>1, <1>2, <1>3, <1>4, <1>5, <1>6, <1>7, <1>8, <1>9, <1>10 DEF Changes

-----------------------------------------------------------------------------
(* Each step keeps the invariant of the file. *)

FileInv == OnlyLegacyRebuilt(disk) /\ Rows(disk) /\ Progress(disk) /\ Opened(disk)

\* Nothing of the start-up touches what the shop recorded.
LEMMA StartKeeps ==
  ASSUME Changes
  PROVE  /\ UNCHANGED <<build, shelf, copying, taken, placed, own, verified>>
         /\ pc' = After(pc)
         /\ pc # "money" => converted' = converted
         /\ pc = "money" => MigrateMoney /\ converted' = TRUE
<1>1. CASE MigrateMoney
  BY <1>1, Zenon DEF MigrateMoney, Commits, Shop, histories
<1>2. CASE \/ Bootstrap \/ AddColumns \/ SettlePending \/ DropBalance
           \/ CreateRebuilt \/ CopyRows \/ DropOrders \/ RenameRebuilt
           \/ AddDelivery \/ AssignReferences \/ MinimizeMemory \/ AddCatalog
  <2>1. PICK s \in Places \ {"money"} : pc = s /\ pc' = After(s) /\ UNCHANGED Shop /\ converted' = converted
    BY <1>2 DEF Bootstrap, AddColumns, SettlePending, DropBalance, CreateRebuilt, CopyRows,
       DropOrders, RenameRebuilt, AddDelivery, AssignReferences, MinimizeMemory, AddCatalog, Does,
       Commits, Places
  <2> QED BY <2>1 DEF Shop, histories
<1> QED BY <1>1, <1>2, Zenon DEF Changes

\* A missing table is created in its present form.
LEMMA BootstrapKept ==
  ASSUME Inv, Bootstrap
  PROVE  FileInv'
<1>0. FileInv /\ disk \in Disks
  BY DEF Inv, FileInv, Typed
<1>1. pc = "schema" /\ pc' = "columns" /\ placed' = placed /\ converted' = converted
  BY Order, StartKeeps DEF Bootstrap, Does, Commits, Changes
<1>2. /\ disk'.units = [t \in Money |-> IF disk.units[t] = "none" THEN "paisas" ELSE disk.units[t]]
      /\ disk'.checked = (disk.checked \/ disk.units["orders"] = "none")
      /\ disk'.rows = disk.rows /\ disk'.rebuilt = disk.rebuilt /\ disk'.copies = disk.copies
      /\ disk'.raw = disk.raw /\ disk'.marked = disk.marked
  BY <1>0 DEF Bootstrap, Does, Commits, Created, Disks
<1>3. \A t \in Money : disk'.units[t] = IF disk.units[t] = "none" THEN "paisas" ELSE disk.units[t]
  BY <1>2
<1>4. "orders" \in Money /\ "products" \in Money /\ "ledger" \in Money
  BY DEF Money
<1>5. OnlyLegacyRebuilt(disk)'
  BY <1>0, <1>2, <1>3, <1>4 DEF FileInv, OnlyLegacyRebuilt, Legacy
<1>6. Rows(disk)' /\ Progress(disk)'
  BY <1>0, <1>1, <1>2, <1>3, <1>4 DEF FileInv, Rows, Progress, Rebuilding, PastPending, PastMoney, Places
<1>7. Opened(disk)'
  BY <1>0, <1>1, <1>2, <1>3 DEF FileInv, Opened
<1> QED BY <1>5, <1>6, <1>7 DEF FileInv

\* Columns are added, attempts left pending become uncertain, the balance goes.
LEMMA ColumnsKept ==
  ASSUME Inv, AddColumns \/ AddDelivery \/ AddCatalog \/ SettlePending \/ DropBalance
  PROVE  FileInv'
<1>0. FileInv /\ disk \in Disks
  BY DEF Inv, FileInv, Typed
<1>1. /\ pc \in {"columns", "pending", "balance", "delivery", "catalog"}
      /\ pc' = After(pc) /\ placed' = placed /\ own' = own /\ converted' = converted
  BY StartKeeps DEF AddColumns, AddDelivery, AddCatalog, SettlePending, DropBalance, Does, Commits, Changes
<1>2. /\ disk'.units = disk.units /\ disk'.checked = disk.checked
      /\ disk'.rows = disk.rows /\ disk'.rebuilt = disk.rebuilt /\ disk'.copies = disk.copies
      /\ disk'.raw = disk.raw /\ disk'.marked = disk.marked /\ disk'.referenced = disk.referenced
  BY <1>0 DEF AddColumns, AddDelivery, AddCatalog, SettlePending, DropBalance, Does, Commits, Disks
<1>3. /\ disk.columns \subseteq disk'.columns
      /\ pc = "columns" => {"attempts", "image", "reversal"} \subseteq disk'.columns
      /\ pc = "delivery" => {"delivery", "public_ref"} \subseteq disk'.columns
      /\ pc = "catalog" => "catalog" \in disk'.columns
  BY <1>0 DEF AddColumns, AddDelivery, AddCatalog, SettlePending, DropBalance, Does, Commits, Disks
<1>4. /\ pc # "pending" => disk'.sends = disk.sends
      /\ pc = "pending" => \A s \in Sends : disk'.sends[s] # "pending"
  BY <1>0 DEF AddColumns, AddDelivery, AddCatalog, SettlePending, DropBalance, Does, Commits, Disks, Unsettled
<1>5. OnlyLegacyRebuilt(disk)'
  BY <1>0, <1>2 DEF FileInv, OnlyLegacyRebuilt, Legacy
<1>6. Rows(disk)' /\ Opened(disk)'
  BY <1>0, <1>1, <1>2, Order DEF FileInv, Rows, Opened, Rebuilding
<1>7. Progress(disk)'
  BY <1>0, <1>1, <1>2, <1>3, <1>4, Order DEF FileInv, Progress, PastPending, PastMoney, Places
<1> QED BY <1>5, <1>6, <1>7 DEF FileInv

\* The four statements of the rebuild.
LEMMA RebuildKept ==
  ASSUME Inv, CreateRebuilt \/ CopyRows \/ DropOrders \/ RenameRebuilt
  PROVE  FileInv'
<1>0. FileInv /\ disk \in Disks /\ disk.units \in [Money -> Units]
  BY DEF Inv, FileInv, Typed, Disks
<1>1. /\ pc \in {"rebuild", "copy", "drop", "rename"}
      /\ pc' = After(pc) /\ placed' = placed /\ own' = own /\ converted' = converted
  BY StartKeeps DEF CreateRebuilt, CopyRows, DropOrders, RenameRebuilt, Does, Commits, Changes
<1>2. /\ disk'.columns = disk.columns /\ disk'.sends = disk.sends /\ disk'.raw = disk.raw
      /\ disk'.marked = disk.marked /\ disk'.referenced = disk.referenced
  BY <1>0 DEF CreateRebuilt, CopyRows, DropOrders, RenameRebuilt, Does, Commits, Disks
<1>3. /\ pc = "rebuild" => /\ ~disk.checked /\ ~disk.rebuilt /\ disk'.rebuilt
                           /\ disk'.units = disk.units /\ disk'.checked = disk.checked
                           /\ disk'.rows = disk.rows /\ disk'.copies = {}
      /\ pc = "copy" => /\ disk'.rebuilt = disk.rebuilt /\ disk'.units = disk.units
                        /\ disk'.checked = disk.checked /\ disk'.rows = disk.rows
                        /\ disk'.copies = disk.rows
      /\ pc = "drop" => /\ disk'.rebuilt = disk.rebuilt /\ disk'.checked = disk.checked
                        /\ disk'.units = [disk.units EXCEPT !["orders"] = "none"]
                        /\ disk'.copies = disk.copies
      /\ pc = "rename" => /\ ~disk'.rebuilt /\ disk'.checked
                          /\ disk'.units = [disk.units EXCEPT !["orders"] = "rupees"]
                          /\ disk'.rows = disk.copies
  BY <1>0 DEF CreateRebuilt, CopyRows, DropOrders, RenameRebuilt, Does, Commits, Disks, StatusChecked
<1>4. /\ disk'.units["products"] = disk.units["products"] /\ disk'.units["ledger"] = disk.units["ledger"]
      /\ pc = "drop" => disk'.units["orders"] = "none"
      /\ pc = "rename" => disk'.units["orders"] = "rupees"
      /\ pc \in {"rebuild", "copy"} => disk'.units["orders"] = disk.units["orders"]
  <2>1. "orders" \in Money /\ "products" \in Money /\ "ledger" \in Money
    BY DEF Money
  <2> QED BY <1>0, <1>1, <1>3, <2>1
<1>5. Legacy(disk)
  <2>1. disk.rebuilt \/ (~disk.checked /\ disk.units["orders"] # "none") => Legacy(disk)
    BY <1>0, Zenon DEF FileInv, OnlyLegacyRebuilt
  <2>2. CASE pc = "rebuild"
    <3>1. disk.units["orders"] # "none"
      BY <1>0, <2>2 DEF FileInv, Progress, Places
    <3> QED BY <1>3, <2>1, <2>2, <3>1
  <2>3. CASE pc # "rebuild"
    <3>1. disk.rebuilt
      BY <1>0, <1>1, <2>3 DEF FileInv, Rows, Rebuilding
    <3> QED BY <2>1, <3>1
  <2> QED BY <2>2, <2>3
<1>6. OnlyLegacyRebuilt(disk)'
  BY <1>4, <1>5 DEF OnlyLegacyRebuilt, Legacy
<1>7. Rows(disk)'
  BY <1>0, <1>1, <1>3, Order DEF FileInv, Rows, Rebuilding
<1>8. Progress(disk)'
  BY <1>0, <1>1, <1>2, <1>4, Order DEF FileInv, Progress, PastPending, PastMoney, Places
<1>9. ~disk.marked
  <2>1. "products" \in Money
    BY DEF Money
  <2> QED BY <1>0, <1>5, <2>1 DEF FileInv, Opened, Legacy
<1> QED BY <1>2, <1>6, <1>7, <1>8, <1>9 DEF FileInv, Opened

\* The change to paisas, the references and the redaction.
LEMMA ConversionsKept ==
  ASSUME Inv, MigrateMoney \/ AssignReferences \/ MinimizeMemory
  PROVE  FileInv'
<1>0. FileInv /\ disk \in Disks
  BY DEF Inv, FileInv, Typed
<1>1. /\ pc \in {"money", "references", "memory"}
      /\ pc' = After(pc) /\ placed' = placed /\ own' = own
      /\ pc # "money" => converted' = converted
      /\ pc = "money" => converted' = TRUE
  BY StartKeeps DEF MigrateMoney, AssignReferences, MinimizeMemory, Does, Commits, Changes
<1>2. /\ disk'.checked = disk.checked /\ disk'.rows = disk.rows /\ disk'.rebuilt = disk.rebuilt
      /\ disk'.copies = disk.copies /\ disk'.sends = disk.sends
  BY <1>0 DEF MigrateMoney, AssignReferences, MinimizeMemory, Does, Commits, Disks, Exact, Minimized
<1>3. /\ "attempts" \in disk.columns => "attempts" \in disk'.columns
      /\ pc # "money" => disk'.columns = disk.columns
      /\ pc # "memory" => disk'.raw = disk.raw /\ disk'.marked = disk.marked
      /\ pc # "references" => disk'.referenced = disk.referenced
      /\ pc = "references" => disk'.referenced = disk.rows
      /\ pc = "memory" => disk'.marked
      /\ pc = "memory" /\ ~disk.marked => disk'.raw = {}
      /\ disk.marked => disk'.marked /\ disk'.raw = disk.raw
  BY <1>0 DEF MigrateMoney, AssignReferences, MinimizeMemory, Does, Commits, Disks, Exact, Lost, Minimized
<1>4. /\ pc = "money" => /\ \A t \in Money : disk.units[t] = "rupees"
                         /\ \A t \in Money : disk'.units[t] = "paisas"
      /\ pc # "money" => disk'.units = disk.units
  <2>1. CASE MigrateMoney
    <3>1. pc = "money" /\ disk'.units = [t \in Money |-> "paisas"] /\ AllIn("rupees")
      BY <1>0, <2>1 DEF MigrateMoney, Does, Commits, Exact, Disks
    <3> QED BY <3>1 DEF AllIn
  <2>2. CASE AssignReferences \/ MinimizeMemory
    BY <1>0, <2>2 DEF AssignReferences, MinimizeMemory, Does, Commits, Disks, Minimized
  <2> QED BY <2>1, <2>2
<1>5. "orders" \in Money /\ "products" \in Money /\ "ledger" \in Money
  BY DEF Money
<1>6. \A t \in Money : disk'.units[t] = "paisas"
  BY <1>0, <1>1, <1>4 DEF FileInv, Progress, PastMoney
<1>7. ~disk.rebuilt /\ disk.checked
  <2>1. ~Legacy(disk) /\ disk.units["orders"] # "none"
    BY <1>0, <1>1, <1>4, <1>5 DEF FileInv, Progress, PastMoney, Legacy
  <2> QED BY <1>0, <2>1 DEF FileInv, OnlyLegacyRebuilt
<1>8. OnlyLegacyRebuilt(disk)' /\ Rows(disk)'
  BY <1>0, <1>1, <1>2, <1>7, Order DEF FileInv, OnlyLegacyRebuilt, Rows, Rebuilding
<1>9. Progress(disk)'
  BY <1>0, <1>1, <1>2, <1>3, <1>5, <1>6, Order DEF FileInv, Progress, PastPending, PastMoney, Places
<1>10. Opened(disk)'
  BY <1>0, <1>1, <1>2, <1>3, <1>6, <1>7, Order DEF FileInv, Opened
<1> QED BY <1>8, <1>9, <1>10 DEF FileInv

\* A step is left out, the start is refused, begins again or is cut off.
LEMMA TurnsKept ==
  ASSUME Inv, Begin \/ SkipRebuild \/ RebuiltExists \/ ExactAlready \/ MoneyRefused \/ Crash
  PROVE  FileInv'
<1>0. FileInv /\ disk \in Disks
  BY DEF Inv, FileInv, Typed
<1>1. disk' = disk /\ placed' = placed
  BY Zenon DEF Begin, SkipRebuild, RebuiltExists, ExactAlready, MoneyRefused, Throws, Crash, Shop, histories
<1>2. OnlyLegacyRebuilt(disk)'
  BY <1>0, <1>1 DEF FileInv, OnlyLegacyRebuilt, Legacy
<1>3. /\ pc' \in {"schema", "money", "failed", "delivery", "down"}
      /\ pc' = "money" => pc = "rebuild" /\ own' = own
      /\ pc' = "delivery" => pc = "money" /\ AllIn("paisas") /\ own' = own
      /\ pc' = "failed" => RebuiltExists \/ MoneyRefused
      /\ pc' = "failed" => pc \in {"rebuild", "money"} /\ converted' = converted
      /\ pc' = "schema" => ~converted'
      /\ pc' \in {"money", "delivery"} => converted' = converted
  BY DEF Begin, SkipRebuild, RebuiltExists, ExactAlready, MoneyRefused, Throws, Crash, Shop, histories
<1>4. Rows(disk)'
  BY <1>0, <1>1, <1>3 DEF FileInv, Rows, Rebuilding
<1>5. Progress(disk)'
  BY <1>0, <1>1, <1>3 DEF FileInv, Progress, PastPending, PastMoney, Places, AllIn
<1>6. disk.marked => ~RebuiltExists /\ ~MoneyRefused
  <2>1. Money # {}
    BY DEF Money
  <2> QED BY <1>0, <2>1 DEF FileInv, Opened, RebuiltExists, MoneyRefused, StatusChecked, MixedSchema, AllIn
<1>7. Opened(disk)'
  BY <1>0, <1>1, <1>3, <1>6 DEF FileInv, Opened
<1> QED BY <1>2, <1>4, <1>5, <1>7 DEF FileInv

\* What the running process does to the file.
LEMMA ServingKept ==
  ASSUME Inv, \/ \E o \in Orders : PlaceOrder(o)
              \/ \E s \in Sends : Attempt(s)
              \/ \E s \in Sends, outcome \in {"sent", "uncertain"} : Settle(s, outcome)
  PROVE  FileInv' /\ disk' \in Disks /\ placed' \subseteq Orders /\ own' \subseteq Sends
         /\ pc' = pc /\ UNCHANGED <<build, shelf, copying, taken, verified, converted>>
<1>0. /\ FileInv /\ disk \in Disks /\ disk.sends \in [Sends -> SendStates]
      /\ placed \subseteq Orders /\ own \subseteq Sends
  BY DEF Inv, FileInv, Typed, Disks
<1>1. pc = "up" /\ pc' = pc /\ UNCHANGED <<build, shelf, copying, taken, verified, converted>>
  BY DEF PlaceOrder, Attempt, Settle, Shop, histories
<1>2. "orders" \in Money /\ "products" \in Money
  BY DEF Money
<1>3. ~disk.rebuilt /\ disk.rows = placed
  <2>1. ~Legacy(disk)
    BY <1>0, <1>1, <1>2 DEF FileInv, Progress, PastMoney, Legacy
  <2> QED BY <1>0, <2>1 DEF FileInv, OnlyLegacyRebuilt, Rows
<1>4. ASSUME NEW o \in Orders, PlaceOrder(o)
      PROVE  FileInv' /\ disk' \in Disks /\ placed' \subseteq Orders /\ own' \subseteq Sends
  <2> DEFINE rows == disk.rows \cup {o}
             referenced == disk.referenced \cup {o}
  <2>1. rows \in SUBSET Orders /\ referenced \in SUBSET Orders
    BY <1>0 DEF Disks
  <2>2. disk' = [disk EXCEPT !.rows = rows, !.referenced = referenced] /\ own' = own
        /\ placed' = placed \cup {o}
    BY <1>4 DEF PlaceOrder
  <2>3. rows = placed' /\ (disk.referenced = disk.rows => referenced = rows)
    BY <1>3, <2>2
  <2> HIDE DEF rows, referenced
  <2>4. disk' \in Disks
    BY <1>0, <2>1, <2>2 DEF Disks
  <2>5. /\ disk'.units = disk.units /\ disk'.checked = disk.checked /\ disk'.rebuilt = disk.rebuilt
        /\ disk'.rows = rows /\ disk'.referenced = referenced /\ disk'.columns = disk.columns
        /\ disk'.sends = disk.sends /\ disk'.raw = disk.raw /\ disk'.marked = disk.marked
    BY <1>0, <2>2 DEF Disks
  <2>6. OnlyLegacyRebuilt(disk)' /\ Opened(disk)'
    BY <1>0, <1>1, <2>5 DEF FileInv, OnlyLegacyRebuilt, Legacy, Opened
  <2>7. Rows(disk)' /\ Progress(disk)'
    BY <1>0, <1>1, <2>2, <2>3, <2>5 DEF FileInv, Rows, Rebuilding, Progress, PastPending, PastMoney, Places
  <2> QED BY <1>0, <1>4, <2>2, <2>4, <2>6, <2>7 DEF FileInv
<1>5. ASSUME NEW s \in Sends, NEW state \in SendStates,
             disk' = [disk EXCEPT !.sends = [@ EXCEPT ![s] = state]], placed' = placed,
             own' \in SUBSET Sends, own \subseteq own', state = "pending" => s \in own'
      PROVE  FileInv' /\ disk' \in Disks
  <2> DEFINE sends == [disk.sends EXCEPT ![s] = state]
  <2>1. sends \in [Sends -> SendStates] /\ \A r \in Sends : sends[r] = "pending" =>
          disk.sends[r] = "pending" \/ r \in own'
    BY <1>0, <1>5
  <2>2. disk' = [disk EXCEPT !.sends = sends]
    BY <1>5
  <2> HIDE DEF sends
  <2>3. disk' \in Disks
    BY <1>0, <2>1, <2>2 DEF Disks
  <2>4. /\ disk'.units = disk.units /\ disk'.checked = disk.checked /\ disk'.rebuilt = disk.rebuilt
        /\ disk'.rows = disk.rows /\ disk'.referenced = disk.referenced
        /\ disk'.columns = disk.columns /\ disk'.copies = disk.copies
        /\ disk'.sends = sends /\ disk'.raw = disk.raw /\ disk'.marked = disk.marked
    BY <1>0, <2>2 DEF Disks
  <2>5. OnlyLegacyRebuilt(disk)' /\ Opened(disk)' /\ Rows(disk)'
    BY <1>0, <1>1, <1>5, <2>4 DEF FileInv, OnlyLegacyRebuilt, Legacy, Opened, Rows, Rebuilding
  <2>6. Progress(disk)'
    BY <1>0, <1>1, <1>5, <2>1, <2>4 DEF FileInv, Progress, PastPending, PastMoney, Places
  <2> QED BY <2>3, <2>5, <2>6 DEF FileInv
<1>6. ASSUME NEW s \in Sends, Attempt(s)
      PROVE  FileInv' /\ disk' \in Disks /\ placed' \subseteq Orders /\ own' \subseteq Sends
  <2>1. /\ disk' = [disk EXCEPT !.sends = [@ EXCEPT ![s] = "pending"]] /\ placed' = placed
        /\ own' = own \cup {s}
    BY <1>6 DEF Attempt
  <2>2. own' \in SUBSET Sends /\ own \subseteq own' /\ s \in own' /\ "pending" \in SendStates
    BY <1>0, <2>1 DEF SendStates
  <2> QED BY <1>0, <1>5, <2>1, <2>2
<1>7. ASSUME NEW s \in Sends, NEW outcome \in {"sent", "uncertain"}, Settle(s, outcome)
      PROVE  FileInv' /\ disk' \in Disks /\ placed' \subseteq Orders /\ own' \subseteq Sends
  <2>1. /\ disk' = [disk EXCEPT !.sends = [@ EXCEPT ![s] = outcome]] /\ placed' = placed
        /\ own' = own
    BY <1>7 DEF Settle, Shop, histories
  <2>2. own' \in SUBSET Sends /\ own \subseteq own' /\ outcome # "pending" /\ outcome \in SendStates
    BY <1>0, <2>1 DEF SendStates
  <2> QED BY <1>0, <1>5, <2>1, <2>2
<1> QED BY <1>1, <1>4, <1>6, <1>7

-----------------------------------------------------------------------------
(* The backups. *)

\* Pruning keeps the newest file and files only.
LEMMA KeptFiles ==
  ASSUME NEW S, NEW files \in Seq(S), files # <<>>
  PROVE  /\ Kept(files) \in Seq(S)
         /\ \E i \in 1..Len(Kept(files)) : Kept(files)[i] = files[Len(files)]
<1> USE RetentionAssumption
<1>1. CASE Len(files) <= Retention
  BY <1>1 DEF Kept
<1>2. CASE Len(files) > Retention
  <2> DEFINE n == Len(files)
             k == n - Retention + 1
             tail == SubSeq(files, k, n)
  <2>1. n \in Nat /\ k \in 1..n
    BY <1>2
  <2>2. tail \in Seq(S) /\ Len(tail) = Retention /\ \A i \in 1..Retention : tail[i] = files[k + i - 1]
    BY <1>2, <2>1
  <2>3. k + Retention - 1 = n
    OBVIOUS
  <2>4. Kept(files) = tail
    BY <1>2 DEF Kept
  <2>5. tail[Retention] = files[n] /\ Retention \in 1..Len(tail)
    BY <2>2, <2>3
  <2> HIDE DEF tail
  <2> QED BY <2>2, <2>4, <2>5
<1> QED BY <1>1, <1>2

\* The newest verified backup stays, whatever fails after it.
LEMMA ShelfKept ==
  ASSUME Inv, [Next]_vars
  PROVE  Shelf' /\ NewestBackupKept'
<1> USE BoundAssumption
<1>0. /\ shelf \in Seq(Files) /\ copying \in BOOLEAN /\ taken \in 0..MaxBackups
      /\ verified \in 0..MaxBackups /\ (copying => pc = "up" /\ taken # 0 /\ shelf # <<>>)
      /\ NewestBackupKept
  BY DEF Inv, Shelf
<1>1. CASE UNCHANGED <<shelf, taken, verified>> /\ (copying' = FALSE \/ (copying' = copying /\ pc' = pc))
  <2>1. NewestBackupKept'
    BY <1>0, <1>1 DEF NewestBackupKept
  <2>2. CASE copying' = FALSE
    BY <1>0, <1>1, <2>1, <2>2 DEF Shelf
  <2>3. CASE copying' = copying /\ pc' = pc
    BY <1>0, <1>1, <2>1, <2>3 DEF Shelf
  <2> QED BY <1>1, <2>2, <2>3
<1>2. CASE BackupBegins
  <2> DEFINE file == [name |-> taken + 1, good |-> FALSE]
  <2>1. /\ shelf' = Append(shelf, file) /\ pc' = "up" /\ copying' = TRUE
        /\ taken' = taken + 1 /\ verified' = verified /\ taken < MaxBackups
    BY <1>2 DEF BackupBegins, histories
  <2>2. file \in Files /\ taken' \in 0..MaxBackups /\ taken' # 0
    BY <1>0, <2>1 DEF Files
  <2> HIDE DEF file
  <2>3. /\ shelf' \in Seq(Files) /\ shelf' # <<>> /\ Len(shelf') = Len(shelf) + 1
        /\ \A i \in 1..Len(shelf) : shelf'[i] = shelf[i]
    BY <1>0, <2>1, <2>2
  <2>4. NewestBackupKept'
    <3> SUFFICES ASSUME verified # 0
                 PROVE  \E i \in 1..Len(shelf') : shelf'[i] = [name |-> verified, good |-> TRUE]
      BY <2>1 DEF NewestBackupKept
    <3>1. PICK i \in 1..Len(shelf) : shelf[i] = [name |-> verified, good |-> TRUE]
      BY <1>0 DEF NewestBackupKept
    <3>2. i \in 1..Len(shelf') /\ shelf'[i] = shelf[i]
      BY <1>0, <2>3
    <3> QED BY <3>1, <3>2
  <2> QED BY <1>0, <2>1, <2>2, <2>3, <2>4 DEF Shelf
<1>3. CASE BackupVerified
  <2> DEFINE file == [name |-> taken, good |-> TRUE]
             files == [shelf EXCEPT ![Len(shelf)] = file]
  <2>1. /\ copying /\ copying' = FALSE /\ shelf' = Kept(files)
        /\ taken' = taken /\ verified' = taken
    BY <1>3 DEF BackupVerified
  <2>2. file \in Files
    BY <1>0, <2>1 DEF Files
  <2>3. Len(shelf) \in 1..Len(shelf)
    BY <1>0, <2>1
  <2>4. files \in Seq(Files) /\ Len(files) = Len(shelf) /\ files[Len(files)] = file
    <3> HIDE DEF file
    <3> QED BY <1>0, <2>2, <2>3
  <2>5. files # <<>>
    BY <2>3, <2>4
  <2> HIDE DEF files
  <2>6. shelf' \in Seq(Files) /\ \E i \in 1..Len(shelf') : shelf'[i] = file
    BY <2>1, <2>4, <2>5, KeptFiles
  <2> QED BY <1>0, <2>1, <2>6 DEF Shelf, NewestBackupKept
<1>4. CASE BackupFails \/ Crash
  <2>1. UNCHANGED <<shelf, taken, verified>> /\ copying' = FALSE
    BY <1>4 DEF BackupFails, Crash, histories
  <2> QED BY <1>1, <2>1
<1>5. CASE Begin \/ StartUp
  <2>1. pc # "up" /\ UNCHANGED <<shelf, taken, verified, copying>>
    BY <1>5, Order, StartKeeps DEF Begin, StartUp, Changes, Bootstrap, AddColumns, SettlePending, DropBalance,
       CreateRebuilt, CopyRows, DropOrders, RenameRebuilt, MigrateMoney, AddDelivery, AssignReferences,
       MinimizeMemory, AddCatalog, Does, Commits, SkipRebuild, RebuiltExists, ExactAlready, MoneyRefused, Throws,
       Shop, histories
  <2>2. copying' = FALSE
    BY <1>0, <2>1
  <2> QED BY <1>1, <2>1, <2>2
<1>6. CASE \/ \E o \in Orders : PlaceOrder(o)
           \/ \E s \in Sends : Attempt(s)
           \/ \E s \in Sends, outcome \in {"sent", "uncertain"} : Settle(s, outcome)
  BY <1>1, <1>6, ServingKept
<1>7. CASE UNCHANGED vars
  BY <1>1, <1>7 DEF vars, histories
<1> QED BY <1>2, <1>3, <1>4, <1>5, <1>6, <1>7, Zenon DEF Next

-----------------------------------------------------------------------------
(* The theorems. *)

\* Of any file the start-up may find.
LEMMA Begins == Init => Inv
<1> SUFFICES ASSUME Init PROVE Inv
  OBVIOUS
<1>0. "orders" \in Money /\ "products" \in Money /\ "ledger" \in Money
  BY DEF Money
<1> DEFINE FromBeforeLedger == \E rows \in SUBSET Orders, raw \in SUBSET Texts :
                                 disk = BeforeLedger(rows, raw)
           FromRupees == \E rows \in SUBSET Orders, raw \in SUBSET Texts,
                            sends \in OlderSends, sound \in BOOLEAN :
                           disk = InRupees(rows, raw, sends, sound)
           FromPaisas == \E rows \in SUBSET Orders, raw \in SUBSET Texts, sends \in OlderSends :
                           disk = InPaisas(rows, raw, sends)
<1>1. disk = Empty \/ FromBeforeLedger \/ FromRupees \/ FromPaisas
  <2>1. \/ disk \in {Empty}
        \/ disk \in {BeforeLedger(rows, raw) : rows \in SUBSET Orders, raw \in SUBSET Texts}
        \/ disk \in {InRupees(rows, raw, sends, sound) :
                       rows \in SUBSET Orders, raw \in SUBSET Texts, sends \in OlderSends, sound \in BOOLEAN}
        \/ disk \in {InPaisas(rows, raw, sends) :
                       rows \in SUBSET Orders, raw \in SUBSET Texts, sends \in OlderSends}
    BY DEF Init
  <2> QED BY <2>1, SMT
<1>2. Empty \in Disks
  BY DEF Empty, Disks, Units, SendStates
<1> DEFINE Good ==
      /\ disk \in Disks /\ ~disk.rebuilt /\ ~disk.marked
      /\ \/ disk.checked \/ disk.units["orders"] = "none"
         \/ disk.units["products"] = "rupees" /\ disk.units["ledger"] = "none"
<1>3. Good
  <2>0. OlderSends \subseteq [Sends -> SendStates]
    BY DEF OlderSends, SendStates
  <2>1. CASE disk = Empty
    BY <1>0, <1>2, <2>1 DEF Empty
  <2>2. ASSUME NEW rows \in SUBSET Orders, NEW raw \in SUBSET Texts, disk = BeforeLedger(rows, raw)
        PROVE  Good
    <3> DEFINE units == [t \in Money |-> IF t \in {"products", "orders"} THEN "rupees" ELSE "none"]
    <3>1. /\ units \in [Money -> Units]
          /\ units["products"] = "rupees" /\ units["ledger"] = "none"
      BY <1>0 DEF Units
    <3>2. disk = [Empty EXCEPT !.units = units, !.rows = rows, !.balance = TRUE, !.raw = raw]
      BY <2>2 DEF BeforeLedger
    <3> HIDE DEF units
    <3>3. disk \in Disks
      BY <1>2, <3>1, <3>2 DEF Disks
    <3>4. disk.units = units /\ disk.rebuilt = FALSE /\ disk.marked = FALSE
      BY <3>2 DEF Empty
    <3> QED BY <3>1, <3>3, <3>4
  <2>3. ASSUME NEW rows \in SUBSET Orders, NEW raw \in SUBSET Texts, NEW sends \in OlderSends,
               NEW sound \in BOOLEAN, disk = InRupees(rows, raw, sends, sound)
        PROVE  Good
    <3> DEFINE units == [t \in Money |-> "rupees"]
    <3>1. units \in [Money -> Units]
      BY DEF Units
    <3>2. disk = [Empty EXCEPT !.units = units, !.checked = TRUE, !.rows = rows,
                               !.raw = raw, !.sends = sends, !.sound = sound]
      BY <2>3 DEF InRupees
    <3> HIDE DEF units
    <3>3. disk \in Disks
      BY <1>2, <2>0, <3>1, <3>2 DEF Disks
    <3>4. disk.checked = TRUE /\ disk.rebuilt = FALSE /\ disk.marked = FALSE
      BY <3>2 DEF Empty
    <3> QED BY <3>3, <3>4
  <2>4. ASSUME NEW rows \in SUBSET Orders, NEW raw \in SUBSET Texts, NEW sends \in OlderSends,
               disk = InPaisas(rows, raw, sends)
        PROVE  Good
    <3> DEFINE units == [t \in Money |-> "paisas"]
               columns == {"image"}
    <3>1. units \in [Money -> Units] /\ columns \in SUBSET Columns
      BY DEF Units, Columns
    <3>2. disk = [Empty EXCEPT !.units = units, !.checked = TRUE, !.rows = rows,
                               !.raw = raw, !.sends = sends, !.columns = columns]
      BY <2>4 DEF InPaisas
    <3> HIDE DEF units, columns
    <3>3. disk \in Disks
      BY <1>2, <2>0, <3>1, <3>2 DEF Disks
    <3>4. disk.checked = TRUE /\ disk.rebuilt = FALSE /\ disk.marked = FALSE
      BY <3>2 DEF Empty
    <3> QED BY <3>3, <3>4
  <2> HIDE DEF Good
  <2> QED BY <1>1, <2>1, <2>2, <2>3, <2>4
<1>4. ~disk.rebuilt /\ ~disk.marked
  BY <1>3
<1>5. \/ disk.checked \/ disk.units["orders"] = "none"
      \/ disk.units["products"] = "rupees" /\ disk.units["ledger"] = "none"
  BY <1>3
<1>6. Typed
  <2>1. converted \in BOOLEAN
    BY Zenon DEF Init
  <2>2. disk \in Disks /\ disk.rows \in SUBSET Orders
    BY <1>3 DEF Disks
  <2> QED BY <2>1, <2>2, BuildsAssumption DEF Init, Typed
<1>7. Shelf /\ NewestBackupKept
  <2>1. shelf \in Seq(Files) /\ 0 \in 0..MaxBackups
    BY BoundAssumption DEF Init
  <2> QED BY <2>1 DEF Init, Shelf, NewestBackupKept
<1>8. OnlyLegacyRebuilt(disk)
  BY <1>4, <1>5 DEF OnlyLegacyRebuilt, Legacy
<1>9. Rows(disk) /\ Progress(disk) /\ Opened(disk)
  BY <1>4 DEF Init, Rows, Progress, Opened, Rebuilding, PastPending, PastMoney, Places
<1> QED BY <1>6, <1>7, <1>8, <1>9 DEF Inv

\* The invariant is inductive.
LEMMA StepKept == Inv /\ [Next]_vars => Inv'
<1> SUFFICES ASSUME Inv, [Next]_vars PROVE Inv'
  OBVIOUS
<1>0. FileInv /\ Typed
  BY DEF Inv, FileInv
<1>1. Shelf' /\ NewestBackupKept'
  BY ShelfKept
<1>2. CASE Changes
  <2>1. FileInv'
    BY <1>2, BootstrapKept, ColumnsKept, RebuildKept, ConversionsKept DEF Changes
  <2>2. disk' \in Disks
    BY <1>2, StartTyped
  <2>3. build' = build /\ placed' = placed /\ own' = own /\ converted' \in {converted, TRUE}
    BY <1>2, StartKeeps
  <2>4. pc' \in Places \cup {"up"}
    <3>1. pc \in Places /\ pc' = After(pc)
      BY <1>2 DEF Changes, Bootstrap, AddColumns, SettlePending, DropBalance, CreateRebuilt, CopyRows,
         DropOrders, RenameRebuilt, MigrateMoney, AddDelivery, AssignReferences, MinimizeMemory,
         AddCatalog, Does, Commits, Places
    <3> QED BY <3>1, Order DEF Places
  <2> QED BY <1>0, <1>1, <2>1, <2>2, <2>3, <2>4 DEF Inv, FileInv, Typed
<1>3. CASE Begin \/ SkipRebuild \/ RebuiltExists \/ ExactAlready \/ MoneyRefused \/ Crash
  <2>1. FileInv'
    BY <1>3, TurnsKept
  <2>2. /\ UNCHANGED <<disk, build, placed>> /\ own' \in {own, {}} /\ converted' \in {converted, FALSE}
        /\ pc' \in {"schema", "money", "failed", "delivery", "down"}
    BY <1>3 DEF Begin, SkipRebuild, RebuiltExists, ExactAlready, MoneyRefused, Throws, Crash, Shop, histories
  <2> QED BY <1>0, <1>1, <2>1, <2>2 DEF Inv, FileInv, Typed, Places
<1>4. CASE \/ \E o \in Orders : PlaceOrder(o)
           \/ \E s \in Sends : Attempt(s)
           \/ \E s \in Sends, outcome \in {"sent", "uncertain"} : Settle(s, outcome)
  BY <1>0, <1>1, <1>4, ServingKept DEF Inv, FileInv, Typed
<1>5. CASE BackupBegins \/ BackupFails \/ BackupVerified \/ UNCHANGED vars
  <2>1. UNCHANGED <<disk, pc, build, placed, own, converted>>
    BY <1>5 DEF BackupBegins, BackupFails, BackupVerified, vars, histories
  <2>2. Typed'
    BY <1>0, <2>1 DEF Typed
  <2>3. FileInv'
    BY <1>0, <2>1 DEF FileInv, OnlyLegacyRebuilt, Legacy, Rows, Progress, Opened
  <2> QED BY <1>1, <2>2, <2>3 DEF Inv, FileInv
<1> QED BY <1>2, <1>3, <1>4, <1>5, Zenon DEF Next, StartUp, Changes

\* The invariant holds in every reachable state.
LEMMA AlwaysInv == Spec => []Inv
BY Begins, StepKept, PTL DEF Spec

\* File, start-up and backups keep their types, and only a process that is up
\* is copying its file (db.ts, database-backup.ts).
THEOREM TypesKept == Spec => []TypeOK
<1>1. Inv => TypeOK
  BY StepsNamed DEF Inv, Typed, Shelf, TypeOK
<1> QED BY <1>1, AlwaysInv, PTL

\* No order is lost between the statements of the rebuild, whatever the number
\* of orders, crashes and refused starts (migrateOrdersStatusConstraint).
THEOREM NoOrderLost == Spec => []OrdersNeverLost
<1>1. Inv => OrdersNeverLost
  BY DEF Inv, Rows, OrdersNeverLost
<1> QED BY <1>1, AlwaysInv, PTL

\* A process that is up serves every order with its reference, in paisas, the
\* memory redacted, nothing pending it did not begin, and every column the
\* program uses; only the start that changed rupees to paisas lacks the image of
\* the products and the reversal columns of the claims (db.ts, start-up order).
THEOREM OnlyWholeServed == Spec => []ServedFileIsWhole
<1>1. ASSUME Inv, pc = "up"
      PROVE  /\ disk.rows = placed /\ disk.referenced = disk.rows
             /\ \A t \in Money : disk.units[t] = "paisas"
             /\ (IF converted THEN Columns \ {"image", "reversal"} ELSE Columns) \subseteq disk.columns
             /\ disk.raw = {}
             /\ \A s \in Sends : disk.sends[s] = "pending" => s \in own
  <2>1. /\ \A t \in Money : disk.units[t] = "paisas"
        /\ {"attempts", "delivery", "public_ref", "catalog"} \subseteq disk.columns
        /\ ~converted => {"image", "reversal"} \subseteq disk.columns
        /\ disk.referenced = disk.rows /\ disk.marked
        /\ \A s \in Sends : disk.sends[s] = "pending" => s \in own
    BY <1>1 DEF Inv, Progress, PastMoney, PastPending
  <2>2. ~disk.rebuilt
    <3>1. "products" \in Money
      BY DEF Money
    <3> QED BY <1>1, <2>1, <3>1 DEF Inv, OnlyLegacyRebuilt, Legacy
  <2>3. disk.rows = placed /\ disk.raw = {}
    BY <1>1, <2>1, <2>2 DEF Inv, Rows, Opened
  <2> QED BY <2>1, <2>3 DEF Columns
<1>2. Inv => ServedFileIsWhole
  BY <1>1 DEF ServedFileIsWhole
<1> QED BY <1>2, AlwaysInv, PTL

\* A file that was opened once is never refused later (openDb's checks come
\* before the marker of minimizeHistoricalDerivedMemory).
THEOREM OpenedStaysOpenable == Spec => []OpenedFileReopens
<1>1. Inv => OpenedFileReopens
  BY DEF Inv, Opened, OpenedFileReopens
<1> QED BY <1>1, AlwaysInv, PTL

\* The newest verified backup outlives failed copies and pruning
\* (database-backup.ts, the retention after a verified copy).
THEOREM NewestStays == Spec => []NewestBackupKept
<1>1. Inv => NewestBackupKept
  BY DEF Inv
<1> QED BY <1>1, AlwaysInv, PTL
=============================================================================
