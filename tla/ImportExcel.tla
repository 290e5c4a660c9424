----------------------------- MODULE ImportExcel -----------------------------
(***************************************************************************)
(* The batch import of an administrator (ImportExcel.jsx, ProductRow.jsx):  *)
(* a file is read into a table, its rows are edited and deleted, and the    *)
(* table is minted with one batchMintWithLogs per chunk, two awaits in      *)
(* each.  The tab may be left at any point: the loop goes on without it.    *)
(***************************************************************************)
EXTENDS Naturals, Sequences

CONSTANTS
  Code,        \* product codes ("Mã SP")
  Name,        \* product names, as clean() leaves them or as they are typed
  Step,        \* descriptions of a step
  Blank,       \* the empty one
  RootEntry,   \* "KHOI_TAO", what is minted in its place
  NotEditing,
  ItemsPerPage,
  ChunkSize,
  HasContract, \* whether the contract prop is given (App.js:106 gives none)
  MaxPage,     \* bound: page numbers, which nothing else stops
  Files,       \* bound: the products of the files that are chosen
  Edited,      \* bound: the rows that are edited
  Loop         \* bound: runs of handleExecuteMint

\* A product and the steps of its lines in the file, one for each line.
Row == [code : Code, name : Name, history : Seq(Step) \ {<<>>}]

\* Mutant: the last step is minted for the first.
MintedLastStep(row) ==
  LET last == row.history[Len(row.history)]
  IN  [code |-> row.code, name |-> row.name,
       step |-> IF last = Blank THEN RootEntry ELSE last]

\* What batchMintWithLogs is given of a product: the first of its steps.
MintedForm(row) ==
  [code |-> row.code, name |-> row.name,
   step |-> IF row.history[1] = Blank THEN RootEntry ELSE row.history[1]]

MintedRow == [code : Code, name : Name, step : Step \cup {RootEntry}]

\* chunk.map, of all the chunks.
Params(rows) == [i \in DOMAIN rows |-> MintedForm(rows[i])]

\* What raw.reduce makes of a file: its products, grouped by their code.
IsTable(rows) ==
  /\ rows \in Seq(Row)
  /\ \A i, j \in DOMAIN rows : rows[i].code = rows[j].code => i = j

ASSUME FileAssumption  == \A rows \in Files : IsTable(rows)
ASSUME PageAssumption  == ItemsPerPage \in Nat \ {0}
ASSUME ChunkAssumption == ChunkSize \in Nat \ {0}
ASSUME PropAssumption  == HasContract \in BOOLEAN
ASSUME EditAssumption  == NotEditing \notin Name
ASSUME StepAssumption  == Blank \in Step

VARIABLES
  table,    \* the state of the component
  editing,  \* code -> the name in the row's open editor
  loop,     \* loop -> its place in handleExecuteMint and its closure
  minted    \* loop -> what its transactions have minted, in order

importVars == <<table, editing, loop, minted>>

\* No component is mounted at step 0.
Table == [step : 0 .. 3, cleaning : BOOLEAN, minting : BOOLEAN,
          rows : Seq(Row), page : Nat]

NoTable    == [step |-> 0, cleaning |-> FALSE, minting |-> FALSE,
               rows |-> <<>>, page |-> 1]
FreshTable == [NoTable EXCEPT !.step = 1]
NoEditor   == [c \in Code |-> NotEditing]

\* at counts the rows of the chunks that are through, tx is the chunk's transaction,
\* and the loop is attached to the component that started it until that unmounts.
Running    == {"sign", "wait"}
LoopRecord == [pc : Running \cup {"idle", "completed", "fatal", "cut"},
               tx : {"none", "pool", "mined", "reverted"},
               rows : Seq(Row), at : Nat, attached : BOOLEAN]

IdleLoop == [pc |-> "idle", tx |-> "none", rows |-> <<>>, at |-> 0,
             attached |-> FALSE]

ImportInit ==
  /\ table = NoTable
  /\ editing = NoEditor
  /\ loop = [l \in Loop |-> IdleLoop]
  /\ minted = [l \in Loop |-> <<>>]

-------------------------------------------------------------------------------
(* The table and its rows. *)

OpenImport ==
  /\ table.step = 0
  /\ table' = FreshTable
  /\ UNCHANGED <<editing, loop, minted>>

\* Mutant: a loop keeps the component it was started from.
LeaveAttached(cut) ==
  /\ table' = NoTable
  /\ editing' = NoEditor
  /\ loop' = [l \in Loop |->
       [loop[l] EXCEPT !.pc = IF cut /\ @ \in Running THEN "cut" ELSE @]]
  /\ UNCHANGED minted

\* Another tab, or with cut a reload of the document: the loops end with it, their
\* transactions do not.
LeaveImport(cut) ==
  /\ table' = NoTable
  /\ editing' = NoEditor
  /\ loop' = [l \in Loop |->
       [loop[l] EXCEPT !.pc = IF cut /\ @ \in Running THEN "cut" ELSE @,
                       !.attached = FALSE]]
  /\ UNCHANGED minted

ChooseFile ==
  /\ table.step = 1
  /\ table' = [table EXCEPT !.step = 2, !.cleaning = TRUE]
  /\ UNCHANGED <<editing, loop, minted>>

\* Mutant: the lines of a file are not grouped by their code.
CleanedUngrouped(rows) ==
  /\ table.cleaning
  /\ table' = [table EXCEPT !.step = 3, !.cleaning = FALSE, !.rows = rows \o rows]
  /\ UNCHANGED <<editing, loop, minted>>

\* The timer of reader.onload; a file that cannot be read never gets here.
Cleaned(rows) ==
  /\ table.cleaning
  /\ table' = [table EXCEPT !.step = 3, !.cleaning = FALSE, !.rows = rows]
  /\ UNCHANGED <<editing, loop, minted>>

\* The rows of the current page.
OnPage(t) ==
  {i \in DOMAIN t.rows : i > (t.page - 1) * ItemsPerPage /\ i <= t.page * ItemsPerPage}

\* Row i is shown, and its editor is open or is not.
ShownRow(i, open) ==
  /\ table.step = 3
  /\ i \in OnPage(table)
  /\ (editing[table.rows[i].code] # NotEditing) = open

\* A row whose code is not on the page any more is unmounted, and its editor lost.
KeepEditors(t) ==
  editing' = [c \in Code |-> IF \E i \in OnPage(t) : t.rows[i].code = c
                             THEN editing[c] ELSE NotEditing]

\* setIsEditing(true), the name field, and handleCancel.
EditName(i, open, name) ==
  /\ ShownRow(i, open)
  /\ editing' = [editing EXCEPT ![table.rows[i].code] = name]
  /\ UNCHANGED <<table, loop, minted>>

StartEdit(i) == table.rows[i].code \in Edited /\ EditName(i, FALSE, table.rows[i].name)
TypeName(i, name) == EditName(i, TRUE, name)
Cancel(i) == EditName(i, TRUE, NotEditing)

\* updateStep writes into the step that tempItem shares with the table's item.
TypeStep(i, k, step) ==
  /\ ShownRow(i, TRUE)
  /\ table' = [table EXCEPT !.rows[i].history[k] = step]
  /\ UNCHANGED <<editing, loop, minted>>

Save(i) ==
  /\ ShownRow(i, TRUE)
  /\ table' = [table EXCEPT !.rows[i].name = editing[table.rows[i].code]]
  /\ editing' = [editing EXCEPT ![table.rows[i].code] = NotEditing]
  /\ UNCHANGED <<loop, minted>>

\* Rows that move on to the page are mounted, without an editor.
Delete(i) ==
  /\ ShownRow(i, FALSE)
  /\ table' = [table EXCEPT !.rows = [k \in 1 .. Len(table.rows) - 1 |->
                  table.rows[IF k < i THEN k ELSE k + 1]]]
  /\ KeepEditors(table')
  /\ UNCHANGED <<loop, minted>>

\* The number of the last page, which the deletions may have left behind.
TotalPages ==
  IF table.rows = <<>> THEN 1 ELSE (Len(table.rows) + ItemsPerPage - 1) \div ItemsPerPage

\* The first page has no button back and the last one none forward; a page that no
\* longer exists has both.
TurnPage(page) ==
  /\ table.step = 3
  /\ \/ table.page # 1 /\ page = table.page - 1
     \/ table.page # TotalPages /\ page = table.page + 1
  /\ page <= MaxPage
  /\ table' = [table EXCEPT !.page = page]
  /\ editing' = NoEditor
  /\ UNCHANGED <<loop, minted>>

-------------------------------------------------------------------------------
(* handleExecuteMint. *)

\* With no rows the loop is over at once and the table comes back as it was.
StartMint(l) ==
  /\ HasContract
  /\ table.step = 3 /\ table.rows # <<>>
  /\ loop[l].pc = "idle"
  /\ table' = [table EXCEPT !.step = 2, !.minting = TRUE]
  /\ editing' = NoEditor
  /\ loop' = [loop EXCEPT ![l] = [IdleLoop EXCEPT !.pc = "sign", !.attached = TRUE,
                                                  !.rows = table.rows]]
  /\ UNCHANGED minted

\* Mutant: a chunk is cut one row short.
ChunkEndShort(r) ==
  LET next == r.at + ChunkSize - 1 IN IF next < Len(r.rows) THEN next ELSE Len(r.rows)

\* cleanedData.slice(i, i + CHUNK_SIZE), which may be shorter at the end.
ChunkEnd(r) == IF r.at + ChunkSize < Len(r.rows) THEN r.at + ChunkSize ELSE Len(r.rows)

\* The wallet signs and sends the transaction of the chunk.
SendChunk(l) ==
  /\ loop[l].pc = "sign"
  /\ loop' = [loop EXCEPT ![l].pc = "wait", ![l].tx = "pool"]
  /\ UNCHANGED <<table, editing, minted>>

\* Mutant: the chunks overlap by a row.
MineOverlapping(l) ==
  /\ loop[l].tx = "pool"
  /\ loop' = [loop EXCEPT ![l].tx = "mined"]
  /\ minted' = [minted EXCEPT ![l] = @ \o
       SubSeq(Params(loop[l].rows), IF loop[l].at = 0 THEN 1 ELSE loop[l].at,
              ChunkEnd(loop[l]))]
  /\ UNCHANGED <<table, editing>>

\* The chain executes it, all of it or nothing, whatever has become of the loop.
MineChunk(l) ==
  /\ loop[l].tx = "pool"
  /\ loop' = [loop EXCEPT ![l].tx = "mined"]
  /\ minted' = [minted EXCEPT ![l] = @ \o
                  SubSeq(Params(loop[l].rows), loop[l].at + 1, ChunkEnd(loop[l]))]
  /\ UNCHANGED <<table, editing>>

RevertChunk(l) ==
  /\ loop[l].tx = "pool"
  /\ loop' = [loop EXCEPT ![l].tx = "reverted"]
  /\ UNCHANGED <<table, editing, minted>>

\* Mutant: the loop ends without setStep(3).
CompletedKeepsStep(l) ==
  /\ loop[l].pc = "wait" /\ loop[l].tx = "mined"
  /\ LET end == ChunkEnd(loop[l]) IN
     IF end < Len(loop[l].rows)
     THEN /\ loop' = [loop EXCEPT ![l].pc = "sign", ![l].tx = "none", ![l].at = end]
          /\ UNCHANGED table
     ELSE /\ loop' = [loop EXCEPT ![l].pc = "completed", ![l].tx = "none", ![l].at = end]
          /\ table' = IF loop[l].attached THEN [table EXCEPT !.minting = FALSE] ELSE table
  /\ UNCHANGED <<editing, minted>>

\* tx.wait() returns: the next chunk is sent, or all of them are through.
ChunkReceipt(l) ==
  /\ loop[l].pc = "wait" /\ loop[l].tx = "mined"
  /\ LET end == ChunkEnd(loop[l]) IN
     IF end < Len(loop[l].rows)
     THEN /\ loop' = [loop EXCEPT ![l].pc = "sign", ![l].tx = "none", ![l].at = end]
          /\ UNCHANGED table
     ELSE /\ loop' = [loop EXCEPT ![l].pc = "completed", ![l].tx = "none", ![l].at = end]
          /\ table' = IF loop[l].attached
                      THEN [table EXCEPT !.step = 3, !.minting = FALSE] ELSE table
  /\ UNCHANGED <<editing, minted>>

\* Mutant: an error goes on to the end of the loop instead of returning.
FatalGoesOn(l) ==
  /\ loop[l].pc \in Running
  /\ loop' = [loop EXCEPT ![l].pc = "fatal"]
  /\ table' = IF loop[l].attached
              THEN [table EXCEPT !.step = 3, !.minting = FALSE] ELSE table
  /\ UNCHANGED <<editing, minted>>

\* The wallet refuses, the transaction reverts or the answer is lost: the loop
\* returns, and the table stays at the step that shows the logs.
Fatal(l) ==
  /\ loop[l].pc \in Running
  /\ loop' = [loop EXCEPT ![l].pc = "fatal"]
  /\ table' = IF loop[l].attached THEN [table EXCEPT !.minting = FALSE] ELSE table
  /\ UNCHANGED <<editing, minted>>

LoopNext(l) ==
  \/ SendChunk(l) \/ MineChunk(l) \/ RevertChunk(l) \/ ChunkReceipt(l) \/ Fatal(l)

RowNext(i) ==
  \/ StartEdit(i) \/ Cancel(i) \/ Save(i) \/ Delete(i)
  \/ \E name \in Name : TypeName(i, name)
  \/ \E k \in DOMAIN table.rows[i].history, step \in Step : TypeStep(i, k, step)

\* What the component and its loops do while it stays where it is.
ImportStep ==
  \/ ChooseFile \/ \E rows \in Files : Cleaned(rows)
  \/ \E i \in DOMAIN table.rows : RowNext(i)
  \/ TurnPage(table.page - 1) \/ TurnPage(table.page + 1)
  \/ \E l \in Loop : StartMint(l) \/ LoopNext(l)

ImportNext == OpenImport \/ (\E cut \in BOOLEAN : LeaveImport(cut)) \/ ImportStep

ImportSpec == ImportInit /\ [][ImportNext]_importVars

-------------------------------------------------------------------------------
(* What the import keeps true. *)

\* Every variable of the import holds a value of its kind; the rows of the table and
\* of every loop are those of different products.
ImportTypeOK ==
  /\ table \in Table /\ IsTable(table.rows)
  /\ editing \in [Code -> Name \cup {NotEditing}]
  /\ loop \in [Loop -> LoopRecord]
  /\ \A l \in Loop : IsTable(loop[l].rows) /\ loop[l].at <= Len(loop[l].rows)
  /\ minted \in [Loop -> Seq(MintedRow)]

\* However a loop is left behind, cut or ended by an error after its transaction went
\* through, the hub holds exactly its first chunks, each product once and as it was
\* when the loop started, and at most one chunk more than the loop knows of; a loop
\* that has completed has minted a product for each row (ImportExcel.jsx:83-118).
MintedIsPrefix ==
  \A l \in Loop :
    LET all == Params(loop[l].rows) IN
    /\ minted[l] \in {SubSeq(all, 1, loop[l].at), SubSeq(all, 1, ChunkEnd(loop[l]))}
    /\ loop[l].pc = "completed" => minted[l] = all

\* The component says it is minting as long as the one loop it started is running,
\* and no loop of an earlier mount counts (ImportExcel.jsx:79, 115, 121).
MintingIsRunning ==
  LET own == {l \in Loop : loop[l].attached /\ loop[l].pc \in Running} IN
  /\ table.minting <=> own # {}
  /\ \A k, l \in own : k = l

\* The screen with the spinner and without buttons is left behind by nothing but an
\* error: a file is being read, the loop is running, or its last message is [FATAL]
\* (ImportExcel.jsx:115-116).
SpinsForAReason ==
  table.step = 2 =>
    \/ table.cleaning \/ table.minting
    \/ \E l \in Loop : loop[l].attached /\ loop[l].pc = "fatal"

\* A row as it is shown is on the hub with its code, its name and its first step.
OnHubFirst(row, m) ==
  /\ m.code = row.code /\ m.name = row.name
  /\ m.step = row.history[1] \/ row.history[1] = Blank

\* When minting brings the table back, after "[COMPLETED]", the loop of this table has
\* minted every row under the name and with the first step that the row shows: no
\* edit, deletion or earlier loop comes between (ImportExcel.jsx:83-122).
CompletedIsMinted ==
  [][table.minting /\ table'.step = 3 =>
       \E l \in Loop : /\ loop[l].attached
                       /\ \A i \in DOMAIN table'.rows : \E k \in DOMAIN minted[l] :
                            OnHubFirst(table'.rows[i], minted[l][k])]_importVars

\* "[COMPLETED]:: Tất cả dữ liệu đã được ghi vào Blockchain" (ImportExcel.jsx:120), all
\* data has been written to the blockchain: every step of every row is.  False: only
\* the first step of a product is minted (:57, :96-98).
AllDataIsMinted ==
  [][table.minting /\ table'.step = 3 =>
       \A i \in DOMAIN table'.rows : LET row == table'.rows[i] IN
         \A n \in DOMAIN row.history : row.history[n] # Blank =>
           \E l \in Loop : \E k \in DOMAIN minted[l] :
             minted[l][k].code = row.code /\ minted[l][k].step = row.history[n]]_importVars

\* Minting implements the batch: what a loop mints is fixed when it starts, and its
\* products come on the hub in their order, a chunk at a time and all of it at once,
\* whatever becomes of the loop (the slices of ImportExcel.jsx:83-110).
Batches == INSTANCE ChunkedBatch WITH
  Batch <- Loop,
  Size  <- ChunkSize,
  batch <- [l \in Loop |-> Params(loop[l].rows)],
  done  <- minted
MintsInChunks == Batches!Spec
==============================================================================
