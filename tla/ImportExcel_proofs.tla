-------------------------- MODULE ImportExcel_proofs --------------------------
(***************************************************************************)
(* Theorems about the batch import, for any files, edits, chunk sizes and  *)
(* number of loops, wherever the user leaves them: the table, the loops    *)
(* and what they have minted fit together.                                 *)
(***************************************************************************)
EXTENDS ImportExcel, SequenceTheorems, TLAPS

-------------------------------------------------------------------------------
(* The inductive invariant. *)

\* A table is minted or read while the spinner is shown, never both; pages count from 1.
GoodTable(t) ==
  /\ t \in Table /\ IsTable(t.rows) /\ t.page # 0
  /\ t.cleaning => t.step = 2 /\ ~ t.minting
  /\ t.minting => t.step = 2

\* What the place of a loop says of its chunk.
GoodLoop(r) ==
  /\ r \in LoopRecord /\ IsTable(r.rows) /\ r.at <= Len(r.rows)
  /\ r.pc = "sign" => r.tx = "none"
  /\ r.pc = "idle" => r.tx = "none" /\ r.rows = <<>> /\ r.at = 0
  /\ r.pc = "completed" => r.tx = "none" /\ r.at = Len(r.rows)

\* What a loop has minted: the chunks behind it, and its own once that is mined.
Mint(r) == SubSeq(Params(r.rows), 1, IF r.tx = "mined" THEN ChunkEnd(r) ELSE r.at)

Owns(r) == r.attached /\ r.pc \in Running

\* The component and the loop it has started, if that is running.
OwnerOK ==
  /\ \A l \in Loop : Owns(loop[l]) => table.minting /\ loop[l].rows = table.rows
  /\ table.minting => \E l \in Loop : Owns(loop[l])
  /\ \A k, l \in Loop : Owns(loop[k]) /\ Owns(loop[l]) => k = l

LoopsOK ==
  /\ loop \in [Loop -> LoopRecord] /\ minted \in [Loop -> Seq(MintedRow)]
  /\ \A l \in Loop : GoodLoop(loop[l]) /\ minted[l] = Mint(loop[l])

EditingOK == editing \in [Code -> Name \cup {NotEditing}]

ImportInv ==
  GoodTable(table) /\ EditingOK /\ LoopsOK /\ OwnerOK /\ SpinsForAReason

-------------------------------------------------------------------------------
(* Loops and their chunks. *)

LEMMA RowMinted ==
  ASSUME NEW row \in Row
  PROVE  MintedForm(row) \in MintedRow /\ OnHubFirst(row, MintedForm(row))
<1> DEFINE step == IF row.history[1] = Blank THEN RootEntry ELSE row.history[1]
<1>1. row.code \in Code /\ row.name \in Name /\ row.history[1] \in Step
  BY DEF Row
<1>2. step \in Step \cup {RootEntry}
  BY <1>1
<1>3. MintedForm(row) = [code |-> row.code, name |-> row.name, step |-> step]
  BY DEF MintedForm
<1>4. step = row.history[1] \/ row.history[1] = Blank
  OBVIOUS
<1> HIDE DEF step
<1>5. QED
  BY <1>1, <1>2, <1>3, <1>4 DEF MintedRow, OnHubFirst

\* A table has as many rows as there are products to mint for it.
LEMMA ParamsProperties ==
  ASSUME NEW rows \in Seq(Row)
  PROVE  /\ Params(rows) \in Seq(MintedRow) /\ Len(Params(rows)) = Len(rows)
         /\ DOMAIN Params(rows) = DOMAIN rows
         /\ \A i \in DOMAIN rows : Params(rows)[i] = MintedForm(rows[i])
<1>1. DOMAIN rows = 1 .. Len(rows) /\ Len(rows) \in Nat
  BY LenProperties
<1>2. \A i \in 1 .. Len(rows) : MintedForm(rows[i]) \in MintedRow
  BY <1>1, RowMinted
<1>3. Params(rows) = [i \in 1 .. Len(rows) |-> MintedForm(rows[i])]
  BY <1>1 DEF Params
<1>4. Params(rows) \in Seq(MintedRow)
  BY <1>1, <1>2, <1>3
<1>5. Len(Params(rows)) = Len(rows)
  BY <1>1, <1>3
<1>6. QED
  BY <1>1, <1>3, <1>4, <1>5

LEMMA EmptyParams == Params(<<>>) = <<>>
<1>1. <<>> \in Seq(Row) /\ Len(<<>>) = 0
  OBVIOUS
<1>2. Params(<<>>) \in Seq(MintedRow) /\ Len(Params(<<>>)) = 0
  BY <1>1, ParamsProperties
<1>3. \A seq \in Seq(MintedRow) : Len(seq) = 0 => seq = <<>>
  OBVIOUS
<1>4. QED
  BY <1>2, <1>3

\* A chunk is never empty-handed or past the end of the table.
LEMMA ChunkEndProperties ==
  ASSUME NEW r, GoodLoop(r)
  PROVE  ChunkEnd(r) \in Nat /\ r.at <= ChunkEnd(r) /\ ChunkEnd(r) <= Len(r.rows)
<1>1. r.rows \in Seq(Row) /\ r.at \in Nat /\ r.at <= Len(r.rows)
  BY DEF GoodLoop, LoopRecord
<1>2. Len(r.rows) \in Nat
  BY <1>1, LenProperties
<1>3. QED
  BY <1>1, <1>2, ChunkAssumption DEF ChunkEnd

LEMMA MintIsRows ==
  ASSUME NEW r, GoodLoop(r)
  PROVE  Mint(r) \in Seq(MintedRow)
<1> DEFINE all == Params(r.rows)
<1>1. r.rows \in Seq(Row) /\ r.at \in Nat /\ r.at <= Len(r.rows)
  BY DEF GoodLoop, LoopRecord
<1>2. all \in Seq(MintedRow) /\ Len(all) = Len(r.rows) /\ Len(r.rows) \in Nat
  BY <1>1, ParamsProperties, LenProperties
<1> HIDE DEF all
<1>3. \A n \in Nat : n <= Len(all) => SubSeq(all, 1, n) \in Seq(MintedRow)
  <2> SUFFICES ASSUME NEW n \in Nat, n <= Len(all)
               PROVE  SubSeq(all, 1, n) \in Seq(MintedRow)
    OBVIOUS
  <2>1. \A i \in 1 .. n : all[i] \in MintedRow
    BY <1>2, LenProperties
  <2>2. QED
    BY <2>1, SubSeqProperties
<1>4. QED
  BY <1>1, <1>2, <1>3, ChunkEndProperties DEF Mint, all

\* The chunk that is mined follows on what the loop has minted.
LEMMA ChunkFollows ==
  ASSUME NEW r, GoodLoop(r), r.tx # "mined"
  PROVE  Mint(r) \o SubSeq(Params(r.rows), r.at + 1, ChunkEnd(r))
           = SubSeq(Params(r.rows), 1, ChunkEnd(r))
<1> DEFINE s == Params(r.rows)
           m == r.at
           n == ChunkEnd(r)
<1>1. s \in Seq(MintedRow) /\ m \in Nat /\ Len(s) \in Nat /\ Len(s) = Len(r.rows)
  BY LenProperties, ParamsProperties DEF GoodLoop, LoopRecord
<1>2. n \in Nat /\ m <= n /\ n <= Len(s)
  BY <1>1, ChunkEndProperties
<1>3. Mint(r) = SubSeq(s, 1, m)
  BY DEF Mint
<1> HIDE DEF s, m, n
<1>4. 1 \in 1 .. Len(s) + 1 /\ m \in 1 - 1 .. Len(s) /\ n \in m .. Len(s)
  BY <1>1, <1>2
<1>5. SubSeq(s, 1, m) \o SubSeq(s, m + 1, n) = SubSeq(s, 1, n)
  BY <1>1, <1>4, ConcatAdjacentSubSeq
<1>6. Mint(r) \o SubSeq(s, m + 1, n) = SubSeq(s, 1, n)
  BY <1>3, <1>5
<1>7. QED
  BY <1>6 DEF s, m, n

\* A completed loop has minted all of its rows.
LEMMA CompletedMint ==
  ASSUME NEW r, GoodLoop(r), r.pc = "completed" \/ r.at = Len(r.rows)
  PROVE  Mint(r) = Params(r.rows)
<1>1. r.rows \in Seq(Row) /\ r.at = Len(r.rows)
  BY DEF GoodLoop, LoopRecord
<1>2. /\ Len(r.rows) \in Nat
      /\ Params(r.rows) \in Seq(MintedRow) /\ Len(Params(r.rows)) = Len(r.rows)
  BY <1>1, LenProperties, ParamsProperties
<1>3. ChunkEnd(r) = Len(r.rows)
  BY <1>1, <1>2, ChunkEndProperties
<1>4. SubSeq(Params(r.rows), 1, Len(r.rows)) = Params(r.rows)
  BY <1>2, SubSeqFull
<1>5. QED
  BY <1>1, <1>3, <1>4 DEF Mint

\* A loop with another place, transaction or attachment and the same chunks.
LEMMA LoopMoves ==
  ASSUME NEW r, GoodLoop(r),
         NEW q \in LoopRecord, q.rows = r.rows, q.at = r.at,
         q.tx = "mined" <=> r.tx = "mined",
         q.pc \in {"wait", "fatal", "cut"} \/ (q.pc = r.pc /\ q.tx = r.tx)
  PROVE  GoodLoop(q) /\ Mint(q) = Mint(r)
<1>1. GoodLoop(q)
  BY DEF GoodLoop
<1>2. ChunkEnd(q) = ChunkEnd(r)
  BY DEF ChunkEnd
<1>3. Mint(q) = Mint(r)
  BY <1>2 DEF Mint
<1>4. QED
  BY <1>1, <1>3

\* A step that gives one loop a good record and leaves the others alone.
LEMMA OneLoop ==
  ASSUME ImportInv, NEW l \in Loop, NEW q, GoodLoop(q),
         loop' = [loop EXCEPT ![l] = q],
         \/ minted' = [minted EXCEPT ![l] = Mint(q)]
         \/ minted' = minted /\ Mint(q) = Mint(loop[l])
  PROVE  LoopsOK'
<1>1. /\ loop \in [Loop -> LoopRecord] /\ minted \in [Loop -> Seq(MintedRow)]
      /\ \A k \in Loop : GoodLoop(loop[k]) /\ minted[k] = Mint(loop[k])
  BY DEF ImportInv, LoopsOK
<1>2. loop' \in [Loop -> LoopRecord]
  BY <1>1 DEF GoodLoop
<1>3. \A k \in Loop : loop'[k] = IF k = l THEN q ELSE loop[k]
  BY <1>1
<1>4. Mint(q) \in Seq(MintedRow)
  BY MintIsRows
<1>5. minted' \in [Loop -> Seq(MintedRow)]
  BY <1>1, <1>4
<1>6. \A k \in Loop : minted'[k] = IF k = l THEN Mint(q) ELSE minted[k]
  BY <1>1
<1>7. \A k \in Loop : GoodLoop(loop'[k]) /\ minted'[k] = Mint(loop'[k])
  BY <1>1, <1>3, <1>6
<1>8. QED
  BY <1>2, <1>5, <1>7 DEF LoopsOK, GoodLoop, LoopRecord, Mint, ChunkEnd

\* A step that changes nothing about who runs, and leaves a table that is being
\* minted alone.
LEMMA OwnersStay ==
  ASSUME ImportInv, loop' \in [Loop -> LoopRecord],
         \A l \in Loop : /\ Owns(loop'[l]) <=> Owns(loop[l])
                         /\ loop'[l].rows = loop[l].rows,
         table'.minting = table.minting,
         table.minting => table'.rows = table.rows
  PROVE  OwnerOK'
  BY DEF ImportInv, OwnerOK, Owns, Running

-------------------------------------------------------------------------------
(* The table and its rows. *)

LEMMA EmptyTable == IsTable(<<>>)
<1>1. <<>> \in Seq(Row) /\ DOMAIN <<>> = 1 .. 0
  OBVIOUS
<1>2. QED
  BY <1>1 DEF IsTable

LEMMA NoTableGood ==
  /\ GoodTable(NoTable) /\ ~ NoTable.minting /\ NoTable.step = 0
  /\ GoodTable(FreshTable) /\ ~ FreshTable.minting /\ FreshTable.step = 1
<1>1. NoTable \in Table
  BY EmptyTable DEF IsTable, NoTable, Table
<1>2. /\ NoTable.rows = <<>> /\ NoTable.step = 0 /\ NoTable.page = 1
      /\ ~ NoTable.cleaning /\ ~ NoTable.minting
  BY DEF NoTable
<1> HIDE DEF NoTable
<1>3. FreshTable \in Table
  BY <1>1 DEF FreshTable, Table
<1>4. /\ FreshTable.rows = <<>> /\ FreshTable.step = 1 /\ FreshTable.page = 1
      /\ ~ FreshTable.cleaning /\ ~ FreshTable.minting
  BY <1>1, <1>2 DEF FreshTable, Table
<1>5. QED
  BY EmptyTable, <1>1, <1>2, <1>3, <1>4 DEF GoodTable

\* A step on a table that is not being minted.
LEMMA TableStep ==
  ASSUME ImportInv, GoodTable(table'), EditingOK',
         ~ table.minting, ~ table'.minting, table'.step = 2 => table'.cleaning,
         UNCHANGED <<loop, minted>>
  PROVE  ImportInv'
<1>1. LoopsOK'
  BY DEF ImportInv, LoopsOK, GoodLoop, LoopRecord, Mint, ChunkEnd
<1>2. OwnerOK'
  BY DEF ImportInv, OwnerOK, Owns, Running
<1>3. SpinsForAReason'
  BY DEF SpinsForAReason
<1>4. GoodTable(table)'
  BY DEF GoodTable, Table, IsTable
<1>5. QED
  BY <1>1, <1>2, <1>3, <1>4 DEF ImportInv

\* The table that is shown keeps its other fields when its rows are edited.
LEMMA RowsEdited ==
  ASSUME NEW t, GoodTable(t), t.step = 3, NEW rows \in Seq(Row), IsTable(rows)
  PROVE  LET q == [t EXCEPT !.rows = rows]
         IN  GoodTable(q) /\ ~ t.minting /\ ~ q.minting /\ q.step = 3
  BY DEF GoodTable, Table

\* A row may be changed in everything but its code.
LEMMA RowChanged ==
  ASSUME NEW rows, IsTable(rows), NEW i \in DOMAIN rows, NEW row \in Row,
         row.code = rows[i].code
  PROVE  LET new == [rows EXCEPT ![i] = row] IN new \in Seq(Row) /\ IsTable(new)
<1>1. rows \in Seq(Row) /\ DOMAIN rows = 1 .. Len(rows) /\ Len(rows) \in Nat
  BY LenProperties DEF IsTable
<1> DEFINE new == [rows EXCEPT ![i] = row]
<1>2. /\ new \in Seq(Row) /\ DOMAIN new = DOMAIN rows
      /\ \A j \in DOMAIN rows : new[j] = IF j = i THEN row ELSE rows[j]
  BY <1>1, ExceptSeq
<1> HIDE DEF new
<1>3. \A j \in DOMAIN rows : new[j].code = rows[j].code
  BY <1>2
<1>4. \A j, k \in DOMAIN new : new[j].code = new[k].code => j = k
  BY <1>2, <1>3 DEF IsTable
<1>5. QED
  BY <1>2, <1>4 DEF IsTable, new

\* Without one of its rows a table is still a table.
LEMMA RowDeleted ==
  ASSUME NEW rows, IsTable(rows), NEW i \in DOMAIN rows
  PROVE  LET new == [k \in 1 .. Len(rows) - 1 |-> rows[IF k < i THEN k ELSE k + 1]]
         IN  new \in Seq(Row) /\ IsTable(new)
<1>1. rows \in Seq(Row) /\ DOMAIN rows = 1 .. Len(rows) /\ Len(rows) \in Nat
  BY LenProperties DEF IsTable
<1> DEFINE old(k) == IF k < i THEN k ELSE k + 1
           new == [k \in 1 .. Len(rows) - 1 |-> rows[old(k)]]
<1>2. \A k \in 1 .. Len(rows) - 1 : old(k) \in DOMAIN rows
  BY <1>1
<1>3. \A j, k \in 1 .. Len(rows) - 1 : old(j) = old(k) => j = k
  BY <1>1
<1>4. \A k \in 1 .. Len(rows) - 1 : rows[old(k)] \in Row
  BY <1>1, <1>2
<1>5. DOMAIN new = 1 .. Len(rows) - 1 /\ Len(rows) - 1 \in Nat
  BY <1>1
<1>6. \A k \in DOMAIN new : new[k] = rows[old(k)]
  BY <1>5
<1> HIDE DEF old
<1>7. new \in Seq(Row)
  BY <1>4, <1>5
<1>8. \A j, k \in DOMAIN new : new[j].code = new[k].code => j = k
  BY <1>2, <1>3, <1>5, <1>6 DEF IsTable
<1>9. QED
  BY <1>7, <1>8 DEF IsTable, old

\* The steps of the table while it is not being minted.
LEMMA TableSteps ==
  ASSUME ImportInv,
         \/ OpenImport \/ ChooseFile \/ \E rows \in Files : Cleaned(rows)
         \/ \E i \in DOMAIN table.rows : RowNext(i)
         \/ TurnPage(table.page - 1) \/ TurnPage(table.page + 1)
  PROVE  ImportInv'
<1>0. /\ GoodTable(table) /\ EditingOK
      /\ table.rows \in Seq(Row) /\ IsTable(table.rows)
      /\ DOMAIN table.rows = 1 .. Len(table.rows)
  BY LenProperties DEF ImportInv, GoodTable, IsTable
<1>00. table \in Table
  BY <1>0 DEF GoodTable
<1>1. CASE OpenImport
  <2>2. ~ table.minting
    BY <1>0, <1>1 DEF OpenImport, GoodTable
  <2>3. QED
    BY <1>0, <1>1, <2>2, NoTableGood, TableStep DEF OpenImport, EditingOK
<1>2. CASE ChooseFile
  <2> DEFINE n == 2
             b == TRUE
             t == [table EXCEPT !.step = n, !.cleaning = b]
  <2>0. n \in 0 .. 3 /\ b \in BOOLEAN
    OBVIOUS
  <2>1. ~ table.minting
    BY <1>0, <1>2 DEF ChooseFile, GoodTable
  <2>3. table' = t /\ UNCHANGED <<editing, loop, minted>>
    BY <1>2 DEF ChooseFile
  <2> HIDE DEF n, b
  <2>4. t \in Table
    BY <1>00, <2>0 DEF Table
  <2>5. /\ t.cleaning = b /\ t.step = n /\ t.rows = table.rows
        /\ t.minting = table.minting /\ t.page = table.page
    BY <1>00, <2>0 DEF Table
  <2> HIDE DEF t
  <2>6. GoodTable(t) /\ t.cleaning /\ ~ t.minting
    BY <1>0, <2>1, <2>4, <2>5 DEF GoodTable, n, b
  <2>7. QED
    BY <1>0, <2>1, <2>3, <2>6, TableStep DEF EditingOK
<1>3. ASSUME NEW rows \in Files, Cleaned(rows) PROVE ImportInv'
  <2> DEFINE n == 3
             b == FALSE
             t == [table EXCEPT !.step = n, !.cleaning = b, !.rows = rows]
  <2>0. n \in 0 .. 3 /\ b \in BOOLEAN
    OBVIOUS
  <2>1. IsTable(rows) /\ rows \in Seq(Row)
    BY FileAssumption DEF IsTable
  <2>2. ~ table.minting
    BY <1>0, <1>3 DEF Cleaned, GoodTable
  <2>3. table' = t /\ UNCHANGED <<editing, loop, minted>>
    BY <1>3 DEF Cleaned
  <2> HIDE DEF n, b
  <2>4. t \in Table
    BY <1>00, <2>0, <2>1 DEF Table
  <2>5. /\ t.cleaning = b /\ t.step = n /\ t.rows = rows
        /\ t.minting = table.minting /\ t.page = table.page
    BY <1>00, <2>0, <2>1 DEF Table
  <2> HIDE DEF t
  <2>6. GoodTable(t) /\ t.step = 3 /\ ~ t.minting
    BY <1>0, <2>1, <2>2, <2>4, <2>5 DEF GoodTable, n, b
  <2>7. QED
    BY <1>0, <2>2, <2>3, <2>6, TableStep DEF EditingOK
<1>4. ASSUME NEW i \in DOMAIN table.rows, table.step = 3, UNCHANGED <<table, loop, minted>>,
             NEW name \in Name \cup {NotEditing},
             editing' = [editing EXCEPT ![table.rows[i].code] = name]
      PROVE  ImportInv'
  <2>1. ~ table.minting /\ ~ table'.minting /\ table'.step = 3 /\ GoodTable(table')
    BY <1>0, <1>4 DEF GoodTable
  <2>2. EditingOK'
    BY <1>0, <1>4 DEF EditingOK
  <2>3. QED
    BY <1>4, <2>1, <2>2, TableStep
<1>5. ASSUME NEW i \in DOMAIN table.rows, NEW row \in Row, table.step = 3,
             row.code = table.rows[i].code, EditingOK', UNCHANGED <<loop, minted>>,
             table' = [table EXCEPT !.rows = [table.rows EXCEPT ![i] = row]]
      PROVE  ImportInv'
  <2> DEFINE new == [table.rows EXCEPT ![i] = row]
  <2>1. new \in Seq(Row) /\ IsTable(new)
    BY <1>0, <1>5, RowChanged
  <2> HIDE DEF new
  <2>2. table' = [table EXCEPT !.rows = new]
    BY <1>5 DEF new
  <2>3. QED
    BY <1>0, <1>5, <2>1, <2>2, RowsEdited, TableStep
<1>6. ASSUME NEW i \in DOMAIN table.rows, RowNext(i) PROVE ImportInv'
  <2>0. table.rows[i] \in Row
    BY <1>0, <1>6
  <2>1. /\ table.rows[i] \in Row
        /\ table.rows[i].code \in Code /\ table.rows[i].name \in Name
    BY <2>0 DEF Row
  <2>2. CASE StartEdit(i)
    BY <1>4, <2>1, <2>2 DEF StartEdit, EditName, ShownRow
  <2>3. CASE Cancel(i)
    BY <1>4, <2>1, <2>3 DEF Cancel, EditName, ShownRow
  <2>4. ASSUME NEW name \in Name, TypeName(i, name) PROVE ImportInv'
    BY <1>4, <2>1, <2>4 DEF TypeName, EditName, ShownRow
  <2>5. ASSUME NEW k \in DOMAIN table.rows[i].history, NEW step \in Step,
               TypeStep(i, k, step)
        PROVE  ImportInv'
    <3> DEFINE history == [table.rows[i].history EXCEPT ![k] = step]
               row == [table.rows[i] EXCEPT !.history = history]
    <3>0. history \in Seq(Step) \ {<<>>}
      <4>1. table.rows[i].history \in Seq(Step)
        BY <2>1 DEF Row
      <4>2. history \in Seq(Step) /\ DOMAIN history = DOMAIN table.rows[i].history
        BY <4>1, ExceptSeq
      <4>3. QED
        BY <4>2
    <3>1. row \in Row /\ row.code = table.rows[i].code
      <4> HIDE DEF history
      <4>1. QED
        BY <2>1, <3>0 DEF Row
    <3>2. table' = [table EXCEPT !.rows = [table.rows EXCEPT ![i] = row]]
      BY <1>0, <1>6, <2>5 DEF TypeStep
    <3>3. table.step = 3 /\ EditingOK' /\ UNCHANGED <<loop, minted>>
      BY <1>0, <2>5 DEF TypeStep, ShownRow, EditingOK
    <3> HIDE DEF row
    <3>4. QED
      BY <1>5, <3>1, <3>2, <3>3
  <2>6. CASE Save(i)
    <3> DEFINE name == editing[table.rows[i].code]
               row  == [table.rows[i] EXCEPT !.name = name]
    <3>1. name \in Name
      BY <1>0, <2>1, <2>6 DEF Save, ShownRow, EditingOK
    <3>2. row \in Row /\ row.code = table.rows[i].code
      BY <2>1, <3>1 DEF Row
    <3>3. table' = [table EXCEPT !.rows = [table.rows EXCEPT ![i] = row]]
      BY <1>0, <1>6, <2>6 DEF Save
    <3>4. table.step = 3 /\ EditingOK' /\ UNCHANGED <<loop, minted>>
      BY <1>0, <2>6 DEF Save, ShownRow, EditingOK
    <3> HIDE DEF row
    <3>5. QED
      BY <1>5, <3>2, <3>3, <3>4
  <2>7. CASE Delete(i)
    <3> DEFINE new == [k \in 1 .. Len(table.rows) - 1 |->
                         table.rows[IF k < i THEN k ELSE k + 1]]
    <3>1. new \in Seq(Row) /\ IsTable(new)
      BY <1>0, <1>6, RowDeleted
    <3>2. table' = [table EXCEPT !.rows = new] /\ table.step = 3
      BY <2>7 DEF Delete, ShownRow
    <3> HIDE DEF new
    <3>3. EditingOK'
      BY <1>0, <2>7 DEF Delete, KeepEditors, EditingOK
    <3>4. UNCHANGED <<loop, minted>>
      BY <2>7 DEF Delete
    <3>5. QED
      BY <1>0, <3>1, <3>2, <3>3, <3>4, RowsEdited, TableStep
  <2>8. QED
    BY <1>6, <2>2, <2>3, <2>4, <2>5, <2>6, <2>7 DEF RowNext
<1>7. ASSUME NEW page, page \in {table.page - 1, table.page + 1}, TurnPage(page)
      PROVE  ImportInv'
  <2> DEFINE t == [table EXCEPT !.page = page]
  <2>1. table.page \in Nat /\ table.page # 0
    BY <1>0 DEF GoodTable, Table
  <2>2. page \in Nat /\ page # 0
    BY <1>7, <2>1 DEF TurnPage
  <2>3. table.step = 3 /\ ~ table.minting
    BY <1>0, <1>7 DEF TurnPage, GoodTable
  <2>4. /\ t \in Table /\ t.cleaning = table.cleaning /\ t.step = table.step
        /\ t.rows = table.rows /\ t.minting = table.minting /\ t.page = page
    BY <1>00, <2>2 DEF Table
  <2>5. table' = t /\ UNCHANGED <<loop, minted>> /\ EditingOK'
    BY <1>7 DEF TurnPage, EditingOK, NoEditor
  <2> HIDE DEF t
  <2>6. GoodTable(t)
    BY <1>0, <2>2, <2>3, <2>4 DEF GoodTable
  <2>7. QED
    BY <2>3, <2>4, <2>5, <2>6, TableStep
<1>8. QED
  BY <1>1, <1>2, <1>3, <1>6, <1>7

-------------------------------------------------------------------------------
(* The loops. *)

\* Leaving the tab or the document: no loop is attached any more.
LEMMA LeaveStep ==
  ASSUME ImportInv, NEW cut \in BOOLEAN, LeaveImport(cut)
  PROVE  ImportInv'
<1> DEFINE left(r) == [r EXCEPT !.pc = IF cut /\ @ \in Running THEN "cut" ELSE @,
                                !.attached = FALSE]
<1>1. loop' = [l \in Loop |-> left(loop[l])] /\ minted' = minted
  BY DEF LeaveImport
<1>2. ASSUME NEW r, GoodLoop(r)
      PROVE  GoodLoop(left(r)) /\ Mint(left(r)) = Mint(r) /\ ~ left(r).attached
  <2> DEFINE pc == IF cut /\ r.pc \in Running THEN "cut" ELSE r.pc
             q  == [r EXCEPT !.pc = pc, !.attached = FALSE]
  <2>1. r \in LoopRecord
    BY <1>2 DEF GoodLoop
  <2>2. /\ pc \in Running \cup {"idle", "completed", "fatal", "cut"}
        /\ pc = "cut" \/ pc = r.pc
    BY <2>1 DEF LoopRecord
  <2> HIDE DEF pc
  <2>3. q \in LoopRecord
    BY <2>1, <2>2 DEF LoopRecord
  <2>4. /\ q.pc = pc /\ q.tx = r.tx /\ q.rows = r.rows /\ q.at = r.at
        /\ ~ q.attached
    BY <2>1 DEF LoopRecord
  <2>5. q = left(r)
    BY <2>1 DEF pc, LoopRecord
  <2> HIDE DEF q, left
  <2>6. GoodLoop(q) /\ Mint(q) = Mint(r)
    BY <1>2, <2>2, <2>3, <2>4, LoopMoves
  <2>7. QED
    BY <2>4, <2>5, <2>6
<1> HIDE DEF left
<1>3. \A l \in Loop : /\ loop'[l] = left(loop[l])
                      /\ GoodLoop(loop[l]) /\ minted[l] = Mint(loop[l])
  BY <1>1 DEF ImportInv, LoopsOK
<1>4. \A l \in Loop : GoodLoop(loop'[l]) /\ minted'[l] = Mint(loop'[l])
                        /\ ~ loop'[l].attached
  BY <1>1, <1>2, <1>3
<1>5. loop' \in [Loop -> LoopRecord] /\ minted' \in [Loop -> Seq(MintedRow)]
  BY <1>1, <1>3, <1>4 DEF ImportInv, LoopsOK, GoodLoop
<1>6. LoopsOK'
  BY <1>4, <1>5 DEF LoopsOK, GoodLoop, Mint, ChunkEnd, IsTable
<1>7. table' = NoTable /\ EditingOK'
  BY DEF LeaveImport, EditingOK, NoEditor
<1>8. OwnerOK'
  BY <1>4, <1>7, NoTableGood DEF OwnerOK, Owns
<1>9. SpinsForAReason'
  BY <1>7, NoTableGood DEF SpinsForAReason
<1>10. GoodTable(table)'
  BY <1>7, NoTableGood DEF GoodTable, Table, IsTable
<1>11. QED
  BY <1>6, <1>7, <1>8, <1>9, <1>10 DEF ImportInv

\* A step of the transaction of one loop: the table stays, and the loop runs on.
LEMMA ChainStep ==
  ASSUME ImportInv, NEW l \in Loop, NEW q, GoodLoop(q),
         loop' = [loop EXCEPT ![l] = q],
         \/ minted' = [minted EXCEPT ![l] = Mint(q)]
         \/ minted' = minted /\ Mint(q) = Mint(loop[l]),
         q.attached = loop[l].attached, q.rows = loop[l].rows,
         q.pc = loop[l].pc \/ (q.pc \in Running /\ loop[l].pc \in Running),
         UNCHANGED <<table, editing>>
  PROVE  ImportInv'
<1>1. LoopsOK'
  BY OneLoop
<1>2. \A k \in Loop : loop'[k] = IF k = l THEN q ELSE loop[k]
  BY DEF ImportInv, LoopsOK
<1>3. \A k \in Loop : /\ Owns(loop'[k]) <=> Owns(loop[k])
                      /\ loop'[k].rows = loop[k].rows
                      /\ loop'[k].attached = loop[k].attached
                      /\ loop[k].pc = "fatal" => loop'[k].pc = "fatal"
  BY <1>2 DEF Owns, Running
<1>4. OwnerOK'
  BY <1>1, <1>3, OwnersStay DEF LoopsOK
<1>5. SpinsForAReason'
  BY <1>3 DEF ImportInv, SpinsForAReason
<1>6. GoodTable(table)' /\ EditingOK'
  BY DEF ImportInv, GoodTable, Table, IsTable, EditingOK
<1>7. QED
  BY <1>1, <1>4, <1>5, <1>6 DEF ImportInv

\* The end of a loop, which takes the table out of minting if it is attached.
LEMMA EndStep ==
  ASSUME ImportInv, NEW l \in Loop, loop[l].pc \in Running, NEW q, GoodLoop(q),
         Mint(q) = Mint(loop[l]), q.pc \in {"completed", "fatal"},
         q.attached = loop[l].attached, loop' = [loop EXCEPT ![l] = q],
         IF loop[l].attached
         THEN GoodTable(table') /\ ~ table'.minting
                /\ (table'.step = 2 => q.pc = "fatal")
         ELSE table' = table,
         UNCHANGED <<editing, minted>>
  PROVE  ImportInv'
<1>1. LoopsOK'
  BY OneLoop
<1>2. \A k \in Loop : loop'[k] = IF k = l THEN q ELSE loop[k]
  BY DEF ImportInv, LoopsOK
<1>3. \A k \in Loop : Owns(loop'[k]) <=> k # l /\ Owns(loop[k])
  BY <1>2 DEF Owns, Running
<1>4. EditingOK' /\ GoodTable(table)'
  BY DEF ImportInv, GoodTable, Table, IsTable, EditingOK
<1>5. CASE loop[l].attached
  <2>1. \A k \in Loop : ~ Owns(loop'[k])
    BY <1>3, <1>5 DEF ImportInv, OwnerOK, Owns
  <2>2. OwnerOK'
    BY <1>5, <2>1 DEF OwnerOK, Owns, Running
  <2>3. SpinsForAReason'
    BY <1>2, <1>5 DEF SpinsForAReason
  <2>4. QED
    BY <1>1, <1>4, <2>2, <2>3 DEF ImportInv
<1>6. CASE ~ loop[l].attached
  <2>1. \A k \in Loop : /\ Owns(loop'[k]) <=> Owns(loop[k])
                        /\ Owns(loop[k]) => loop'[k].rows = loop[k].rows
    BY <1>2, <1>3, <1>6 DEF Owns
  <2>2. OwnerOK'
    BY <1>6, <2>1 DEF ImportInv, OwnerOK, Owns, Running
  <2>3. SpinsForAReason'
    BY <1>2, <1>6 DEF ImportInv, SpinsForAReason, Running
  <2>4. QED
    BY <1>1, <1>4, <2>2, <2>3 DEF ImportInv
<1>7. QED
  BY <1>5, <1>6

LEMMA IdleLoopGood ==
  IdleLoop \in LoopRecord /\ GoodLoop(IdleLoop) /\ Mint(IdleLoop) = <<>>
<1>1. IdleLoop \in LoopRecord
  BY EmptyTable DEF IdleLoop, LoopRecord, IsTable
<1>2. /\ IdleLoop.pc = "idle" /\ IdleLoop.tx = "none" /\ IdleLoop.rows = <<>>
      /\ IdleLoop.at = 0
  BY DEF IdleLoop
<1>3. Len(<<>>) = 0
  OBVIOUS
<1>4. GoodLoop(IdleLoop)
  BY <1>1, <1>2, <1>3, EmptyTable DEF GoodLoop
<1>5. Mint(IdleLoop) = SubSeq(Params(<<>>), 1, 0)
  BY <1>2 DEF Mint
<1>6. QED
  BY <1>1, <1>4, <1>5, SubSeqEmpty

LEMMA StartStep ==
  ASSUME ImportInv, NEW l \in Loop, StartMint(l)
  PROVE  ImportInv'
<1> DEFINE n == 2
           b == TRUE
           t == [table EXCEPT !.step = n, !.minting = b]
           q == [IdleLoop EXCEPT !.pc = "sign", !.attached = TRUE, !.rows = table.rows]
<1>1. /\ GoodTable(table) /\ table \in Table /\ table.rows \in Seq(Row)
      /\ IsTable(table.rows) /\ Len(table.rows) \in Nat
      /\ table.step = 3 /\ ~ table.minting /\ ~ table.cleaning
  BY LenProperties DEF ImportInv, GoodTable, IsTable, StartMint
<1>2. table' = t /\ loop' = [loop EXCEPT ![l] = q] /\ minted' = minted /\ EditingOK'
  BY DEF StartMint, EditingOK, NoEditor
<1>3. q \in LoopRecord
  BY <1>1, IdleLoopGood DEF GoodLoop, LoopRecord, Running
<1>4. /\ q \in LoopRecord /\ q.pc = "sign" /\ q.tx = "none" /\ q.at = 0
      /\ q.rows = table.rows /\ q.attached
  BY <1>3 DEF IdleLoop
<1> HIDE DEF q
<1>5. GoodLoop(q)
  BY <1>1, <1>4 DEF GoodLoop
<1>6. minted[l] = Mint(q)
  <2>1. GoodLoop(loop[l]) /\ minted[l] = Mint(loop[l]) /\ loop[l].pc = "idle"
    BY DEF ImportInv, LoopsOK, StartMint
  <2>2. Mint(loop[l]) = SubSeq(Params(loop[l].rows), 1, 0)
    BY <2>1 DEF Mint, GoodLoop
  <2>3. Mint(q) = SubSeq(Params(q.rows), 1, 0)
    BY <1>4 DEF Mint
  <2>4. QED
    BY <2>1, <2>2, <2>3, SubSeqEmpty
<1>7. Mint(q) = Mint(loop[l])
  BY <1>6 DEF ImportInv, LoopsOK
<1>8. LoopsOK'
  BY <1>2, <1>5, <1>7, OneLoop
<1>9. n \in 0 .. 3 /\ b \in BOOLEAN
  OBVIOUS
<1> HIDE DEF n, b
<1>10. t \in Table
  BY <1>1, <1>9 DEF Table
<1>11. /\ t.minting = b /\ t.step = n /\ t.rows = table.rows
       /\ t.cleaning = table.cleaning /\ t.page = table.page
  BY <1>1, <1>9 DEF Table
<1> HIDE DEF t
<1>12. GoodTable(t) /\ t.minting /\ t.step = 2
  BY <1>1, <1>10, <1>11 DEF GoodTable, n, b
<1>13. GoodTable(table)' /\ SpinsForAReason'
  BY <1>2, <1>12 DEF GoodTable, Table, IsTable, SpinsForAReason
<1>14. \A k \in Loop : loop'[k] = IF k = l THEN q ELSE loop[k]
  BY <1>2 DEF ImportInv, LoopsOK
<1>15. \A k \in Loop : Owns(loop'[k]) <=> k = l
  BY <1>1, <1>4, <1>14 DEF ImportInv, OwnerOK, Owns, Running
<1>16. OwnerOK'
  <2>1. table'.minting /\ loop'[l].rows = table'.rows
    BY <1>2, <1>4, <1>11, <1>12, <1>14
  <2>2. QED
    BY <1>15, <2>1 DEF OwnerOK, Owns, Running
<1>17. QED
  BY <1>2, <1>8, <1>13, <1>16 DEF ImportInv

LEMMA LoopSteps ==
  ASSUME ImportInv, NEW l \in Loop, LoopNext(l)
  PROVE  ImportInv'
<1> DEFINE r == loop[l]
<1>1. /\ GoodLoop(r) /\ r \in LoopRecord /\ minted[l] = Mint(r)
      /\ loop \in [Loop -> LoopRecord] /\ minted \in [Loop -> Seq(MintedRow)]
      /\ GoodTable(table) /\ table \in Table
  BY DEF ImportInv, LoopsOK, GoodTable
<1>2. CASE SendChunk(l)
  <2> DEFINE q == [r EXCEPT !.pc = "wait", !.tx = "pool"]
  <2>1. loop' = [loop EXCEPT ![l] = q] /\ UNCHANGED <<table, editing, minted>>
    BY <1>1, <1>2 DEF SendChunk
  <2>2. r.pc = "sign" /\ r.tx = "none"
    BY <1>1, <1>2 DEF SendChunk, GoodLoop
  <2>3. q \in LoopRecord
    BY <1>1 DEF LoopRecord, Running
  <2>4. /\ q.pc = "wait" /\ q.tx = "pool" /\ q.rows = r.rows /\ q.at = r.at
        /\ q.attached = r.attached
    BY <1>1 DEF LoopRecord
  <2> HIDE DEF q, r
  <2>5. GoodLoop(q) /\ Mint(q) = Mint(r)
    BY <1>1, <2>2, <2>3, <2>4, LoopMoves
  <2>6. QED
    BY <2>1, <2>2, <2>4, <2>5, ChainStep DEF r, Running
<1>3. CASE MineChunk(l)
  <2> DEFINE q == [r EXCEPT !.tx = "mined"]
             chunk == SubSeq(Params(r.rows), r.at + 1, ChunkEnd(r))
  <2>1. /\ loop' = [loop EXCEPT ![l] = q] /\ r.tx = "pool"
        /\ minted' = [minted EXCEPT ![l] = Mint(r) \o chunk]
        /\ UNCHANGED <<table, editing>>
    BY <1>1, <1>3 DEF MineChunk
  <2>2. q \in LoopRecord
    BY <1>1 DEF LoopRecord
  <2>3. /\ q.pc = r.pc /\ q.tx = "mined" /\ q.rows = r.rows /\ q.at = r.at
        /\ q.attached = r.attached
    BY <1>1 DEF LoopRecord
  <2> HIDE DEF q, r
  <2>4. GoodLoop(q)
    BY <1>1, <2>1, <2>2, <2>3 DEF GoodLoop
  <2>5. Mint(q) = Mint(r) \o chunk
    <3>1. Mint(r) \o chunk = SubSeq(Params(r.rows), 1, ChunkEnd(r))
      BY <1>1, <2>1, ChunkFollows
    <3>2. ChunkEnd(q) = ChunkEnd(r)
      BY <2>3 DEF ChunkEnd
    <3>3. QED
      BY <2>3, <3>1, <3>2 DEF Mint
  <2> HIDE DEF chunk
  <2>6. QED
    BY <2>1, <2>3, <2>4, <2>5, ChainStep DEF r
<1>4. CASE RevertChunk(l)
  <2> DEFINE q == [r EXCEPT !.tx = "reverted"]
  <2>1. /\ loop' = [loop EXCEPT ![l] = q] /\ r.tx = "pool"
        /\ UNCHANGED <<table, editing, minted>>
    BY <1>1, <1>4 DEF RevertChunk
  <2>2. q \in LoopRecord
    BY <1>1 DEF LoopRecord
  <2>3. /\ q.pc = r.pc /\ q.tx = "reverted" /\ q.rows = r.rows /\ q.at = r.at
        /\ q.attached = r.attached
    BY <1>1 DEF LoopRecord
  <2> HIDE DEF q, r
  <2>4. GoodLoop(q)
    BY <1>1, <2>1, <2>2, <2>3 DEF GoodLoop
  <2>5. Mint(q) = Mint(r)
    BY <2>1, <2>3 DEF Mint
  <2>6. QED
    BY <2>1, <2>3, <2>4, <2>5, ChainStep DEF r
<1>5. CASE ChunkReceipt(l)
  <2> DEFINE end == ChunkEnd(r)
             more == end < Len(r.rows)
             pc == IF more THEN "sign" ELSE "completed"
             q == [r EXCEPT !.pc = pc, !.tx = "none", !.at = end]
  <2>1. r.pc = "wait" /\ r.tx = "mined" /\ UNCHANGED <<editing, minted>>
    BY <1>5 DEF ChunkReceipt
  <2>2. loop' = [loop EXCEPT ![l] = q]
    BY <1>1, <1>5 DEF ChunkReceipt
  <2>3. IF more \/ ~ r.attached THEN table' = table
        ELSE table' = [table EXCEPT !.step = 3, !.minting = FALSE]
    BY <1>1, <1>5 DEF ChunkReceipt
  <2>4. /\ end \in Nat /\ end <= Len(r.rows) /\ Len(r.rows) \in Nat
        /\ r.rows \in Seq(Row)
    BY <1>1, ChunkEndProperties, LenProperties DEF LoopRecord
  <2>5. pc \in {"sign", "completed"} /\ (pc = "completed" => end = Len(r.rows))
    BY <2>4
  <2>6. more => pc = "sign"
    OBVIOUS
  <2>7. ~ more => pc = "completed"
    OBVIOUS
  <2> HIDE DEF end, more, pc
  <2>8. q \in LoopRecord
    BY <1>1, <2>4, <2>5 DEF LoopRecord, Running
  <2>9. /\ q.pc = pc /\ q.tx = "none" /\ q.rows = r.rows /\ q.at = end
        /\ q.attached = r.attached
    BY <1>1 DEF LoopRecord
  <2> HIDE DEF q, r
  <2>10. GoodLoop(q)
    BY <1>1, <2>4, <2>5, <2>8, <2>9 DEF GoodLoop
  <2>11. Mint(q) = Mint(r)
    BY <2>1, <2>9 DEF Mint, end
  <2>12. CASE more
    BY <2>1, <2>2, <2>3, <2>6, <2>9, <2>10, <2>11, <2>12, ChainStep DEF r, Running
  <2>13. CASE ~ more
    <3>1. CASE r.attached
      <4> DEFINE n == 3
                 b == FALSE
                 t == [table EXCEPT !.step = n, !.minting = b]
      <4>1. n \in 0 .. 3 /\ b \in BOOLEAN /\ table' = t
        BY <2>3, <2>13, <3>1
      <4> HIDE DEF n, b
      <4>2. t \in Table
        BY <1>1, <4>1 DEF Table
      <4>3. /\ t.minting = b /\ t.step = n /\ t.rows = table.rows
            /\ t.cleaning = table.cleaning /\ t.page = table.page
        BY <1>1, <4>1 DEF Table
      <4> HIDE DEF t
      <4>4. ~ table.cleaning
        BY <1>1, <2>1, <3>1 DEF ImportInv, OwnerOK, Owns, Running, GoodTable, r
      <4>5. GoodTable(t) /\ ~ t.minting /\ t.step = 3
        BY <1>1, <4>2, <4>3, <4>4 DEF GoodTable, n, b
      <4>6. GoodTable(table') /\ ~ table'.minting /\ table'.step # 2
        BY <4>1, <4>5
      <4>7. q.pc = "completed"
        BY <2>7, <2>9, <2>13
      <4>8. QED
        BY <2>1, <2>2, <2>9, <2>10, <2>11, <3>1, <4>6, <4>7, EndStep DEF r, Running
    <3>2. CASE ~ r.attached
      BY <2>1, <2>2, <2>3, <2>7, <2>9, <2>10, <2>11, <2>13, <3>2, EndStep
         DEF r, Running
    <3>3. QED
      BY <3>1, <3>2
  <2>14. QED
    BY <2>12, <2>13
<1>6. CASE Fatal(l)
  <2> DEFINE q == [r EXCEPT !.pc = "fatal"]
  <2>1. /\ loop' = [loop EXCEPT ![l] = q] /\ r.pc \in Running
        /\ UNCHANGED <<editing, minted>>
    BY <1>1, <1>6 DEF Fatal
  <2>2. IF r.attached THEN table' = [table EXCEPT !.minting = FALSE]
        ELSE table' = table
    BY <1>6 DEF Fatal
  <2>3. q \in LoopRecord
    BY <1>1 DEF LoopRecord
  <2>4. /\ q.pc = "fatal" /\ q.tx = r.tx /\ q.rows = r.rows /\ q.at = r.at
        /\ q.attached = r.attached
    BY <1>1 DEF LoopRecord
  <2> HIDE DEF q, r
  <2>5. GoodLoop(q) /\ Mint(q) = Mint(r)
    BY <1>1, <2>3, <2>4, LoopMoves
  <2>6. CASE r.attached
    <3> DEFINE b == FALSE
               t == [table EXCEPT !.minting = b]
    <3>1. b \in BOOLEAN /\ table' = t
      BY <2>2, <2>6
    <3> HIDE DEF b
    <3>2. t \in Table
      BY <1>1, <3>1 DEF Table
    <3>3. /\ t.minting = b /\ t.step = table.step /\ t.rows = table.rows
          /\ t.cleaning = table.cleaning /\ t.page = table.page
      BY <1>1, <3>1 DEF Table
    <3> HIDE DEF t
    <3>4. GoodTable(t) /\ ~ t.minting
      BY <1>1, <3>2, <3>3 DEF GoodTable, b
    <3>5. QED
      BY <2>1, <2>4, <2>5, <2>6, <3>1, <3>4, EndStep DEF r, Running
  <2>7. CASE ~ r.attached
    BY <2>1, <2>2, <2>4, <2>5, <2>7, EndStep DEF r, Running
  <2>8. QED
    BY <2>6, <2>7
<1>7. QED
  BY <1>2, <1>3, <1>4, <1>5, <1>6 DEF LoopNext

-------------------------------------------------------------------------------
(* The invariant, and what follows from it. *)

LEMMA InvInit == ImportInit => ImportInv
<1> SUFFICES ASSUME ImportInit PROVE ImportInv
  OBVIOUS
<1>1. GoodTable(table) /\ table.step = 0 /\ ~ table.minting
  BY NoTableGood DEF ImportInit
<1>2. EditingOK
  BY DEF ImportInit, EditingOK, NoEditor
<1>3. loop \in [Loop -> LoopRecord] /\ minted \in [Loop -> Seq(MintedRow)]
  BY IdleLoopGood, MintIsRows DEF ImportInit
<1>4. \A l \in Loop : GoodLoop(loop[l]) /\ minted[l] = Mint(loop[l])
  BY IdleLoopGood DEF ImportInit
<1>5. \A l \in Loop : ~ Owns(loop[l])
  BY DEF ImportInit, IdleLoop, Owns
<1>6. OwnerOK /\ SpinsForAReason
  BY <1>1, <1>5 DEF OwnerOK, SpinsForAReason
<1>7. QED
  BY <1>1, <1>2, <1>3, <1>4, <1>6 DEF ImportInv, LoopsOK

LEMMA InvStutter == ImportInv /\ UNCHANGED importVars => ImportInv'
<1> SUFFICES ASSUME ImportInv, UNCHANGED importVars PROVE ImportInv'
  OBVIOUS
<1>1. table' = table /\ editing' = editing /\ loop' = loop /\ minted' = minted
  BY DEF importVars
<1>2. GoodTable(table)' /\ EditingOK' /\ LoopsOK'
  BY <1>1 DEF ImportInv, GoodTable, Table, IsTable, EditingOK, LoopsOK, GoodLoop,
              LoopRecord, Mint, ChunkEnd
<1>3. OwnerOK' /\ SpinsForAReason'
  BY <1>1 DEF ImportInv, OwnerOK, Owns, Running, SpinsForAReason
<1>4. QED
  BY <1>2, <1>3 DEF ImportInv

LEMMA InvStep == ImportInv /\ [ImportNext]_importVars => ImportInv'
<1> SUFFICES ASSUME ImportInv, [ImportNext]_importVars PROVE ImportInv'
  OBVIOUS
<1>1. CASE UNCHANGED importVars
  BY <1>1, InvStutter
<1>2. CASE \E cut \in BOOLEAN : LeaveImport(cut)
  BY <1>2, LeaveStep
<1>3. CASE \E l \in Loop : StartMint(l) \/ LoopNext(l)
  BY <1>3, StartStep, LoopSteps
<1>4. CASE \/ OpenImport \/ ChooseFile \/ \E rows \in Files : Cleaned(rows)
           \/ \E i \in DOMAIN table.rows : RowNext(i)
           \/ TurnPage(table.page - 1) \/ TurnPage(table.page + 1)
  BY <1>4, TableSteps
<1>5. QED
  BY <1>1, <1>2, <1>3, <1>4 DEF ImportNext, ImportStep

\* What the table and the loops of handleExecuteMint keep true, also of a loop whose
\* component is gone (ImportExcel.jsx:75-123).
THEOREM ImportIsInvariant == ImportSpec => []ImportInv
<1>1. QED
  BY InvInit, InvStep, PTL DEF ImportSpec

LEMMA InvTypes == ImportInv => ImportTypeOK
  BY DEF ImportInv, GoodTable, EditingOK, LoopsOK, GoodLoop, ImportTypeOK

LEMMA InvPrefix == ImportInv => MintedIsPrefix
<1> SUFFICES ASSUME ImportInv, NEW l \in Loop
             PROVE  LET all == Params(loop[l].rows) IN
                    /\ minted[l] \in {SubSeq(all, 1, loop[l].at),
                                      SubSeq(all, 1, ChunkEnd(loop[l]))}
                    /\ loop[l].pc = "completed" => minted[l] = all
  BY DEF MintedIsPrefix
<1>1. GoodLoop(loop[l]) /\ minted[l] = Mint(loop[l])
  BY DEF ImportInv, LoopsOK
<1>2. minted[l] \in {SubSeq(Params(loop[l].rows), 1, loop[l].at),
                     SubSeq(Params(loop[l].rows), 1, ChunkEnd(loop[l]))}
  BY <1>1 DEF Mint
<1>3. QED
  BY <1>1, <1>2, CompletedMint

LEMMA InvRunning == ImportInv => MintingIsRunning
<1> SUFFICES ASSUME ImportInv PROVE MintingIsRunning
  OBVIOUS
<1>1. table.minting \in BOOLEAN
  BY DEF ImportInv, GoodTable, Table
<1>2. QED
  BY <1>1 DEF ImportInv, OwnerOK, Owns, MintingIsRunning

\* Whatever is read, edited and left, tables and loops hold rows of different
\* products, and a loop never gets past the end of its table (ImportExcel.jsx:20-66).
THEOREM ImportTypes == ImportSpec => []ImportTypeOK
<1>1. QED
  BY ImportIsInvariant, InvTypes, PTL

\* A loop has minted the first chunks of the table it started with, each product
\* once, however it ended (ImportExcel.jsx:83-118).
THEOREM MintedPrefix == ImportSpec => []MintedIsPrefix
<1>1. QED
  BY ImportIsInvariant, InvPrefix, PTL

\* The component is minting exactly while its one loop is running
\* (ImportExcel.jsx:79, 115, 121).
THEOREM MintingRuns == ImportSpec => []MintingIsRunning
<1>1. QED
  BY ImportIsInvariant, InvRunning, PTL

\* Only an error leaves the spinner with nothing behind it (ImportExcel.jsx:115-116).
THEOREM SpinnerHasReason == ImportSpec => []SpinsForAReason
<1>1. ImportInv => SpinsForAReason
  BY DEF ImportInv
<1>2. QED
  BY <1>1, ImportIsInvariant, PTL

\* A table that minting brings back has been minted, a product for each row.
LEMMA CompletedStep ==
  ASSUME ImportInv, [ImportNext]_importVars, table.minting, table'.step = 3
  PROVE  \E l \in Loop : /\ loop[l].attached
                         /\ \A i \in DOMAIN table'.rows : \E k \in DOMAIN minted[l] :
                              OnHubFirst(table'.rows[i], minted[l][k])
<1>1. table.step = 2 /\ ~ table.cleaning /\ table \in Table
  BY DEF ImportInv, GoodTable
<1>2. table' # table
  BY <1>1
<1>3. ~ \E cut \in BOOLEAN : LeaveImport(cut)
  <2>1. table' # NoTable
    BY NoTableGood, 0 # 3
  <2>2. QED
    BY <2>1 DEF LeaveImport
<1>4. ~ \/ OpenImport \/ ChooseFile \/ \E rows \in Files : Cleaned(rows)
        \/ \E i \in DOMAIN table.rows : RowNext(i)
        \/ TurnPage(table.page - 1) \/ TurnPage(table.page + 1)
  <2>1. table.step # 0 /\ table.step # 1 /\ table.step # 3
    BY <1>1
  <2>2. \A i : ~ RowNext(i)
    BY <2>1 DEF RowNext, StartEdit, Cancel, TypeName, EditName, TypeStep, Save,
                Delete, ShownRow
  <2>3. QED
    BY <1>1, <2>1, <2>2 DEF OpenImport, ChooseFile, Cleaned, TurnPage
<1>5. ~ \E l \in Loop : StartMint(l)
  BY <1>1 DEF StartMint
<1>6. PICK l \in Loop : LoopNext(l)
  BY <1>2, <1>3, <1>4, <1>5 DEF ImportNext, ImportStep, importVars
<1>7. ~ (SendChunk(l) \/ MineChunk(l) \/ RevertChunk(l))
  BY <1>2 DEF SendChunk, MineChunk, RevertChunk
<1>8. ~ Fatal(l)
  <2> SUFFICES ASSUME Fatal(l) PROVE FALSE
    OBVIOUS
  <2>1. table' = [table EXCEPT !.minting = FALSE]
    BY <1>2 DEF Fatal
  <2>2. table'.step = table.step
    BY <1>1, <2>1 DEF Table
  <2>3. QED
    BY <1>1, <2>2
<1>9. ChunkReceipt(l)
  BY <1>6, <1>7, <1>8 DEF LoopNext
<1>10. /\ loop[l].attached /\ ~ (ChunkEnd(loop[l]) < Len(loop[l].rows))
       /\ table' = [table EXCEPT !.step = 3, !.minting = FALSE]
       /\ loop[l].pc = "wait" /\ loop[l].tx = "mined"
  BY <1>2, <1>9 DEF ChunkReceipt
<1>11. table'.rows = table.rows /\ loop[l].rows = table.rows
  BY <1>1, <1>10 DEF Table, ImportInv, OwnerOK, Owns, Running
<1>12. GoodLoop(loop[l]) /\ minted[l] = Mint(loop[l])
  BY DEF ImportInv, LoopsOK
<1>13. loop[l].rows \in Seq(Row) /\ Len(loop[l].rows) \in Nat
  BY <1>12, LenProperties DEF GoodLoop, LoopRecord
<1>14. ChunkEnd(loop[l]) = Len(loop[l].rows)
  BY <1>10, <1>12, <1>13, ChunkEndProperties
<1>15. /\ Params(loop[l].rows) \in Seq(MintedRow)
       /\ Len(Params(loop[l].rows)) = Len(loop[l].rows)
       /\ DOMAIN Params(loop[l].rows) = DOMAIN loop[l].rows
       /\ \A i \in DOMAIN loop[l].rows :
            Params(loop[l].rows)[i] = MintedForm(loop[l].rows[i])
  BY <1>13, ParamsProperties
<1>16. minted[l] = Params(loop[l].rows)
  BY <1>10, <1>12, <1>14, <1>15, SubSeqFull DEF Mint
<1>17. \A i \in DOMAIN loop[l].rows : loop[l].rows[i] \in Row
  BY <1>13
<1>18. \A i \in DOMAIN loop[l].rows :
         i \in DOMAIN minted[l] /\ OnHubFirst(loop[l].rows[i], minted[l][i])
  BY <1>15, <1>16, <1>17, RowMinted
<1>19. QED
  BY <1>10, <1>11, <1>18

\* "[COMPLETED]": every row that is shown then is on the hub with its name and its
\* first step, of any number; what is said of all data is not (ImportExcel.jsx:96-122).
THEOREM CompletedMinted == ImportSpec => CompletedIsMinted
<1>1. ImportInv /\ [ImportNext]_importVars =>
        [table.minting /\ table'.step = 3 =>
           \E l \in Loop : /\ loop[l].attached
                           /\ \A i \in DOMAIN table'.rows : \E k \in DOMAIN minted[l] :
                                OnHubFirst(table'.rows[i], minted[l][k])]_importVars
  BY CompletedStep
<1>2. QED
  BY <1>1, ImportIsInvariant, PTL DEF ImportSpec, CompletedIsMinted

-------------------------------------------------------------------------------
(* The chunks of a batch. *)

\* Only StartMint gives a loop its rows; only the chain mints.
LEMMA RowsKept ==
  ASSUME ImportInv, NEW l \in Loop, LoopNext(l)
  PROVE  \A k \in Loop : loop'[k].rows = loop[k].rows
<1>1. loop \in [Loop -> LoopRecord]
  BY DEF ImportInv, LoopsOK
<1>2. loop'[l].rows = loop[l].rows /\ \A k \in Loop \ {l} : loop'[k] = loop[k]
  <2>1. CASE SendChunk(l)
    BY <1>1, <2>1 DEF SendChunk, LoopRecord
  <2>2. CASE MineChunk(l)
    BY <1>1, <2>2 DEF MineChunk, LoopRecord
  <2>3. CASE RevertChunk(l)
    BY <1>1, <2>3 DEF RevertChunk, LoopRecord
  <2>4. CASE ChunkReceipt(l)
    BY <1>1, <2>4 DEF ChunkReceipt, LoopRecord
  <2>5. CASE Fatal(l)
    BY <1>1, <2>5 DEF Fatal, LoopRecord
  <2>6. QED
    BY <2>1, <2>2, <2>3, <2>4, <2>5 DEF LoopNext
<1>3. QED
  BY <1>1, <1>2

\* The length of what is minted, while the chunk is not, is where the chunk begins.
LEMMA MintedLength ==
  ASSUME NEW r, GoodLoop(r), r.tx # "mined"
  PROVE  Len(Mint(r)) = r.at
<1>1. r.rows \in Seq(Row) /\ r.at \in Nat /\ r.at <= Len(r.rows)
  BY DEF GoodLoop, LoopRecord
<1>2. Params(r.rows) \in Seq(MintedRow) /\ Len(Params(r.rows)) = Len(r.rows)
  BY <1>1, ParamsProperties
<1>3. \A i \in 1 .. r.at : Params(r.rows)[i] \in MintedRow
  BY <1>1, <1>2, LenProperties
<1>4. Mint(r) = SubSeq(Params(r.rows), 1, r.at)
  BY DEF Mint
<1>5. QED
  BY <1>1, <1>3, <1>4, SubSeqProperties

LEMMA BatchStep ==
  ASSUME ImportInv, [ImportNext]_importVars
  PROVE  [Batches!Next]_(Batches!vars)
<1> DEFINE batch == [l \in Loop |-> Params(loop[l].rows)]
<1>1. /\ loop \in [Loop -> LoopRecord] /\ minted \in [Loop -> Seq(MintedRow)]
      /\ \A l \in Loop : GoodLoop(loop[l]) /\ minted[l] = Mint(loop[l])
  BY DEF ImportInv, LoopsOK
<1>2. CASE UNCHANGED <<loop, minted>>
  BY <1>2 DEF Batches!vars
<1>3. ASSUME NEW cut \in BOOLEAN, LeaveImport(cut)
      PROVE  UNCHANGED Batches!vars
  <2>1. \A l \in Loop : loop'[l].rows = loop[l].rows
    BY <1>1, <1>3 DEF LeaveImport, LoopRecord
  <2>2. minted' = minted
    BY <1>3 DEF LeaveImport
  <2>3. QED
    BY <2>1, <2>2 DEF Batches!vars
<1>4. ASSUME NEW l \in Loop, StartMint(l)
      PROVE  Batches!Start(l)
  <2>1. loop[l].rows = <<>>
    BY <1>1, <1>4 DEF StartMint, GoodLoop
  <2>2. /\ loop'[l].rows = table.rows /\ table.rows # <<>>
        /\ \A k \in Loop \ {l} : loop'[k] = loop[k]
    BY <1>1, <1>4 DEF StartMint, IdleLoop
  <2>3. minted' = minted
    BY <1>4 DEF StartMint
  <2>4. loop[l].rows = <<>> => Params(loop[l].rows) = <<>>
    BY EmptyParams
  <2>5. table.rows # <<>> => Params(table.rows) # <<>>
    <3>1. table.rows \in Seq(Row)
      BY DEF ImportInv, GoodTable, IsTable
    <3>2. DOMAIN Params(table.rows) = DOMAIN table.rows
      BY <3>1, ParamsProperties
    <3>3. QED
      BY <3>1, <3>2
  <2>6. QED
    BY <2>1, <2>2, <2>3, <2>4, <2>5 DEF Batches!Start
<1>5. ASSUME NEW l \in Loop, LoopNext(l)
      PROVE  Batches!DoChunk(l) \/ UNCHANGED Batches!vars
  <2>1. batch' = batch
    BY <1>5, RowsKept
  <2>2. CASE ~ MineChunk(l)
    BY <1>5, <2>1, <2>2
       DEF LoopNext, SendChunk, RevertChunk, ChunkReceipt, Fatal, Batches!vars
  <2>3. CASE MineChunk(l)
    <3>1. /\ minted' = [minted EXCEPT ![l] = @ \o
                 SubSeq(Params(loop[l].rows), loop[l].at + 1, ChunkEnd(loop[l]))]
          /\ loop[l].tx # "mined"
      BY <2>3 DEF MineChunk
    <3>2. Len(minted[l]) = loop[l].at
      BY <1>1, <3>1, MintedLength
    <3>3. Len(Params(loop[l].rows)) = Len(loop[l].rows)
      BY <1>1, ParamsProperties DEF LoopRecord
    <3>4. QED
      BY <2>1, <3>1, <3>2, <3>3 DEF Batches!DoChunk, ChunkEnd
  <2>4. QED
    BY <2>2, <2>3
<1>6. CASE \/ OpenImport \/ ChooseFile \/ \E rows \in Files : Cleaned(rows)
           \/ \E i \in DOMAIN table.rows : RowNext(i)
           \/ TurnPage(table.page - 1) \/ TurnPage(table.page + 1)
  <2>1. UNCHANGED <<loop, minted>>
    BY <1>6 DEF OpenImport, ChooseFile, Cleaned, RowNext, StartEdit, Cancel, TypeName,
                EditName, TypeStep, Save, Delete, TurnPage
  <2>2. QED
    BY <1>2, <2>1
<1>7. CASE UNCHANGED importVars
  BY <1>2, <1>7 DEF importVars
<1>8. QED
  BY <1>3, <1>4, <1>5, <1>6, <1>7 DEF ImportNext, ImportStep, Batches!Next

\* A table is minted as one batch, in order and chunk by chunk, for any chunk size and
\* number of loops, also by a loop whose component or document is gone
\* (ImportExcel.jsx:83-110).
THEOREM ImplementsBatch == ImportSpec => MintsInChunks
<1>1. ImportInit => Batches!Init
  BY EmptyParams DEF ImportInit, IdleLoop, Batches!Init
<1>2. QED
  BY <1>1, BatchStep, ImportIsInvariant, PTL DEF ImportSpec, MintsInChunks, Batches!Spec

===============================================================================
