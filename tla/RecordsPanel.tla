----------------------------- MODULE RecordsPanel -----------------------------
(***************************************************************************)
(* components/DataManagement.tsx of core_app/frontend and the list of      *)
(* /rawdata (core_app/backend/api/app.py) behind it: a page of records, a  *)
(* form to add or edit one, and a question before one is deleted. What the *)
(* write endpoints do is in RawDataSync; here they change the table of     *)
(* records, or refuse to.                                                  *)
(*                                                                         *)
(* A handler runs up to its next await in one action, with the state of    *)
(* the render it belongs to. Both dialogs are modal: while one is open the *)
(* page below it takes no click. Of the records only their number counts;  *)
(* on the error that both kinds of request share nothing depends.          *)
(***************************************************************************)
EXTENDS Naturals, FiniteSets, Sequences, SequencesExt

CONSTANTS
    MaxRecords,     \* bound on the rows of fru_sales_raw
    PageSize,       \* rows of a page (to choose another is to go to another page)
    MaxLists,       \* bound on the lists under way at one time
    NoPage,         \* nothing on show: not loaded, or the load failed
    NoWrite

ASSUME RecordsAssumption == /\ MaxRecords \in Nat /\ PageSize \in Nat \ {0}
                           /\ NoPage \notin Nat

VARIABLES
    table,          \* how many rows fru_sales_raw has
    grid,           \* the state of the component
    lists,          \* its lists under way, in the order they were sent
    write           \* its POST, PUT or DELETE

recordsVars == <<table, grid, lists, write>>

AllPages == 0..MaxRecords

\* History. missed: an edit or a delete of this panel, to be answered with success,
\* was committed after the rows were read; late: sent for another page than the
\* one chosen, or overtaken by the answer of one sent after it.
Lists == [pc : {"sent", "answered"}, page : AllPages, total : 0..MaxRecords,
          missed : BOOLEAN, late : BOOLEAN]

\* page is where success leads, as the render that the handler belongs to has it.
Writes == [pc : {"sent", "done"}, kind : {"add", "edit", "delete"}, page : AllPages]

ASSUME NoWriteAssumption == NoWrite \notin Writes

RecordsTypeOK ==
    /\ table \in 0..MaxRecords
    /\ grid.page \in AllPages
    /\ grid.missed \in BOOLEAN
    /\ grid.dialog \in {"none", "add", "edit", "delete"}
    /\ \A i \in DOMAIN lists : lists[i] \in Lists
    /\ write \in Writes \union {NoWrite}
    /\ write # NoWrite => write.kind = grid.dialog
    /\ ~grid.mounted => lists = <<>> /\ write = NoWrite

LastPage(n) == IF n = 0 THEN 0 ELSE (n - 1) \div PageSize

Unmounted == [mounted |-> FALSE, total |-> 0, page |-> 0, shown |-> NoPage, loading |-> FALSE, saving |-> FALSE,
              dialog |-> "none", missed |-> FALSE, late |-> FALSE]

RecordsClosed ==
    /\ table = 0
    /\ grid = Unmounted
    /\ lists = <<>>
    /\ write = NoWrite

----------------------------------------------------------------------------
\* fetchData with the page of the render it belongs to, up to its await.
FetchData(g, page) ==
    /\ Len(lists) < MaxLists
    /\ grid' = [g EXCEPT !.loading = TRUE]
    /\ lists' = Append(lists,
            [pc |-> "sent", page |-> page, total |-> 0,
             missed |-> FALSE, late |-> page # g.page])

\* Mutant: the effect runs once.
SetPaginationModel_NoEffect(g, page) ==
    /\ grid' = [g EXCEPT !.page = page]
    /\ UNCHANGED lists

\* setPaginationModel, and the effect that depends on the page: it runs only when
\* that is another than before.
SetPaginationModel(g, page) ==
    IF page = g.page
    THEN grid' = g /\ UNCHANGED lists
    ELSE FetchData([g EXCEPT !.page = page], page)

\* The component is mounted. What the table holds by then is chosen here.
OpenRecords ==
    /\ table' \in 0..MaxRecords
    /\ FetchData([Unmounted EXCEPT !.mounted = TRUE], 0)
    /\ UNCHANGED write

CloseRecords ==
    /\ table' = 0
    /\ grid' = Unmounted
    /\ lists' = <<>>
    /\ write' = NoWrite

----------------------------------------------------------------------------
\* rawdata_list: COUNT and SELECT. That they read one after the other is left out.
List(i) ==
    /\ lists[i].pc = "sent"
    /\ lists' = [lists EXCEPT ![i].pc = "answered", ![i].total = table]
    /\ UNCHANGED <<table, grid, write>>

\* The other requests; those sent before i have been overtaken.
Others(i) == RemoveAt([k \in DOMAIN lists |->
                            [lists[k] EXCEPT !.late = @ \/ k < i]], i)

ShowRows(i) ==
    /\ lists[i].pc = "answered"
    /\ grid' = [grid EXCEPT !.total = lists[i].total,
                            !.shown = lists[i].page, !.loading = FALSE,
                            !.missed = lists[i].missed, !.late = lists[i].late]
    /\ lists' = Others(i)
    /\ UNCHANGED <<table, write>>

\* The list failed, or its answer does not come through.
ShowNothing(i) ==
    /\ grid' = [grid EXCEPT !.total = 0, !.shown = NoPage,
                            !.loading = FALSE, !.missed = FALSE, !.late = FALSE]
    /\ lists' = Others(i)
    /\ UNCHANGED <<table, write>>

----------------------------------------------------------------------------
\* What the user does with no dialog open.

Free == grid.mounted /\ grid.dialog = "none"

\* The pager of the DataGrid goes no further than rowCount.
Turn ==
    /\ Free
    /\ \E page \in 0..LastPage(grid.total) \ {grid.page} : SetPaginationModel(grid, page)
    /\ UNCHANGED <<table, write>>

\* The DataGrid itself leaves a page that rowCount does not reach.
GridValidPage ==
    /\ grid.mounted
    /\ grid.page > LastPage(grid.total)
    /\ SetPaginationModel(grid, LastPage(grid.total))
    /\ UNCHANGED <<table, write>>

\* The buttons to edit and to delete are in the rows.
RowsShown == grid.shown # NoPage /\ grid.shown * PageSize < grid.total

OpenDialog ==
    /\ Free
    /\ \E d \in {"add", "edit", "delete"} :
        /\ d # "add" => RowsShown
        /\ grid' = [grid EXCEPT !.dialog = d]
    /\ UNCHANGED <<table, lists, write>>

Cancel ==
    /\ grid.dialog # "none"
    /\ ~grid.saving
    /\ grid' = [grid EXCEPT !.dialog = "none"]
    /\ UNCHANGED <<table, lists, write>>

\* handleSave and handleDelete, up to their await. A new record leads to the page
\* that is last with one record more than the render knows of, whatever its id.
Submit ==
    /\ grid.dialog # "none"
    /\ ~grid.saving
    /\ write' = [pc |-> "sent", kind |-> grid.dialog,
                 page |-> IF grid.dialog = "add" THEN LastPage(grid.total + 1)
                          ELSE grid.page]
    /\ grid' = [grid EXCEPT !.saving = TRUE]
    /\ UNCHANGED <<table, lists>>

----------------------------------------------------------------------------
\* The table gets n rows, by an edit or a delete of this panel or not (own).
ChangeTable(n, own) ==
    /\ n \in 0..MaxRecords
    /\ table' = n
    /\ grid' = [grid EXCEPT !.missed = @ \/ (own /\ grid.shown # NoPage)]
    /\ lists' = [i \in DOMAIN lists |->
            [lists[i] EXCEPT !.missed = @ \/ (own /\ lists[i].pc = "answered")]]

\* rawdata_create inserts a row or overwrites the one with the id; the other two
\* need theirs.
Committed ==
    /\ write # NoWrite
    /\ write.pc = "sent"
    /\ write.kind # "add" => table > 0
    /\ \/ write.kind \in {"add", "edit"} /\ ChangeTable(table, write.kind = "edit")
       \/ write.kind = "add" /\ ChangeTable(table + 1, FALSE)
       \/ write.kind = "delete" /\ ChangeTable(table - 1, TRUE)
    /\ write' = [write EXCEPT !.pc = "done"]

\* Someone else's change, or that of a write of this panel that will be answered
\* with an error: rawdata_create and rawdata_update commit the record first, and go
\* on to its embeddings.
OtherEdit ==
    /\ grid.mounted
    /\ ChangeTable(table + 1, FALSE) \/ (table > 0 /\ ChangeTable(table - 1, FALSE))
    /\ UNCHANGED write

----------------------------------------------------------------------------
Answered == [grid EXCEPT !.saving = FALSE, !.dialog = "none"]

\* handleSave of an edit, and handleDelete: fetchData of their own render.
SaveOrDelete ==
    /\ write # NoWrite
    /\ write.pc = "done"
    /\ write.kind \in {"edit", "delete"}
    /\ FetchData(Answered, write.page)
    /\ write' = NoWrite
    /\ UNCHANGED table

\* When the page is the same, nothing is fetched.
Added ==
    /\ write # NoWrite
    /\ write.pc = "done"
    /\ write.kind = "add"
    /\ SetPaginationModel(Answered, write.page)
    /\ write' = NoWrite
    /\ UNCHANGED table

\* It was refused, or the answer does not come through: the dialog stays open.
WriteFailed ==
    /\ write # NoWrite
    /\ write.pc = "sent"
    /\ grid' = [grid EXCEPT !.saving = FALSE]
    /\ write' = NoWrite
    /\ UNCHANGED <<table, lists>>

RecordsStep ==
    \/ \E i \in DOMAIN lists :
        List(i) \/ ShowRows(i) \/ ShowNothing(i)
    \/ Turn \/ GridValidPage
    \/ OpenDialog \/ Cancel \/ Submit
    \/ Committed \/ OtherEdit
    \/ SaveOrDelete \/ Added \/ WriteFailed

----------------------------------------------------------------------------
\* Rows are on show, and nothing is under way that would replace them.
AtRest == grid.mounted /\ lists = <<>> /\ write = NoWrite /\ grid.shown # NoPage

\* At rest the rows are those of the page the pager stands on, through changes of
\* page, saves, deletes and failed loads, unless the answer that
\* brought them came after a later one's, or was asked for by a save whose page
\* the grid had left: fetchData does not check which page its answer is for.
RightPageUnlessLate == AtRest /\ ~grid.late => grid.shown = grid.page

\* At rest the rows were read after every edit and delete that the panel was told
\* had succeeded (a new record may be missing from them, and so may a change that
\* was answered with an error).
OwnEditsAreShown == AtRest /\ ~grid.late => ~grid.missed
===============================================================================
