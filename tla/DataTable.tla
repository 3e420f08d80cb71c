------------------------------ MODULE DataTable ------------------------------
(***************************************************************************)
(* What DataTable does with the rows it has loaded: filters, search, sort,  *)
(* pages, selection and export.  The tenant portal and the admin panel each *)
(* hold a copy.  How loads race is module PortalTables'; here a load takes  *)
(* its time and brings any rows, or fails.                                  *)
(***************************************************************************)
EXTENDS Naturals, Sequences, FiniteSets, SequencesExt

CONSTANTS
  Id,        \* the rows' ids, numbers
  Column,    \* the sortable columns
  Rank,      \* Rank[k][r]: the place of row r in the order of column k
  Query,     \* what the user types or picks: a search, or an option of a filter
  Matches,   \* Matches[q]: the rows that query q lets through
  pageSize

VARIABLES
  data, isLoading, error,  \* the rows as they came, and the state of the load
  search, filterValue,     \* queries, or "" and "all" for none
  sortKey, sortDir,        \* sortDir is "asc", "desc" or "none"
  pageNo,                  \* page
  selectedIds,
  exported                 \* the rows of the last export

vars == <<data, isLoading, error, search, filterValue, sortKey, sortDir, pageNo,
          selectedIds, exported>>

-----------------------------------------------------------------------------
(* What is shown                                                            *)

filtered ==
  SelectSeq(data, LAMBDA r : /\ filterValue # "all" => r \in Matches[filterValue]
                             /\ search # "" => r \in Matches[search])

\* Array.sort is stable, and localeCompare the other way round for "desc".
sorted ==
  IF sortDir = "none" THEN filtered
  ELSE LET before(a, b) == IF sortDir = "asc" THEN Rank[sortKey][a] < Rank[sortKey][b]
                                              ELSE Rank[sortKey][b] < Rank[sortKey][a]
       IN SortSeq(filtered, before)

totalPages == IF sorted = <<>> THEN 1 ELSE (Len(sorted) + pageSize - 1) \div pageSize

\* slice: it stops at the end, and is empty beyond it.
paginated ==
  LET last == pageNo * pageSize
  IN SubSeq(sorted, (pageNo - 1) * pageSize + 1, IF last < Len(sorted) THEN last ELSE Len(sorted))

pageRowIds      == ToSet(paginated)
allPageSelected == pageRowIds # {} /\ pageRowIds \subseteq selectedIds
selectedRows    == SelectSeq(data, LAMBDA r : r \in selectedIds)

-----------------------------------------------------------------------------
(* Loads                                                                    *)

Init ==
  /\ data = <<>> /\ isLoading = TRUE /\ error = FALSE
  /\ search = "" /\ filterValue = "all" /\ sortKey = "" /\ sortDir = "none"
  /\ pageNo = 1 /\ selectedIds = {} /\ exported = <<>>

\* source or refreshKey has changed: the page number is not touched.
Reload ==
  /\ isLoading' = TRUE /\ error' = FALSE /\ selectedIds' = {}
  /\ UNCHANGED <<data, search, filterValue, sortKey, sortDir, pageNo, exported>>

Loaded ==
  /\ isLoading
  /\ isLoading' = FALSE
  /\ \/ \E s \in SUBSET Id : data' = SetToSortSeq(s, <) /\ UNCHANGED error
     \/ error' = TRUE /\ UNCHANGED data
  /\ UNCHANGED <<search, filterValue, sortKey, sortDir, pageNo, selectedIds, exported>>

-----------------------------------------------------------------------------
(* The toolbar                                                              *)

FaultySetSearch(q) ==
  /\ search' = q
  /\ UNCHANGED <<data, isLoading, error, filterValue, sortKey, sortDir, pageNo, selectedIds, exported>>

\* onChange of the search field.
SetSearch(q) ==
  /\ search' = q /\ pageNo' = 1
  /\ UNCHANGED <<data, isLoading, error, filterValue, sortKey, sortDir, selectedIds, exported>>

\* onValueChange of a filter.
SetFilter(q) ==
  /\ filterValue' = q /\ pageNo' = 1
  /\ UNCHANGED <<data, isLoading, error, search, sortKey, sortDir, selectedIds, exported>>

exportRows(rows) ==
  /\ exported' = rows
  /\ UNCHANGED <<data, isLoading, error, search, filterValue, sortKey, sortDir, pageNo, selectedIds>>

\* "Export all" makes way for "Export selected" and "Clear" once a row is selected.
ExportAll      == selectedRows = <<>> /\ sorted # <<>> /\ exportRows(sorted)
ExportSelected == selectedRows # <<>> /\ exportRows(selectedRows)

ClearSelection ==
  /\ selectedRows # <<>>
  /\ selectedIds' = {}
  /\ UNCHANGED <<data, isLoading, error, search, filterValue, sortKey, sortDir, pageNo, exported>>

-----------------------------------------------------------------------------
(* The header, the rows and the pager                                       *)

\* Another column starts with "asc"; the same one goes asc, desc, none.
handleSort(k) ==
  /\ sortKey' = k
  /\ sortDir' = IF sortKey # k \/ sortDir = "none" THEN "asc"
                ELSE IF sortDir = "asc" THEN "desc" ELSE "none"
  /\ UNCHANGED <<data, isLoading, error, search, filterValue, pageNo, selectedIds, exported>>

\* The box in the header works while the table loads, on the rows there were.
toggleSelectAllOnPage ==
  /\ selectedIds' = IF allPageSelected THEN selectedIds \ pageRowIds ELSE selectedIds \cup pageRowIds
  /\ UNCHANGED <<data, isLoading, error, search, filterValue, sortKey, sortDir, pageNo, exported>>

\* A row is on the screen, with its box and its menu.
RowShown(r) == ~isLoading /\ r \in pageRowIds

toggleSelectRow(r) ==
  /\ RowShown(r)
  /\ selectedIds' = IF r \in selectedIds THEN selectedIds \ {r} ELSE selectedIds \cup {r}
  /\ UNCHANGED <<data, isLoading, error, search, filterValue, sortKey, sortDir, pageNo, exported>>

\* The arrows under the table, which is there when some row is left.
TurnPage(p) ==
  /\ ~isLoading /\ sorted # <<>>
  /\ \/ p = pageNo - 1 /\ pageNo > 1
     \/ p = pageNo + 1 /\ pageNo < totalPages
  /\ pageNo' = p
  /\ UNCHANGED <<data, isLoading, error, search, filterValue, sortKey, sortDir, selectedIds, exported>>

Next ==
  \/ Reload \/ Loaded
  \/ \E q \in Query \cup {""} : SetSearch(q)
  \/ \E q \in Query \cup {"all"} : SetFilter(q)
  \/ ExportAll \/ ExportSelected \/ ClearSelection \/ toggleSelectAllOnPage
  \/ \E k \in Column : handleSort(k)
  \/ \E r \in Id : toggleSelectRow(r)
  \/ \E p \in {pageNo - 1, pageNo + 1} : TurnPage(p)

Spec == Init /\ [][Next]_vars

-----------------------------------------------------------------------------
(* Properties                                                               *)

\* A page that shows rows goes on showing some as long as a row passes the
\* search and the filter: no typing, picking, sorting or paging leads the user to
\* a page past the end, where the table says that there are no results.  Only a
\* load that brings fewer rows does.
OnlyALoadEmptiesThePageStep ==
  paginated # <<>> /\ sorted' # <<>> /\ paginated' = <<>> => Loaded

\* OnlyALoadEmptiesThePageStep of every step.
OnlyALoadEmptiesThePage == [][OnlyALoadEmptiesThePageStep]_vars
=============================================================================
