------------------------------ MODULE PagedList ------------------------------
(* The lists of the web client that come page by page: the operation log      *)
(* (OperationList.js), the ended runs of a task (TaskEndedLog.js) and the     *)
(* users with the dialogs that add, edit and delete one (userList), with the  *)
(* footer they share (MyTablePagination.js) and the pagination of the server  *)
(* (src/model/base.go), which counts the rows and then reads a page of them,  *)
(* in the order of their ids.                                                 *)
EXTENDS Http

CONSTANTS ListKinds,    \* the lists, a subset of AllListKinds
          MaxRows,      \* ids that rows may get
          MaxListMoves, \* bound on the changes, asked for here or made elsewhere
          Limits,       \* rows per page that may be chosen
          FirstLimit    \* the one a page begins with

AllListKinds == {"operations", "endedLog", "users"}
ASSUME PagedListAssumption ==
    /\ ListKinds \subseteq AllListKinds /\ MaxRows \in Nat /\ MaxListMoves \in Nat
    /\ Limits \subseteq Nat \ {0} /\ FirstLimit \in Limits

VARIABLES
    listKind,           \* the list that is mounted
    dbRows, nextRow,    \* the rows of the table, the next id
    pageWire,           \* the calls of this page
    pageRows,           \* the rows the page was last told
    pageInfo,           \* what its footer shows
    pageLoading, pageRefreshing,
    userDialog,         \* the open dialog and its user
    listMoves,          \* changes asked for so far
    asked,              \* history: page and limit of the last list call
    torn,               \* history: the page shown was counted before a change
    pageAstray          \* history: a list call failed or came out of order

plTable == <<dbRows, nextRow>>
plShown == <<pageRows, pageInfo, torn>>
plSpinners == <<pageLoading, pageRefreshing>>
plHistory == <<asked, pageAstray>>
plVars == <<listKind, dbRows, nextRow, pageWire, pageRows, pageInfo, pageLoading,
            pageRefreshing, userDialog, listMoves, asked, torn, pageAstray>>

RowIds == 1..MaxRows
PageOps == {"load", "page", "refresh"}
UserOps == {"add", "edit", "delete"}

(* page and limit: those a list call asks for, or those that the refresh      *)
(* after a user call will ask for; total and rows: the answer.                *)
PageCall == [stage : Stages \cup {"counted"}, op : PageOps \cup UserOps,
             page : Nat, limit : Limits, user : RowIds \cup {0},
             total : Nat, rows : SUBSET RowIds, torn : BOOLEAN, ok : BOOLEAN]
NoPageCall == [stage |-> "none", op |-> "load", page |-> 0, limit |-> FirstLimit,
               user |-> 0, total |-> 0, rows |-> {}, torn |-> FALSE, ok |-> FALSE]
(* Mutant: the URL has no pageSize, the server takes its own.                 *)
PageCallDefault(op, page, limit) ==
    [NoPageCall EXCEPT !.stage = "sent", !.op = op, !.page = page]

PageListCall(op, page, limit) ==
    [NoPageCall EXCEPT !.stage = "sent", !.op = op, !.page = page, !.limit = limit]
NoUserDialog == [kind |-> "none", user |-> 0]

PagedListInit ==
    /\ listKind \in ListKinds
    /\ \E n \in 0..MaxRows : dbRows = 1..n /\ nextRow = n + 1
    /\ pageWire = [s \in Slots |-> IF s = 1 THEN PageListCall("load", 0, FirstLimit)
                                            ELSE NoPageCall]
    /\ pageRows = {} /\ pageInfo = [page |-> 0, limit |-> FirstLimit, total |-> 0]
    /\ pageLoading = (listKind # "endedLog") /\ pageRefreshing = FALSE
    /\ userDialog = NoUserDialog /\ listMoves = 0
    /\ asked = [page |-> 0, limit |-> FirstLimit]
    /\ torn = FALSE /\ pageAstray = FALSE

-----------------------------------------------------------------------------
(* The user.                                                                  *)

OnListPage == userDialog.kind = "none"
CeilDiv(a, b) == (a + b - 1) \div b
LastPage == LET pages == CeilDiv(pageInfo.total, pageInfo.limit)
            IN  IF pages = 0 THEN 0 ELSE pages - 1

ListMove == listMoves < MaxListMoves /\ listMoves' = listMoves + 1

ListCalled(s) == pageWire[s].op \in PageOps /\ pageWire[s].stage # "none"

(* Answers to list calls that overtake each other: another is under way.      *)
SendPage(s, op, page, limit) ==
    /\ FreeSlot(pageWire, s)
    /\ pageWire' = [pageWire EXCEPT ![s] = PageListCall(op, page, limit)]
    /\ asked' = [page |-> page, limit |-> limit]
    /\ pageAstray' = (pageAstray \/ \E r \in Slots : ListCalled(r))

(* The footer asks for a page, and shows it when the answer is there.         *)
HandleChangePage(s, page, limit) ==
    /\ OnListPage
    /\ SendPage(s, "page", page, limit)
    /\ UNCHANGED <<listKind, plTable, plShown, plSpinners, userDialog, listMoves>>

FirstPageButton(s) == pageInfo.page # 0 /\ HandleChangePage(s, 0, pageInfo.limit)
BackButton(s) ==
    pageInfo.page # 0 /\ HandleChangePage(s, pageInfo.page - 1, pageInfo.limit)
NextButton(s) ==
    pageInfo.page < LastPage /\ HandleChangePage(s, pageInfo.page + 1, pageInfo.limit)
LastPageButton(s) ==
    pageInfo.page < LastPage /\ HandleChangePage(s, LastPage, pageInfo.limit)
(* Other rows per page keep the number of the page.                           *)
RowsPerPage(s, limit) ==
    limit # pageInfo.limit /\ HandleChangePage(s, pageInfo.page, limit)

RefreshUserList(s) ==
    /\ listKind = "users" /\ OnListPage /\ ~pageRefreshing
    /\ SendPage(s, "refresh", pageInfo.page, pageInfo.limit)
    /\ pageRefreshing' = TRUE
    /\ UNCHANGED <<listKind, plTable, plShown, pageLoading, userDialog, listMoves>>

OpenUserDialog(kind, u) ==
    /\ listKind = "users" /\ OnListPage
    /\ userDialog' = [kind |-> kind, user |-> u]
    /\ UNCHANGED <<listKind, plTable, pageWire, plShown, plSpinners, listMoves, plHistory>>
ShowUserAdd == OpenUserDialog("add", 0)
ShowUserEdit(u) == ~pageLoading /\ u \in pageRows /\ OpenUserDialog("edit", u)
ShowUserDelete(u) == ~pageLoading /\ u \in pageRows /\ OpenUserDialog("delete", u)
CloseUserDialog ==
    /\ ~OnListPage /\ userDialog' = NoUserDialog
    /\ UNCHANGED <<listKind, plTable, pageWire, plShown, plSpinners, listMoves, plHistory>>

(* A submit sends the form.  Its handler will refresh the page of this        *)
(* moment, which need not be the page of then.                                *)
SubmitUser(s, op) ==
    /\ userDialog.kind = op
    /\ ListMove
    /\ FreeSlot(pageWire, s)
    /\ pageWire' = [pageWire EXCEPT ![s] =
          [PageListCall(op, pageInfo.page, pageInfo.limit) EXCEPT !.user = userDialog.user]]
    /\ UNCHANGED <<listKind, plTable, plShown, plSpinners, userDialog, plHistory>>
UserAddSubmit(s) == SubmitUser(s, "add")
UserEditSubmit(s) == SubmitUser(s, "edit")
DeleteUser(s) == SubmitUser(s, "delete")

-----------------------------------------------------------------------------
(* The server.                                                                *)

AppendRow == nextRow <= MaxRows /\ dbRows' = dbRows \cup {nextRow} /\ nextRow' = nextRow + 1
RemoveRow(u) == u \in dbRows /\ dbRows' = dbRows \ {u} /\ UNCHANGED nextRow

(* GetOffset and GetLimit on the rows in the order of their ids; a page of    *)
(* the client is one less than the page of the URL.                           *)
Rank(r, rows) == Cardinality({q \in rows : q <= r})
(* Mutant: the page of the URL counted from 0.                                *)
PageFrom0(rows, page, limit) ==
    LET offset == (page + 1) * limit
    IN  {r \in rows : Rank(r, rows) > offset /\ Rank(r, rows) <= offset + limit}

PageOf(rows, page, limit) ==
    LET offset == ((page + 1) - 1) * limit
    IN  {r \in rows : Rank(r, rows) > offset /\ Rank(r, rows) <= offset + limit}

(* Paginate counts, ...                                                       *)
CountRows(s) ==
    /\ pageWire[s].stage = "sent" /\ pageWire[s].op \in PageOps
    /\ pageWire' = [pageWire EXCEPT ![s].stage = "counted",
                                    ![s].total = Cardinality(dbRows)]
    /\ UNCHANGED <<listKind, plTable, plShown, plSpinners, userDialog, listMoves, plHistory>>
(* ... then the page is read.                                                 *)
FindRows(s) ==
    LET c == pageWire[s]
    IN  /\ c.stage = "counted"
        /\ pageWire' = [pageWire EXCEPT ![s] =
              [c EXCEPT !.stage = "done", !.ok = TRUE,
                        !.rows = PageOf(dbRows, c.page, c.limit),
                        !.torn = c.total # Cardinality(dbRows)]]
        /\ UNCHANGED <<listKind, plTable, plShown, plSpinners, userDialog, listMoves, plHistory>>

(* A call about a user is done or refused, a list call may fail.              *)
ServeUser(s, ok) ==
    LET c == pageWire[s]
    IN  /\ c.stage = "sent"
        /\ \/ ~ok /\ UNCHANGED plTable
           \/ ok /\ c.op = "add" /\ AppendRow
           \/ ok /\ c.op = "edit" /\ c.user \in dbRows /\ UNCHANGED plTable
           \/ ok /\ c.op = "delete" /\ RemoveRow(c.user)
        /\ pageWire' = [pageWire EXCEPT ![s].stage = "done", ![s].ok = ok]
        /\ UNCHANGED <<listKind, plShown, plSpinners, userDialog, listMoves, plHistory>>

(* Somebody does something, a run ends; only users are ever deleted.          *)
TableChanges ==
    /\ \/ AppendRow
       \/ listKind = "users" /\ \E u \in dbRows : RemoveRow(u)
    /\ ListMove
    /\ UNCHANGED <<listKind, pageWire, plShown, plSpinners, userDialog, plHistory>>

-----------------------------------------------------------------------------
(* The handlers of answers.                                                   *)

(* Rows and footer are set from the same answer.                              *)
OnPageList(s) ==
    LET c == pageWire[s]
    IN  /\ Answered(pageWire, s) /\ c.op \in PageOps
        /\ pageWire' = [pageWire EXCEPT ![s] = NoPageCall]
        /\ IF c.ok
           THEN /\ pageRows' = c.rows /\ torn' = c.torn
                /\ pageInfo' = [page |-> (c.page + 1) - 1, limit |-> c.limit,
                                total |-> c.total]
                /\ UNCHANGED pageAstray
           ELSE UNCHANGED plShown /\ pageAstray' = TRUE
        /\ pageLoading' = (pageLoading /\ c.op # "load")
        /\ pageRefreshing' = (pageRefreshing /\ c.op # "refresh")
        /\ UNCHANGED <<listKind, plTable, userDialog, listMoves, asked>>

OnUserSaved(s) ==
    LET c == pageWire[s]
    IN  /\ Answered(pageWire, s) /\ c.op \in {"add", "edit"}
        /\ IF c.ok
           THEN /\ pageWire' = [pageWire EXCEPT ![s] = PageListCall("refresh", c.page, c.limit)]
                /\ asked' = [page |-> c.page, limit |-> c.limit]
                /\ pageAstray' = (pageAstray \/ \E r \in Slots : ListCalled(r))
                /\ pageRefreshing' = TRUE
                /\ userDialog' = IF userDialog.kind = c.op THEN NoUserDialog ELSE userDialog
           ELSE /\ pageWire' = [pageWire EXCEPT ![s] = NoPageCall]
                /\ UNCHANGED <<asked, pageAstray, pageRefreshing, userDialog>>
        /\ UNCHANGED <<listKind, plTable, plShown, pageLoading, listMoves>>

(* The dialog is given no deleteUserById: the handler throws and the row of a *)
(* deleted user stays in the list.                                            *)
OnUserDeleted(s) ==
    /\ Answered(pageWire, s) /\ pageWire[s].op = "delete"
    /\ pageWire' = [pageWire EXCEPT ![s] = NoPageCall]
    /\ userDialog' = IF userDialog.kind = "delete" THEN NoUserDialog ELSE userDialog
    /\ UNCHANGED <<listKind, plTable, plShown, plSpinners, listMoves, plHistory>>

(* The call fails in the transport; the spinner of a list call is not cleared.*)
PageCallFails(s) ==
    LET c == pageWire[s]
    IN  /\ c.stage \in {"sent", "counted", "done"}
        /\ pageWire' = [pageWire EXCEPT ![s] = NoPageCall]
        /\ pageAstray' = (pageAstray \/ c.op \in PageOps)
        /\ userDialog' = IF c.op = "delete" /\ userDialog.kind = "delete"
                         THEN NoUserDialog ELSE userDialog
        /\ UNCHANGED <<listKind, plTable, plShown, plSpinners, listMoves, asked>>

PagedListNext ==
    \/ \E s \in Slots : FirstPageButton(s) \/ BackButton(s) \/ NextButton(s)
                        \/ LastPageButton(s) \/ RefreshUserList(s)
    \/ \E s \in Slots, limit \in Limits : RowsPerPage(s, limit)
    \/ ShowUserAdd \/ CloseUserDialog \/ TableChanges
    \/ \E u \in RowIds : ShowUserEdit(u) \/ ShowUserDelete(u)
    \/ \E s \in Slots : UserAddSubmit(s) \/ UserEditSubmit(s) \/ DeleteUser(s)
    \/ \E s \in Slots : CountRows(s) \/ FindRows(s) \/ OnPageList(s) \/ OnUserSaved(s)
                        \/ OnUserDeleted(s) \/ PageCallFails(s)
    \/ \E s \in Slots, ok \in BOOLEAN : ServeUser(s, ok)

PagedListSpec == PagedListInit /\ [][PagedListNext]_plVars

-----------------------------------------------------------------------------
PagedListTypeOK ==
    /\ listKind \in AllListKinds
    /\ dbRows \subseteq RowIds /\ nextRow \in 1..MaxRows + 1
    /\ pageWire \in [Slots -> PageCall]
    /\ pageRows \subseteq RowIds
    /\ pageInfo \in [page : Nat, limit : Limits, total : Nat]
    /\ pageLoading \in BOOLEAN /\ pageRefreshing \in BOOLEAN
    /\ userDialog \in [kind : {"none"} \cup UserOps, user : RowIds \cup {0}]
    /\ listMoves \in Nat
    /\ asked \in [page : Nat, limit : Limits]
    /\ torn \in BOOLEAN /\ pageAstray \in BOOLEAN

(* The rows shown are as many as the footer says its page has, whatever calls *)
(* are under way: one who sees none although there are rows is beyond the     *)
(* last page and can go back.  A row that comes or goes between the two       *)
(* statements of the server is the exception (base.go:69-78).                 *)
FooterFits ==
    LET before == pageInfo.page * pageInfo.limit
        left == IF pageInfo.total > before THEN pageInfo.total - before ELSE 0
    IN  torn \/ Cardinality(pageRows) = (IF left < pageInfo.limit THEN left ELSE pageInfo.limit)

(* Once the answers are there the footer shows the page last asked for,       *)
(* unless a list call failed or two were under way at a time: then the last   *)
(* answer wins, not the last wish (UserList.js:56-77).                        *)
AskedPageShown ==
    \/ pageAstray
    \/ \E s \in Slots : ListCalled(s)
    \/ pageInfo.page = asked.page /\ pageInfo.limit = asked.limit
=============================================================================
