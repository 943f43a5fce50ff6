---------------------------- MODULE PagedListProofs ----------------------------
(***************************************************************************)
(* Theorems about PagedList, for any number of rows, calls and changes and *)
(* every choice of rows per page.                                          *)
(***************************************************************************)
EXTENDS PagedList, FiniteSetTheorems, TLAPS

USE MaxCallsAssumption, PagedListAssumption

(***************************************************************************)
(* Types.                                                                  *)
(***************************************************************************)
LEMMA CeilDivNat == \A a \in Nat, b \in Nat \ {0} : CeilDiv(a, b) \in Nat
BY DEF CeilDiv

LEMMA LastPageNat == PagedListTypeOK => LastPage \in Nat
<1> SUFFICES ASSUME PagedListTypeOK PROVE LastPage \in Nat
  OBVIOUS
<1>1. CeilDiv(pageInfo.total, pageInfo.limit) \in Nat
  BY CeilDivNat DEF PagedListTypeOK
<1>2. QED
  BY <1>1 DEF LastPage

LEMMA CardinalityNat == \A rows : rows \subseteq RowIds => Cardinality(rows) \in Nat
<1>1. IsFiniteSet(RowIds)
  BY FS_Interval DEF RowIds
<1>2. QED
  BY <1>1, FS_Subset, FS_CardinalityType

LEMMA PagedNoCallType == NoPageCall \in PageCall /\ NoPageCall.stage = "none"
BY DEF NoPageCall, PageCall, Stages, PageOps

LEMMA PagedCallType ==
  ASSUME NEW op \in PageOps \cup UserOps, NEW page \in Nat, NEW limit \in Limits
  PROVE  /\ PageListCall(op, page, limit) \in PageCall
         /\ PageListCall(op, page, limit).stage = "sent"
         /\ PageListCall(op, page, limit).op = op
         /\ PageListCall(op, page, limit).page = page
         /\ PageListCall(op, page, limit).limit = limit
BY PagedNoCallType DEF PageListCall, PageCall, Stages

LEMMA PagedListInitType == PagedListInit => PagedListTypeOK
<1> SUFFICES ASSUME PagedListInit PROVE PagedListTypeOK
  OBVIOUS
<1>1. dbRows \subseteq RowIds /\ nextRow \in 1..MaxRows + 1
  BY DEF PagedListInit, RowIds
<1>2. pageWire \in [Slots -> PageCall]
  BY PagedNoCallType, PagedCallType DEF PagedListInit, PageOps
<1>3. QED
  BY <1>1, <1>2 DEF PagedListInit, PagedListTypeOK, NoUserDialog, UserOps

(* A list call is asked for a page there may be.                           *)
LEMMA SendPageType ==
  ASSUME PagedListTypeOK, NEW s \in Slots, NEW op \in PageOps, NEW page \in Nat,
         NEW limit \in Limits, SendPage(s, op, page, limit)
  PROVE  /\ pageWire' \in [Slots -> PageCall] /\ asked' \in [page : Nat, limit : Limits]
         /\ pageAstray' \in BOOLEAN
BY PagedNoCallType, PagedCallType DEF SendPage, PagedListTypeOK

LEMMA UserStepType ==
  ASSUME PagedListTypeOK,
         \/ \E s \in Slots : FirstPageButton(s) \/ BackButton(s) \/ NextButton(s)
                              \/ LastPageButton(s) \/ RefreshUserList(s)
         \/ \E s \in Slots, limit \in Limits : RowsPerPage(s, limit)
         \/ ShowUserAdd \/ CloseUserDialog
         \/ \E u \in RowIds : ShowUserEdit(u) \/ ShowUserDelete(u)
         \/ \E s \in Slots : UserAddSubmit(s) \/ UserEditSubmit(s) \/ DeleteUser(s)
  PROVE  PagedListTypeOK'
<1> USE DEF plTable, plShown, plSpinners, plHistory
<1>1. ASSUME NEW s \in Slots, NEW page \in Nat, NEW limit \in Limits,
             HandleChangePage(s, page, limit)
      PROVE  PagedListTypeOK'
  BY <1>1, SendPageType DEF HandleChangePage, PageOps, PagedListTypeOK
<1>2. ASSUME NEW s \in Slots, FirstPageButton(s) \/ BackButton(s) \/ NextButton(s)
                                 \/ LastPageButton(s)
      PROVE  PagedListTypeOK'
  <2>1. pageInfo.page \in Nat /\ pageInfo.limit \in Limits /\ LastPage \in Nat
    BY LastPageNat DEF PagedListTypeOK
  <2>2. PICK page \in Nat : HandleChangePage(s, page, pageInfo.limit)
    BY <1>2, <2>1 DEF FirstPageButton, BackButton, NextButton, LastPageButton
  <2>3. QED
    BY <1>1, <2>1, <2>2
<1>3. ASSUME NEW s \in Slots, RefreshUserList(s) PROVE PagedListTypeOK'
  <2>1. pageInfo.page \in Nat /\ pageInfo.limit \in Limits
    BY DEF PagedListTypeOK
  <2>2. QED
    BY <1>3, <2>1, SendPageType DEF RefreshUserList, PageOps, PagedListTypeOK
<1>4. ASSUME NEW s \in Slots, NEW limit \in Limits, RowsPerPage(s, limit)
      PROVE  PagedListTypeOK'
  BY <1>1, <1>4 DEF RowsPerPage, PagedListTypeOK
<1>5. ASSUME NEW kind \in UserOps, NEW u \in RowIds \cup {0}, OpenUserDialog(kind, u)
      PROVE  PagedListTypeOK'
  BY <1>5 DEF OpenUserDialog, PagedListTypeOK
<1>6. CASE CloseUserDialog
  BY <1>6 DEF CloseUserDialog, NoUserDialog, PagedListTypeOK
<1>7. ASSUME NEW s \in Slots, NEW op \in UserOps, SubmitUser(s, op)
      PROVE  PagedListTypeOK'
  <2> DEFINE call == PageListCall(op, pageInfo.page, pageInfo.limit)
  <2>1. call \in PageCall /\ userDialog.user \in RowIds \cup {0}
    BY PagedNoCallType, PagedCallType DEF PagedListTypeOK
  <2>2. [call EXCEPT !.user = userDialog.user] \in PageCall
    BY <2>1 DEF PageCall
  <2>3. pageWire' \in [Slots -> PageCall]
    BY <1>7, <2>2 DEF SubmitUser, PagedListTypeOK
  <2>4. QED
    BY <1>7, <2>3 DEF SubmitUser, ListMove, PagedListTypeOK
<1>8. ShowUserAdd \/ (\E u \in RowIds : ShowUserEdit(u) \/ ShowUserDelete(u))
        => PagedListTypeOK'
  BY <1>5 DEF ShowUserAdd, ShowUserEdit, ShowUserDelete, UserOps
<1>9. (\E s \in Slots : UserAddSubmit(s) \/ UserEditSubmit(s) \/ DeleteUser(s))
        => PagedListTypeOK'
  BY <1>7 DEF UserAddSubmit, UserEditSubmit, DeleteUser, UserOps
<1>10. QED
  BY <1>2, <1>3, <1>4, <1>6, <1>8, <1>9

LEMMA TableType ==
  ASSUME PagedListTypeOK, AppendRow \/ (\E u \in RowIds : RemoveRow(u))
  PROVE  dbRows' \subseteq RowIds /\ nextRow' \in 1..MaxRows + 1
<1>1. CASE AppendRow
  BY <1>1 DEF AppendRow, RowIds, PagedListTypeOK
<1>2. CASE \E u \in RowIds : RemoveRow(u)
  BY <1>2 DEF RemoveRow, PagedListTypeOK
<1>3. QED
  BY <1>1, <1>2

LEMMA ServerStepType ==
  ASSUME PagedListTypeOK,
         \/ \E s \in Slots : CountRows(s) \/ FindRows(s)
         \/ \E s \in Slots, ok \in BOOLEAN : ServeUser(s, ok)
         \/ TableChanges
  PROVE  PagedListTypeOK'
<1> USE DEF plTable, plShown, plSpinners, plHistory
<1>1. ASSUME NEW s \in Slots, CountRows(s) PROVE PagedListTypeOK'
  <2>1. Cardinality(dbRows) \in Nat
    BY CardinalityNat DEF PagedListTypeOK
  <2>2. pageWire' \in [Slots -> PageCall]
    BY <1>1, <2>1 DEF CountRows, PagedListTypeOK, PageCall
  <2>3. QED
    BY <1>1, <2>2 DEF CountRows, PagedListTypeOK
<1>2. ASSUME NEW s \in Slots, FindRows(s) PROVE PagedListTypeOK'
  <2> DEFINE c == pageWire[s]
             rows == PageOf(dbRows, c.page, c.limit)
             new == [c EXCEPT !.stage = "done", !.ok = TRUE, !.rows = rows,
                              !.torn = c.total # Cardinality(dbRows)]
  <2>1. c \in PageCall
    BY DEF PagedListTypeOK
  <2>2. rows \subseteq RowIds
    BY DEF PageOf, PagedListTypeOK
  <2> HIDE DEF rows
  <2>3. (c.total # Cardinality(dbRows)) \in BOOLEAN
    OBVIOUS
  <2>4. new \in PageCall
    BY <2>1, <2>2, <2>3 DEF PageCall, Stages
  <2>5. pageWire' = [pageWire EXCEPT ![s] = new]
    BY <1>2 DEF FindRows, rows
  <2> HIDE DEF new
  <2>6. pageWire' \in [Slots -> PageCall]
    BY <2>4, <2>5 DEF PagedListTypeOK
  <2>7. QED
    BY <1>2, <2>6 DEF FindRows, PagedListTypeOK
<1>3. ASSUME NEW s \in Slots, NEW ok \in BOOLEAN, ServeUser(s, ok) PROVE PagedListTypeOK'
  <2>1. UNCHANGED plTable \/ AppendRow \/ RemoveRow(pageWire[s].user)
    BY <1>3 DEF ServeUser
  <2>2. RemoveRow(pageWire[s].user) => \E u \in RowIds : RemoveRow(u)
    BY DEF RemoveRow, PagedListTypeOK
  <2>3. dbRows' \subseteq RowIds /\ nextRow' \in 1..MaxRows + 1
    BY <2>1, <2>2, TableType DEF PagedListTypeOK
  <2>4. pageWire' \in [Slots -> PageCall]
    BY <1>3 DEF ServeUser, PagedListTypeOK, PageCall, Stages
  <2>5. QED
    BY <1>3, <2>3, <2>4 DEF ServeUser, PagedListTypeOK
<1>4. CASE TableChanges
  <2>1. dbRows' \subseteq RowIds /\ nextRow' \in 1..MaxRows + 1
    BY <1>4, TableType DEF TableChanges, RemoveRow, PagedListTypeOK
  <2>2. QED
    BY <1>4, <2>1 DEF TableChanges, ListMove, PagedListTypeOK
<1>5. QED
  BY <1>1, <1>2, <1>3, <1>4

LEMMA AnswerStepType ==
  ASSUME PagedListTypeOK, NEW s \in Slots,
         OnPageList(s) \/ OnUserSaved(s) \/ OnUserDeleted(s) \/ PageCallFails(s)
  PROVE  PagedListTypeOK'
<1> USE DEF plTable, plShown, plSpinners, plHistory
<1>a. pageWire[s] \in PageCall /\ [pageWire EXCEPT ![s] = NoPageCall] \in [Slots -> PageCall]
  BY PagedNoCallType, PagedCallType DEF PagedListTypeOK
<1>b. NoUserDialog \in [kind : {"none"} \cup UserOps, user : RowIds \cup {0}]
  BY DEF NoUserDialog
<1>1. CASE OnPageList(s)
  <2> DEFINE c == pageWire[s]
  <2>1. pageRows' \subseteq RowIds /\ torn' \in BOOLEAN /\ pageAstray' \in BOOLEAN
    BY <1>1, <1>a DEF OnPageList, PagedListTypeOK, PageCall
  <2>2. c.page \in Nat /\ c.limit \in Limits /\ c.total \in Nat /\ (c.page + 1) - 1 \in Nat
    BY <1>a DEF PageCall
  <2>3. pageInfo' \in [page : Nat, limit : Limits, total : Nat]
    BY <1>1, <2>2 DEF OnPageList, PagedListTypeOK
  <2>4. QED
    BY <1>1, <1>a, <2>1, <2>3 DEF OnPageList, PagedListTypeOK
<1>2. CASE OnUserSaved(s)
  <2> DEFINE c == pageWire[s]
  <2>1. c.page \in Nat /\ c.limit \in Limits
    BY <1>a DEF PageCall
  <2>2. PageListCall("refresh", c.page, c.limit) \in PageCall
    BY <2>1, PagedNoCallType, PagedCallType DEF PageOps
  <2>3. pageWire' \in [Slots -> PageCall] /\ asked' \in [page : Nat, limit : Limits]
    BY <1>2, <1>a, <2>1, <2>2 DEF OnUserSaved, PagedListTypeOK
  <2>4. QED
    BY <1>2, <1>b, <2>3 DEF OnUserSaved, PagedListTypeOK
<1>3. CASE OnUserDeleted(s) \/ PageCallFails(s)
  BY <1>3, <1>a, <1>b DEF OnUserDeleted, PageCallFails, PagedListTypeOK
<1>4. QED
  BY <1>1, <1>2, <1>3

LEMMA PagedListStepType == PagedListTypeOK /\ [PagedListNext]_plVars => PagedListTypeOK'
<1> SUFFICES ASSUME PagedListTypeOK, [PagedListNext]_plVars PROVE PagedListTypeOK'
  OBVIOUS
<1>1. CASE UNCHANGED plVars
  BY <1>1 DEF plVars, PagedListTypeOK
<1>2. CASE PagedListNext
  BY <1>2, UserStepType, ServerStepType, AnswerStepType DEF PagedListNext
<1>3. QED
  BY <1>1, <1>2

(***************************************************************************)
(* The footer.  As long as no list call failed and no two were under way   *)
(* at a time, the one list call there may be is the last one asked for;    *)
(* when there is none, the footer already shows what it asked for.         *)
(***************************************************************************)
OneListCall == \A s, r \in Slots : ListCalled(s) /\ ListCalled(r) => s = r
CallIsLast ==
  \A s \in Slots : ListCalled(s) =>
     pageWire[s].page = asked.page /\ pageWire[s].limit = asked.limit
AskInv == pageAstray \/ (OneListCall /\ CallIsLast /\ AskedPageShown)

LEMMA AskInit == PagedListInit => AskInv
BY DEF PagedListInit, AskInv, OneListCall, CallIsLast, AskedPageShown, ListCalled,
       PageListCall, NoPageCall, PageOps

(* Calls that are no list calls, and fields of calls that do not matter.   *)
LEMMA AskFrame ==
  ASSUME AskInv, UNCHANGED <<pageInfo, asked, pageAstray>>,
         \A s \in Slots : /\ ListCalled(s)' <=> ListCalled(s)
                          /\ ListCalled(s) => /\ pageWire'[s].page = pageWire[s].page
                                              /\ pageWire'[s].limit = pageWire[s].limit
  PROVE  AskInv'
BY DEF AskInv, OneListCall, CallIsLast, AskedPageShown

(* A new list call: it is the only one, or the page is astray.             *)
LEMMA AskSend ==
  ASSUME AskInv, NEW s \in Slots, NEW page, NEW limit,
         ListCalled(s)', pageWire'[s].page = page, pageWire'[s].limit = limit,
         \A r \in Slots \ {s} : pageWire'[r] = pageWire[r],
         asked' = [page |-> page, limit |-> limit],
         pageAstray' = (pageAstray \/ \E r \in Slots : ListCalled(r))
  PROVE  AskInv'
<1>1. CASE pageAstray'
  BY <1>1 DEF AskInv
<1>2. CASE ~pageAstray'
  <2>1. \A r \in Slots \ {s} : ~ListCalled(r)'
    BY <1>2 DEF ListCalled
  <2>2. QED
    BY <2>1 DEF AskInv, OneListCall, CallIsLast, AskedPageShown
<1>3. QED
  BY <1>1, <1>2

LEMMA AskStep == PagedListTypeOK /\ AskInv /\ [PagedListNext]_plVars => AskInv'
<1> SUFFICES ASSUME PagedListTypeOK, AskInv, [PagedListNext]_plVars PROVE AskInv'
  OBVIOUS
<1> USE DEF plTable, plShown, plSpinners, plHistory
<1>a. pageWire \in [Slots -> PageCall] /\ pageInfo.page \in Nat /\ pageInfo.limit \in Limits
      /\ LastPage \in Nat
  BY LastPageNat DEF PagedListTypeOK
<1>b. UNCHANGED <<pageInfo, asked, pageAstray, pageWire>> => AskInv'
  BY DEF AskInv, OneListCall, CallIsLast, AskedPageShown, ListCalled
<1>1. ASSUME NEW s \in Slots, NEW op \in PageOps, NEW page \in Nat, NEW limit \in Limits,
             SendPage(s, op, page, limit)
      PROVE  AskInv'
  <2> DEFINE call == PageListCall(op, page, limit)
  <2>1. pageWire' = [pageWire EXCEPT ![s] = call]
    BY <1>1 DEF SendPage
  <2>2. call.stage = "sent" /\ call.op = op /\ call.page = page /\ call.limit = limit
    BY PagedNoCallType, PagedCallType
  <2> HIDE DEF call
  <2>3. ListCalled(s)' /\ pageWire'[s].page = page /\ pageWire'[s].limit = limit
    BY <1>a, <2>1, <2>2 DEF ListCalled
  <2>4. \A r \in Slots \ {s} : pageWire'[r] = pageWire[r]
    BY <1>a, <2>1
  <2>5. QED
    BY <1>1, <2>3, <2>4, AskSend DEF SendPage
<1>2. ASSUME NEW s \in Slots, FirstPageButton(s) \/ BackButton(s) \/ NextButton(s)
                                 \/ LastPageButton(s) \/ RefreshUserList(s)
      PROVE  AskInv'
  <2>1. \E op \in PageOps, page \in Nat : SendPage(s, op, page, pageInfo.limit)
    BY <1>2, <1>a DEF FirstPageButton, BackButton, NextButton, LastPageButton,
                      RefreshUserList, HandleChangePage, PageOps
  <2>2. QED
    BY <1>1, <1>a, <2>1
<1>3. ASSUME NEW s \in Slots, NEW limit \in Limits, RowsPerPage(s, limit) PROVE AskInv'
  BY <1>1, <1>3, <1>a DEF RowsPerPage, HandleChangePage, PageOps
<1>4. ASSUME ShowUserAdd \/ CloseUserDialog \/ TableChanges
               \/ \E u \in RowIds : ShowUserEdit(u) \/ ShowUserDelete(u)
      PROVE  AskInv'
  BY <1>4, <1>b DEF ShowUserAdd, CloseUserDialog, TableChanges, ShowUserEdit, ShowUserDelete,
                    OpenUserDialog
<1>5. ASSUME NEW s \in Slots, NEW op \in UserOps, SubmitUser(s, op) PROVE AskInv'
  <2> DEFINE call == [PageListCall(op, pageInfo.page, pageInfo.limit)
                        EXCEPT !.user = userDialog.user]
  <2>1. call.op = op
    BY DEF PageListCall, NoPageCall
  <2>2. op \notin PageOps
    BY DEF PageOps, UserOps
  <2>3. pageWire' = [pageWire EXCEPT ![s] = call] /\ pageWire[s].stage = "none"
    BY <1>5 DEF SubmitUser, FreeSlot
  <2> HIDE DEF call
  <2>4. ~ListCalled(s)' /\ ~ListCalled(s)
    BY <1>a, <2>1, <2>2, <2>3 DEF ListCalled
  <2>5. \A r \in Slots \ {s} : pageWire'[r] = pageWire[r]
    BY <1>a, <2>3
  <2>6. QED
    BY <1>5, <2>4, <2>5, AskFrame DEF SubmitUser, ListCalled
<1>6. ASSUME NEW s \in Slots, CountRows(s) PROVE AskInv'
  BY <1>6, <1>a, AskFrame DEF CountRows, ListCalled, PageCall
<1>7. ASSUME NEW s \in Slots, FindRows(s) PROVE AskInv'
  BY <1>7, <1>a, AskFrame DEF FindRows, ListCalled, PageCall
<1>8. ASSUME NEW s \in Slots, NEW ok \in BOOLEAN, ServeUser(s, ok) PROVE AskInv'
  BY <1>8, <1>a, AskFrame DEF ServeUser, ListCalled, PageCall
<1>9. ASSUME NEW s \in Slots, OnPageList(s) PROVE AskInv'
  <2>1. pageWire' = [pageWire EXCEPT ![s] = NoPageCall] /\ ListCalled(s)
    BY <1>9 DEF OnPageList, Answered, ListCalled
  <2>2. ~ListCalled(s)' /\ \A r \in Slots \ {s} : pageWire'[r] = pageWire[r]
    BY <1>a, <2>1, PagedNoCallType, PagedCallType DEF ListCalled
  <2>3. CASE ~pageAstray'
    <3>1. ~pageAstray /\ OneListCall /\ CallIsLast /\ UNCHANGED asked
      BY <1>9, <2>3 DEF OnPageList, AskInv
    <3>2. pageInfo'.page = (pageWire[s].page + 1) - 1 /\ pageInfo'.limit = pageWire[s].limit
      BY <1>9, <2>3 DEF OnPageList
    <3>3. pageInfo'.page = asked'.page /\ pageInfo'.limit = asked'.limit
      BY <1>a, <2>1, <3>1, <3>2 DEF CallIsLast, PageCall
    <3>4. \A r \in Slots : ~ListCalled(r)'
      BY <2>1, <2>2, <3>1 DEF OneListCall, ListCalled
    <3>5. QED
      BY <3>3, <3>4 DEF AskInv, OneListCall, CallIsLast, AskedPageShown
  <2>4. QED
    BY <2>3 DEF AskInv
<1>10. ASSUME NEW s \in Slots, OnUserSaved(s) PROVE AskInv'
  <2> DEFINE c == pageWire[s]
             call == PageListCall("refresh", c.page, c.limit)
  <2>1. ~ListCalled(s)
    BY <1>10, <1>a DEF OnUserSaved, ListCalled, PageOps
  <2>2. CASE c.ok
    <3>1. pageWire' = [pageWire EXCEPT ![s] = call]
      BY <1>10, <2>2 DEF OnUserSaved
    <3>2. call.stage = "sent" /\ call.op = "refresh" /\ call.page = c.page
          /\ call.limit = c.limit
      BY DEF PageListCall, NoPageCall
    <3> HIDE DEF call
    <3>3. ListCalled(s)' /\ pageWire'[s].page = c.page /\ pageWire'[s].limit = c.limit
      BY <1>a, <3>1, <3>2 DEF ListCalled, PageOps
    <3>4. \A r \in Slots \ {s} : pageWire'[r] = pageWire[r]
      BY <1>a, <3>1
    <3>5. asked' = [page |-> c.page, limit |-> c.limit]
          /\ pageAstray' = (pageAstray \/ \E r \in Slots : ListCalled(r))
      BY <1>10, <2>2 DEF OnUserSaved
    <3>6. QED
      BY <3>3, <3>4, <3>5, AskSend
  <2>3. CASE ~c.ok
    <3>1. pageWire' = [pageWire EXCEPT ![s] = NoPageCall]
          /\ UNCHANGED <<pageInfo, asked, pageAstray>>
      BY <1>10, <2>3 DEF OnUserSaved
    <3>2. ~ListCalled(s)' /\ \A r \in Slots \ {s} : pageWire'[r] = pageWire[r]
      BY <1>a, <3>1, PagedNoCallType, PagedCallType DEF ListCalled
    <3>3. QED
      BY <2>1, <3>1, <3>2, AskFrame DEF ListCalled
  <2>4. QED
    BY <2>2, <2>3
<1>11. ASSUME NEW s \in Slots, OnUserDeleted(s) \/ PageCallFails(s) PROVE AskInv'
  <2>1. pageWire' = [pageWire EXCEPT ![s] = NoPageCall] /\ UNCHANGED <<pageInfo, asked>>
    BY <1>11 DEF OnUserDeleted, PageCallFails
  <2>2. ~ListCalled(s)' /\ \A r \in Slots \ {s} : pageWire'[r] = pageWire[r]
    BY <1>a, <2>1, PagedNoCallType, PagedCallType DEF ListCalled
  <2>3. pageAstray' \/ (UNCHANGED pageAstray /\ ~ListCalled(s))
    BY <1>11 DEF OnUserDeleted, PageCallFails, ListCalled, PageOps, PagedListTypeOK
  <2>4. QED
    BY <2>1, <2>2, <2>3, AskFrame DEF ListCalled, AskInv
<1>12. CASE UNCHANGED plVars
  BY <1>12, <1>b DEF plVars
<1>13. QED
  BY <1>2, <1>3, <1>4, <1>5, <1>6, <1>7, <1>8, <1>9, <1>10, <1>11, <1>12
  DEF PagedListNext, UserAddSubmit, UserEditSubmit, DeleteUser, UserOps

(***************************************************************************)
(* Rows and footer.  The rows of a set have the ranks from 1 to their      *)
(* number, so a page of it has as many as the footer says.                 *)
(***************************************************************************)
LEMMA RankRight ==
  ASSUME NEW rows \in SUBSET RowIds
  PROVE  /\ \A r \in rows : Rank(r, rows) \in 1..Cardinality(rows)
         /\ \A q, r \in rows : Rank(q, rows) = Rank(r, rows) => q = r
<1> DEFINE UpTo(r) == {q \in rows : q <= r}
<1>a. MaxRows \in Nat /\ IsFiniteSet(1..MaxRows)
  BY PagedListAssumption, FS_Interval
<1>b. rows \subseteq 1..MaxRows
  BY DEF RowIds
<1>c. \A r \in rows : r \in Int
  BY <1>a, <1>b
<1>1. IsFiniteSet(rows) /\ Cardinality(rows) \in Nat
  BY <1>a, <1>b, FS_Subset, FS_CardinalityType
<1>2. ASSUME NEW r \in rows
      PROVE  /\ IsFiniteSet(UpTo(r)) /\ Cardinality(UpTo(r)) \in Nat
             /\ Cardinality(UpTo(r)) <= Cardinality(rows)
             /\ Cardinality(UpTo(r)) # 0
  <2>1. UpTo(r) \in SUBSET rows /\ r \in UpTo(r)
    BY <1>c
  <2> HIDE DEF UpTo
  <2>2. IsFiniteSet(UpTo(r)) /\ Cardinality(UpTo(r)) <= Cardinality(rows)
    BY <1>1, <2>1, FS_Subset
  <2>3. QED
    BY <2>1, <2>2, FS_CardinalityType, FS_EmptySet
<1>3. ASSUME NEW q \in rows, NEW r \in rows, q < r
      PROVE  Cardinality(UpTo(q)) # Cardinality(UpTo(r))
  <2>1. UpTo(q) \in SUBSET UpTo(r)
    <3>1. \A x \in rows : x <= q => x <= r
      BY <1>c, <1>3
    <3>2. QED
      BY <3>1
  <2>a. r \in UpTo(r) /\ r \notin UpTo(q)
    BY <1>c, <1>3
  <2> HIDE DEF UpTo
  <2>2. QED
    BY <1>2, <2>1, <2>a, FS_Subset
<1>4. \A q, r \in rows : Cardinality(UpTo(q)) = Cardinality(UpTo(r)) => q = r
  <2> HIDE DEF UpTo
  <2>1. QED
    BY <1>c, <1>3
<1>5. \A r \in rows : Cardinality(UpTo(r)) \in 1..Cardinality(rows)
  <2> HIDE DEF UpTo
  <2>1. QED
    BY <1>1, <1>2
<1>6. QED
  BY <1>4, <1>5 DEF Rank

FitsFooter(page, limit, total, rows) ==
  LET before == page * limit
      left == IF total > before THEN total - before ELSE 0
  IN  Cardinality(rows) = (IF left < limit THEN left ELSE limit)

LEMMA PageFits ==
  ASSUME NEW rows \in SUBSET RowIds, NEW page \in Nat, NEW limit \in Limits
  PROVE  FitsFooter(page, limit, Cardinality(rows), PageOf(rows, page, limit))
<1> DEFINE n == Cardinality(rows)
           before == page * limit
           upto == IF before + limit < n THEN before + limit ELSE n
           shown == PageOf(rows, page, limit)
           rank == [r \in rows |-> Rank(r, rows)]
           place == [r \in shown |-> Rank(r, rows)]
<1>1. n \in Nat /\ before \in Nat /\ limit \in Nat /\ upto \in Nat /\ IsFiniteSet(rows)
  <2>1. MaxRows \in Nat /\ rows \subseteq 1..MaxRows
    BY PagedListAssumption DEF RowIds
  <2>2. IsFiniteSet(rows)
    <3>1. IsFiniteSet(1..MaxRows)
      BY <2>1, FS_Interval
    <3>2. QED
      BY <2>1, <3>1, FS_Subset
  <2>3. n \in Nat
    BY <2>2, FS_CardinalityType
  <2>4. limit \in Nat
    BY PagedListAssumption
  <2>5. before \in Nat
    BY <2>4
  <2> HIDE DEF before, n
  <2>6. QED
    BY <2>2, <2>3, <2>4, <2>5
<1>2. shown = {r \in rows : rank[r] > before /\ rank[r] <= before + limit}
  <2>1. (page + 1) - 1 = page
    OBVIOUS
  <2>2. QED
    BY <2>1 DEF PageOf
<1>3. rank \in [rows -> 1..n] /\ \A q, r \in rows : rank[q] = rank[r] => q = r
  BY RankRight
<1>4. \A i \in 1..n : \E r \in rows : rank[r] = i
  <2> HIDE DEF rank
  <2>1. rank \in Injection(rows, 1..n)
    BY <1>3 DEF Injection, IsInjective
  <2>2. IsFiniteSet(1..n) /\ Cardinality(1..n) = n
    BY <1>1, FS_Interval
  <2>3. rank \in Surjection(rows, 1..n)
    BY <1>1, <2>1, <2>2, FS_Injection
  <2>4. QED
    BY <2>3 DEF Surjection
<1>5. shown \subseteq rows /\ \A r \in shown : place[r] = rank[r]
  BY <1>2
<1>6. place \in Bijection(shown, (before + 1)..upto)
  <2>1. \A r \in shown : place[r] \in (before + 1)..upto
    <3> HIDE DEF rank, place, n, before
    <3>1. QED
      BY <1>1, <1>2, <1>3, <1>5
  <2>2. place \in [shown -> (before + 1)..upto]
    BY <2>1
  <2> HIDE DEF rank, place, n, before
  <2>3. \A q, r \in shown : place[q] = place[r] => q = r
    BY <1>3, <1>5
  <2>4. ASSUME NEW i \in (before + 1)..upto
        PROVE  \E r \in shown : place[r] = i
    <3>1. i \in 1..n /\ i > before /\ i <= before + limit
      BY <1>1
    <3>2. PICK r \in rows : rank[r] = i
      BY <1>4, <3>1
    <3>3. QED
      BY <1>2, <1>5, <3>1, <3>2
  <2>5. QED
    BY <2>2, <2>3, <2>4 DEF Bijection, Injection, Surjection, IsInjective
<1>7. Cardinality(shown) = Cardinality((before + 1)..upto)
  <2>1. IsFiniteSet(shown)
    BY <1>1, <1>5, FS_Subset
  <2>2. ExistsBijection(shown, (before + 1)..upto)
    BY <1>6 DEF ExistsBijection
  <2>3. QED
    BY <2>1, <2>2, FS_Bijection
<1>8. Cardinality((before + 1)..upto)
        = IF before + 1 > upto THEN 0 ELSE upto - (before + 1) + 1
  <2> HIDE DEF n, before, upto
  <2>1. QED
    BY <1>1, FS_Interval
<1>9. limit > 0
  BY <1>1
<1>10. LET left == IF n > before THEN n - before ELSE 0
       IN  Cardinality(shown) = (IF left < limit THEN left ELSE limit)
  <2> HIDE DEF n, before, shown
  <2>1. QED
    BY <1>1, <1>7, <1>8, <1>9
<1>11. QED
  BY <1>10 DEF FitsFooter

CallFits(c) ==
  c.stage = "done" /\ c.op \in PageOps /\ c.ok =>
    c.torn \/ FitsFooter(c.page, c.limit, c.total, c.rows)
FitInv == FooterFits /\ \A s \in Slots : CallFits(pageWire[s])

LEMMA FooterIsFit ==
  FooterFits <=> torn \/ FitsFooter(pageInfo.page, pageInfo.limit, pageInfo.total, pageRows)
BY DEF FooterFits, FitsFooter

LEMMA NothingFits == FitsFooter(0, FirstLimit, 0, {})
<1>1. FirstLimit \in Nat /\ FirstLimit > 0 /\ 0 * FirstLimit = 0
  OBVIOUS
<1>2. QED
  BY <1>1, FS_EmptySet DEF FitsFooter

LEMMA FitInit == PagedListInit => FitInv
<1> SUFFICES ASSUME PagedListInit PROVE FitInv
  OBVIOUS
<1>1. FooterFits
  BY NothingFits, FooterIsFit DEF PagedListInit
<1>2. \A s \in Slots : pageWire[s].stage # "done"
  BY DEF PagedListInit, PageListCall, NoPageCall
<1>3. QED
  BY <1>1, <1>2 DEF FitInv, CallFits

(* What the page shows stays, and of the calls one may change.             *)
LEMMA FitFrame ==
  ASSUME FitInv, UNCHANGED <<pageInfo, pageRows, torn>>, NEW s \in Slots,
         \A r \in Slots \ {s} : pageWire'[r] = pageWire[r], CallFits(pageWire'[s])
  PROVE  FitInv'
<1>1. FooterFits'
  BY DEF FitInv, FooterFits
<1>2. ASSUME NEW r \in Slots PROVE CallFits(pageWire[r])'
  <2>1. CallFits(pageWire'[r])
    BY DEF FitInv
  <2>2. QED
    BY <2>1 DEF CallFits, FitsFooter
<1>3. QED
  BY <1>1, <1>2 DEF FitInv

LEMMA FitStep == PagedListTypeOK /\ FitInv /\ [PagedListNext]_plVars => FitInv'
<1> SUFFICES ASSUME PagedListTypeOK, FitInv, [PagedListNext]_plVars PROVE FitInv'
  OBVIOUS
<1> USE DEF plTable, plShown, plSpinners, plHistory
<1>a. pageWire \in [Slots -> PageCall] /\ dbRows \in SUBSET RowIds
  BY DEF PagedListTypeOK
<1>b. UNCHANGED <<pageInfo, pageRows, torn, pageWire>> => FitInv'
  BY DEF FitInv, FooterFits, CallFits, FitsFooter
<1>c. ASSUME NEW s \in Slots, NEW c, pageWire' = [pageWire EXCEPT ![s] = c],
             UNCHANGED <<pageInfo, pageRows, torn>>, CallFits(c)
      PROVE  FitInv'
  <2>1. pageWire'[s] = c /\ \A r \in Slots \ {s} : pageWire'[r] = pageWire[r]
    BY <1>a, <1>c
  <2>2. QED
    BY <1>c, <2>1, FitFrame
<1>d. CallFits(NoPageCall)
  BY PagedNoCallType DEF CallFits
<1>1. ASSUME NEW s \in Slots, NEW op \in PageOps, NEW page, NEW limit,
             SendPage(s, op, page, limit), UNCHANGED plShown
      PROVE  FitInv'
  <2>1. PageListCall(op, page, limit).stage = "sent"
    BY DEF PageListCall, NoPageCall
  <2>2. CallFits(PageListCall(op, page, limit))
    BY <2>1 DEF CallFits
  <2>3. QED
    BY <1>1, <1>c, <2>2 DEF SendPage
<1>2. ASSUME NEW s \in Slots, FirstPageButton(s) \/ BackButton(s) \/ NextButton(s)
                                 \/ LastPageButton(s) \/ RefreshUserList(s)
                                 \/ \E limit \in Limits : RowsPerPage(s, limit)
      PROVE  FitInv'
  BY <1>1, <1>2 DEF FirstPageButton, BackButton, NextButton, LastPageButton, RowsPerPage,
                    RefreshUserList, HandleChangePage, PageOps
<1>3. ASSUME ShowUserAdd \/ CloseUserDialog \/ TableChanges
               \/ \E u \in RowIds : ShowUserEdit(u) \/ ShowUserDelete(u)
      PROVE  FitInv'
  BY <1>3, <1>b DEF ShowUserAdd, CloseUserDialog, TableChanges, ShowUserEdit, ShowUserDelete,
                    OpenUserDialog
<1>4. ASSUME NEW s \in Slots, NEW op \in UserOps, SubmitUser(s, op) PROVE FitInv'
  <2> DEFINE call == [PageListCall(op, pageInfo.page, pageInfo.limit)
                        EXCEPT !.user = userDialog.user]
  <2>1. call.stage = "sent"
    BY DEF PageListCall, NoPageCall
  <2>2. pageWire' = [pageWire EXCEPT ![s] = call] /\ UNCHANGED <<pageInfo, pageRows, torn>>
    BY <1>4 DEF SubmitUser
  <2> HIDE DEF call
  <2>3. CallFits(call)
    BY <2>1 DEF CallFits
  <2>4. QED
    BY <1>c, <2>2, <2>3
<1>5. ASSUME NEW s \in Slots, CountRows(s) PROVE FitInv'
  <2>1. pageWire'[s].stage = "counted"
    BY <1>5, <1>a DEF CountRows, PageCall
  <2>2. \A r \in Slots \ {s} : pageWire'[r] = pageWire[r]
    BY <1>5, <1>a DEF CountRows
  <2>3. CallFits(pageWire'[s])
    BY <2>1 DEF CallFits
  <2>4. QED
    BY <1>5, <2>2, <2>3, FitFrame DEF CountRows
<1>6. ASSUME NEW s \in Slots, FindRows(s) PROVE FitInv'
  <2> DEFINE c == pageWire[s]
             found == [c EXCEPT !.stage = "done", !.ok = TRUE,
                                !.rows = PageOf(dbRows, c.page, c.limit),
                                !.torn = c.total # Cardinality(dbRows)]
  <2>1. pageWire' = [pageWire EXCEPT ![s] = found] /\ UNCHANGED <<pageInfo, pageRows, torn>>
    BY <1>6 DEF FindRows
  <2>2. /\ found.page = c.page /\ found.limit = c.limit /\ found.total = c.total
        /\ found.rows = PageOf(dbRows, c.page, c.limit)
        /\ found.torn = (c.total # Cardinality(dbRows))
    BY <1>a DEF PageCall
  <2>3. c.page \in Nat /\ c.limit \in Limits
    BY <1>a DEF PageCall
  <2> HIDE DEF found, c
  <2>4. CallFits(found)
    BY <1>a, <2>2, <2>3, PageFits DEF CallFits
  <2>5. QED
    BY <1>c, <2>1, <2>4
<1>7. ASSUME NEW s \in Slots, NEW ok \in BOOLEAN, ServeUser(s, ok) PROVE FitInv'
  <2>1. \A r \in Slots \ {s} : pageWire'[r] = pageWire[r]
    BY <1>7, <1>a DEF ServeUser
  <2>2. pageWire'[s].ok => pageWire'[s].op \notin PageOps
    BY <1>7, <1>a DEF ServeUser, PageCall, PageOps
  <2>3. CallFits(pageWire'[s])
    BY <2>2 DEF CallFits
  <2>4. QED
    BY <1>7, <2>1, <2>3, FitFrame DEF ServeUser
<1>8. ASSUME NEW s \in Slots, OnPageList(s) PROVE FitInv'
  <2>1. pageWire' = [pageWire EXCEPT ![s] = NoPageCall]
    BY <1>8 DEF OnPageList
  <2>2. CASE ~pageWire[s].ok
    BY <1>8, <1>c, <1>d, <2>1, <2>2 DEF OnPageList
  <2>3. CASE pageWire[s].ok
    <3> DEFINE c == pageWire[s]
    <3>1. c.torn \/ FitsFooter(c.page, c.limit, c.total, c.rows)
      BY <1>8, <2>3 DEF OnPageList, Answered, FitInv, CallFits
    <3>2. /\ pageRows' = c.rows /\ torn' = c.torn
          /\ pageInfo'.page = c.page /\ pageInfo'.limit = c.limit /\ pageInfo'.total = c.total
      BY <1>8, <1>a, <2>3 DEF OnPageList, PageCall
    <3>3. FooterFits'
      BY <3>1, <3>2 DEF FooterFits, FitsFooter
    <3>4. \A r \in Slots : CallFits(pageWire'[r])
      BY <1>a, <1>d, <2>1 DEF FitInv
    <3>5. \A r \in Slots : CallFits(pageWire[r])'
      BY <3>4 DEF CallFits, FitsFooter
    <3>6. QED
      BY <3>3, <3>5 DEF FitInv
  <2>4. QED
    BY <2>2, <2>3
<1>9. ASSUME NEW s \in Slots, OnUserSaved(s) PROVE FitInv'
  <2> DEFINE c == pageWire[s]
  <2>1. PageListCall("refresh", c.page, c.limit).stage = "sent"
    BY DEF PageListCall, NoPageCall
  <2>2. CallFits(PageListCall("refresh", c.page, c.limit))
    BY <2>1 DEF CallFits
  <2>3. QED
    BY <1>9, <1>c, <1>d, <2>2 DEF OnUserSaved
<1>10. ASSUME NEW s \in Slots, OnUserDeleted(s) \/ PageCallFails(s) PROVE FitInv'
  BY <1>10, <1>c, <1>d DEF OnUserDeleted, PageCallFails
<1>11. CASE UNCHANGED plVars
  BY <1>11, <1>b DEF plVars
<1>12. QED
  BY <1>2, <1>3, <1>4, <1>5, <1>6, <1>7, <1>8, <1>9, <1>10, <1>11
  DEF PagedListNext, UserAddSubmit, UserEditSubmit, DeleteUser, UserOps

PagedListInv == PagedListTypeOK /\ AskInv /\ FitInv

LEMMA PagedListInvariant == PagedListSpec => []PagedListInv
<1>1. PagedListInit => PagedListInv
  BY PagedListInitType, AskInit, FitInit DEF PagedListInv
<1>2. PagedListInv /\ [PagedListNext]_plVars => PagedListInv'
  BY PagedListStepType, AskStep, FitStep DEF PagedListInv
<1>3. QED
  BY <1>1, <1>2, PTL DEF PagedListSpec

(* The variables of a list keep their types: the footer never asks for a     *)
(* page before the first one (MyTablePagination.js).                         *)
THEOREM PagedListType == PagedListSpec => []PagedListTypeOK
<1>1. PagedListInv => PagedListTypeOK
  BY DEF PagedListInv
<1>2. QED
  BY <1>1, PagedListInvariant, PTL

(* When no list call is under way the footer shows the page last asked for,  *)
(* unless one failed or two were under way at a time (UserList.js:56-77).    *)
THEOREM PagedListAskedPage == PagedListSpec => []AskedPageShown
<1>1. PagedListInv => AskedPageShown
  BY DEF PagedListInv, AskInv, AskedPageShown
<1>2. QED
  BY <1>1, PagedListInvariant, PTL

(* The rows shown are as many as the footer says its page has, unless a row  *)
(* came or went between the two statements of the server (base.go:69-78).    *)
THEOREM PagedListFooter == PagedListSpec => []FooterFits
<1>1. PagedListInv => FooterFits
  BY DEF PagedListInv, FitInv
<1>2. QED
  BY <1>1, PagedListInvariant, PTL
=============================================================================
