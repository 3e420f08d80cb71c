----------------------------- MODULE PortalBell -----------------------------
(***************************************************************************)
(* The notification bell of the tenant portal.  What is read is marked on   *)
(* the page at once and on the server later; meanwhile the list is polled,  *)
(* and an answer replaces both the list and the number on the badge, which  *)
(* the server reads in two statements.                                      *)
(***************************************************************************)
EXTENDS Naturals, FiniteSets, FiniteSetsExt

CONSTANTS
  MaxNotices,      \* bound: notifications of the tenant, ids from 1
  ListLimit,       \* how many of them the server lists, the newest
  MaxRefreshes     \* bound: requests on their way at once

VARIABLES
  noticeCount,     \* notifications recorded so far
  readOnServer,    \* those that are read
  items,           \* ids in the list on the page
  itemsRead,       \* those of them that have a read_at
  unreadCount,     \* the badge
  bellCalls,       \* requests that are not settled
  between          \* what happened between the two statements of the list on the page

vars == <<noticeCount, readOnServer, items, itemsRead, unreadCount, bellCalls, between>>

\* Items of a list that were marked before the unread ones were counted, and how many
\* notifications were recorded before that.
Nothing == [marked |-> {}, arrived |-> 0]

Init ==
  /\ noticeCount = 0 /\ readOnServer = {}
  /\ items = {} /\ itemsRead = {} /\ unreadCount = 0
  /\ bellCalls = {} /\ between = Nothing

None == [items |-> {}, read |-> {}, of |-> 0, unread |-> 0, between |-> Nothing]
Call(kind, id) == [kind |-> kind, id |-> id, answer |-> "none", list |-> None]

-----------------------------------------------------------------------------
(* The server                                                               *)

\* insert: a message was published.
Record ==
  /\ noticeCount < MaxNotices
  /\ noticeCount' = noticeCount + 1
  /\ UNCHANGED <<readOnServer, items, itemsRead, unreadCount, bellCalls, between>>

\* Request c has come to `answer', its list to `list'.
Answer(c, answer, list) ==
  /\ bellCalls' = (bellCalls \ {c}) \cup {[c EXCEPT !.answer = answer, !.list = list]}
  /\ UNCHANGED <<noticeCount, items, itemsRead, unreadCount, between>>

\* list_for_tenant, the first statement of ListNotificationsUseCase: the newest ones.
ListForTenant(c) ==
  /\ c.kind = "list" /\ c.answer = "none"
  /\ LET newest == {n \in 1..noticeCount : n + ListLimit > noticeCount}
     IN  Answer(c, "listed", [None EXCEPT !.items = newest, !.read = newest \cap readOnServer,
                                          !.of = noticeCount])
  /\ UNCHANGED readOnServer

\* unread_count, the second: how many of all are unread by then.
CountUnread(c) ==
  /\ c.answer = "listed"
  /\ Answer(c, "ok", [c.list EXCEPT
       !.unread  = Cardinality(1..noticeCount \ readOnServer),
       !.between = [marked  |-> (c.list.items \cap readOnServer) \ c.list.read,
                    arrived |-> noticeCount - c.list.of]])
  /\ UNCHANGED readOnServer

\* mark_read and mark_all_read.
Mark(c) ==
  /\ c.kind # "list" /\ c.answer = "none"
  /\ readOnServer' = readOnServer \cup (IF c.kind = "readAll" THEN 1..noticeCount ELSE {c.id})
  /\ Answer(c, "ok", None)

\* The same, asked for by another bell of the tenant: the second one on the page, or one
\* in another browser.
MarkedElsewhere(n) ==
  /\ readOnServer' = readOnServer \cup {n}
  /\ UNCHANGED <<noticeCount, items, itemsRead, unreadCount, bellCalls, between>>

\* Any statement may fail, or the request be lost before it.
Fail(c) ==
  /\ c.answer \in {"none", "listed"}
  /\ Answer(c, "failed", None)
  /\ UNCHANGED readOnServer

-----------------------------------------------------------------------------
(* The bell                                                                 *)

\* On mount, every twenty seconds and when the menu is opened.
refresh ==
  /\ Cardinality(bellCalls) < MaxRefreshes
  /\ bellCalls' = bellCalls \cup {Call("list", 0)}
  /\ UNCHANGED <<noticeCount, readOnServer, items, itemsRead, unreadCount, between>>

RefreshSettles(c) ==
  /\ c.kind = "list" /\ c.answer \in {"ok", "failed"}
  /\ bellCalls' = bellCalls \ {c}
  /\ IF c.answer = "ok"
     THEN /\ items' = c.list.items /\ itemsRead' = c.list.read
          /\ unreadCount' = c.list.unread /\ between' = c.list.between
     ELSE UNCHANGED <<items, itemsRead, unreadCount, between>>
  /\ UNCHANGED <<noticeCount, readOnServer>>

FaultyHandleMarkRead(n) ==
  /\ n \in items /\ Cardinality(bellCalls) < MaxRefreshes
  /\ itemsRead' = itemsRead \cup {n}
  /\ unreadCount' = IF unreadCount = 0 THEN 0 ELSE unreadCount - 1
  /\ bellCalls' = bellCalls \cup {Call("read", n)}
  /\ UNCHANGED <<noticeCount, readOnServer, items, between>>

\* An item that is unread is clicked.
handleMarkRead(n) ==
  /\ n \in items \ itemsRead /\ Cardinality(bellCalls) < MaxRefreshes
  /\ itemsRead' = itemsRead \cup {n}
  /\ unreadCount' = IF unreadCount = 0 THEN 0 ELSE unreadCount - 1
  /\ bellCalls' = bellCalls \cup {Call("read", n)}
  /\ UNCHANGED <<noticeCount, readOnServer, items, between>>

\* The button is there while the badge is.
handleMarkAllRead ==
  /\ unreadCount > 0 /\ Cardinality(bellCalls) < MaxRefreshes
  /\ itemsRead' = items /\ unreadCount' = 0
  /\ bellCalls' = bellCalls \cup {Call("readAll", 0)}
  /\ UNCHANGED <<noticeCount, readOnServer, items, between>>

\* When marking fails the list is fetched again.
MarkSettles(c) ==
  /\ c.kind # "list" /\ c.answer \in {"ok", "failed"}
  /\ bellCalls' = (bellCalls \ {c}) \cup (IF c.answer = "failed" THEN {Call("list", 0)} ELSE {})
  /\ UNCHANGED <<noticeCount, readOnServer, items, itemsRead, unreadCount, between>>

Next ==
  \/ Record \/ refresh \/ handleMarkAllRead
  \/ \E n \in 1..MaxNotices : handleMarkRead(n)
  \/ \E n \in 1..noticeCount : MarkedElsewhere(n)
  \/ \E c \in bellCalls :
       \/ ListForTenant(c) \/ CountUnread(c) \/ Mark(c) \/ Fail(c)
       \/ RefreshSettles(c) \/ MarkSettles(c)

Spec == Init /\ [][Next]_vars

-----------------------------------------------------------------------------
(* Properties                                                               *)

\* The badge and the list on the page differ by no more than what happened between the
\* two statements they were read in, through marking, marking all, failures and answers
\* that come late: it is short of the items shown as unread by no more than were marked
\* in between, and while the list holds all there is, it exceeds them by no more than
\* were recorded in between.
BadgeCoversItems ==
  LET shownUnread == Cardinality(items \ itemsRead)
  IN  /\ unreadCount + Cardinality(between.marked) >= shownUnread
      /\ noticeCount <= ListLimit => unreadCount <= shownUnread + between.arrived

\* An answer is "most recent received messages, plus how many are unread"
\* (ListNotificationsUseCase.rs:4), hence no item is shown as unread that the badge does
\* not count.  The code breaks it: a mark may come between the two statements.
BadgeCountsShown == unreadCount >= Cardinality(items \ itemsRead)

\* What was read once is not shown as unread again.
\* The code breaks it (README, Findings).
ReadStaysRead == [][(itemsRead \cap items') \subseteq itemsRead']_vars
=============================================================================
