------------------------------- MODULE Content -------------------------------
(* The records administrators keep (blogs, pages, seos, email templates) and  *)
(* those they only list here (users, sessions, activities), one table at a    *)
(* time, with a client that leafs through its list.  Of a row only its place  *)
(* in the order of the list is followed, not its fields; a unique slug or url *)
(* may be taken whenever there is another row.                                *)
EXTENDS Handlers, FiniteSets, Integers, Sequences, Functions

CONSTANTS
    Ranks,         \* values of the column the list is sorted by
    MaxIds,        \* bound: rows ever inserted
    DefaultLimit,  \* rows on a page when the client does not say
    LimitCap       \* the most rows on a page

ASSUME ContentAssumption ==
    /\ MaxIds \in Nat /\ DefaultLimit \in Nat \ {0} /\ LimitCap \in Nat \ {0}
    /\ Ranks \subseteq Int /\ Ranks # {}

VARIABLES
    table,    \* which table it is
    ids,      \* rows inserted so far
    rows,     \* the rank of each row there is
    walk      \* the client's walk through the list

contentVars == <<table, ids, rows, walk>>

Ids == 1..MaxIds
NoRows == [i \in Ids |-> 0]
ContentTasks == [pc : {"update", "read", "delete"}, i : Ids]

Kept == {"blogs", "pages", "seos", "templates"}
Listed == {"users", "sessions", "activities"}

ContentInit ==
    /\ table \in Kept \cup Listed
    /\ ids \in 0..MaxIds /\ rows \in [1..ids -> Ranks]
    /\ walk = [stage |-> "none"]

------------------------------------------------------------------------------
(* A walk that the list changes under is followed no further.                *)
Disturbed == IF walk.stage = "none" THEN walk ELSE [stage |-> "lost"]

Begin(r, p) ==
    /\ \E i \in 1..ids : Start(r, [pc |-> p, i |-> i])
    /\ UNCHANGED contentVars

(* A row is inserted, then read back; a taken key is an error and no row.    *)
InsertRow(r) ==
    /\ ids < MaxIds /\ ids' = ids + 1
    /\ \E k \in Ranks : rows' = [i \in DOMAIN rows \cup {ids'} |-> IF i = ids' THEN k ELSE rows[i]]
    /\ Start(r, [pc |-> "read", i |-> ids'])
    /\ walk' = Disturbed
    /\ UNCHANGED table

CreateBlog(r) == table = "blogs" /\ InsertRow(r)
CreateSeo(r) == table = "seos" /\ InsertRow(r)

(* With nothing to write an update only reads.                               *)
UpdateBlog(r) == table = "blogs" /\ (Begin(r, "update") \/ Begin(r, "read"))
UpdatePage(r) == table = "pages" /\ (Begin(r, "update") \/ Begin(r, "read"))
UpdateSeo(r) == table = "seos" /\ (Begin(r, "update") \/ Begin(r, "read"))
UpdateTemplate(r) == table = "templates" /\ (Begin(r, "update") \/ Begin(r, "read"))

(* UPDATE and commit; when a row was counted it is read back.  Not found is   *)
(* answered when there is none, here and below.                              *)
UpdateRow(r) ==
    /\ At(r, "update")
    /\ LET i == req[r].i IN
         \/ /\ i \in DOMAIN rows
            /\ \E k \in Ranks : rows' = [rows EXCEPT ![i] = k]
            /\ Become(r, [req[r] EXCEPT !.pc = "read"])
         \/ /\ DOMAIN rows # {i}
            /\ Finish(r) /\ UNCHANGED rows
    /\ walk' = IF rows' # rows THEN Disturbed ELSE walk
    /\ UNCHANGED <<table, ids>>

ReadRow(r) == At(r, "read") /\ Finish(r) /\ UNCHANGED contentVars

DeleteBlog(r) == table = "blogs" /\ Begin(r, "delete")
DeleteSeo(r) == table = "seos" /\ Begin(r, "delete")

DeleteRow(r) ==
    /\ At(r, "delete")
    /\ rows' = [j \in DOMAIN rows \ {req[r].i} |-> rows[j]]
    /\ walk' = IF rows' # rows THEN Disturbed ELSE walk
    /\ Finish(r)
    /\ UNCHANGED <<table, ids>>

(* Users come and go by the handlers of Accounts, sessions and activities by  *)
(* whatever anybody does.                                                    *)
CreateUser ==
    /\ table \in Listed
    /\ ids < MaxIds /\ ids' = ids + 1
    /\ \E k \in Ranks : rows' = [i \in DOMAIN rows \cup {ids'} |-> IF i = ids' THEN k ELSE rows[i]]
    /\ walk' = Disturbed
    /\ UNCHANGED <<req, table>>
DeleteUser ==
    /\ table \in Listed
    /\ \E j \in DOMAIN rows : rows' = [i \in DOMAIN rows \ {j} |-> rows[i]]
    /\ walk' = Disturbed
    /\ UNCHANGED <<req, table, ids>>

------------------------------------------------------------------------------
(* paginate: the limit clamped, an offset before a page, the count, then the  *)
(* rows in the order of one column; rows of equal rank come in any order.     *)
Least(a, b) == IF a < b THEN a ELSE b
Most(a, b) == IF a > b THEN a ELSE b
LimitOf(in) == Most(1, Least(IF in.limit = 0 THEN DefaultLimit ELSE in.limit, LimitCap))

(* Mutant: pages are counted from zero.                                      *)
OffsetAfter(in) == IF in.by = "offset" THEN Most(in.at, 0) ELSE Most(in.at, 1) * LimitOf(in)

OffsetOf(in) == IF in.by = "offset" THEN Most(in.at, 0) ELSE (Most(in.at, 1) - 1) * LimitOf(in)
PagesOf(total, limit) == Most(1, (total + limit - 1) \div limit)

Orders == {s \in [1..Cardinality(DOMAIN rows) -> DOMAIN rows] :
              /\ IsInjective(s)
              /\ \A a, b \in DOMAIN s : a < b => rows[s[a]] <= rows[s[b]]}

WalkStart(t) ==
    /\ table = t /\ walk.stage = "none"
    /\ \E l \in 0..LimitCap + 1, by \in {"page", "offset"} :
          walk' = [stage |-> "count", true |-> TRUE, shown |-> NoRows, total |-> 0,
                   in |-> [limit |-> l, by |-> by, at |-> 0]]
    /\ UNCHANGED <<req, table, ids, rows>>

ListAccounts == WalkStart("users")
ListActivities == WalkStart("activities")
ListSessions == WalkStart("sessions")
ListBlogs == WalkStart("blogs")
ListPages == WalkStart("pages")
ListSeos == WalkStart("seos")
ListTemplates == WalkStart("templates")

CountRows ==
    /\ walk.stage = "count"
    /\ walk' = [walk EXCEPT !.stage = "page", !.total = Cardinality(DOMAIN rows)]
    /\ UNCHANGED <<req, table, ids, rows>>

(* The list, "Showing a-b of total items", and the number of pages, after the *)
(* last of which the client stops.                                            *)
ReadPage ==
    /\ walk.stage = "page"
    /\ LET limit == LimitOf(walk.in)
           offset == OffsetOf(walk.in)
           page == offset \div limit + 1
           end == Least(offset + limit, walk.total)
       IN \E s \in Orders :
            LET list == {s[a] : a \in {b \in DOMAIN s : offset < b /\ b <= offset + limit}} IN
              walk' = [walk EXCEPT
                         !.shown = [i \in Ids |-> IF i \in list THEN @[i] + 1 ELSE @[i]],
                         !.true = @ /\ Cardinality(list) = end - offset,
                         !.stage = IF page >= PagesOf(walk.total, limit) THEN "done" ELSE "count",
                         !.in.at = IF walk.in.by = "offset" THEN offset + limit ELSE page + 1]
    /\ UNCHANGED <<req, table, ids, rows>>

ContentNext ==
    \/ ListAccounts \/ ListActivities \/ ListSessions
    \/ ListBlogs \/ ListPages \/ ListSeos \/ ListTemplates
    \/ CountRows \/ ReadPage \/ CreateUser \/ DeleteUser
    \/ \E r \in Reqs :
          \/ CreateBlog(r) \/ CreateSeo(r)
          \/ UpdateBlog(r) \/ UpdatePage(r) \/ UpdateSeo(r) \/ UpdateTemplate(r)
          \/ UpdateRow(r) \/ ReadRow(r) \/ DeleteBlog(r) \/ DeleteSeo(r) \/ DeleteRow(r)

ContentSpec == HandlersInit /\ ContentInit /\ [][ContentNext]_<<req, contentVars>>

------------------------------------------------------------------------------
ContentTypeOK ==
    /\ table \in Kept \cup Listed
    /\ ids \in 0..MaxIds /\ DOMAIN rows \subseteq 1..ids /\ Range(rows) \subseteq Ranks
    /\ walk.stage \in {"none", "count", "page", "done", "lost"}
    /\ walk.stage \in {"count", "page", "done"} =>
          walk.total \in 0..MaxIds /\ walk.shown \in [Ids -> Nat] /\ walk.in.at \in Nat
    /\ req \in [Reqs -> ContentTasks \cup {Idle}]

(* Leafing through a list that nobody changes shows every row exactly once,   *)
(* whatever limit is asked for and whether by page or by offset, and counts   *)
(* what it shows, as long as no two rows are equal in the column it is sorted *)
(* by: between equal rows each page's query chooses anew.                     *)
WalkShowsEachOnce ==
    walk.stage = "done" /\ IsInjective(rows) =>
        walk.true /\ \A i \in Ids : walk.shown[i] = IF i \in DOMAIN rows THEN 1 ELSE 0
=============================================================================
