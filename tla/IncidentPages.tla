---------------------------- MODULE IncidentPages ----------------------------
(***************************************************************************)
(* GET /incidents, page after page, while the incident manager works.      *)
(*                                                                         *)
(* Pages are ordered by (started_at, id), latest first, and a cursor names   *)
(* the last incident of the page before.  An incident's start moves when a  *)
(* late event is attached or a lookback finds an earlier one, so incidents  *)
(* change places between two pages.  A page is one statement, which reads   *)
(* what is committed; it may come at any time, but here only between two    *)
(* batches, since nothing is committed within one.                         *)
(*                                                                         *)
(* An id is the number of the incident.  In the code it is random, but      *)
(* only the order of incidents with one start depends on it.                *)
(***************************************************************************)
EXTENDS IncidentManager

CONSTANTS
    Filters,   \* [status, entity : one of them or "any", severity : 0..100]
    PageLimit  \* incidents on a page

ASSUME PageLimitAssumption == PageLimit \in Nat \ {0}

VARIABLES
    filter,  \* the filters of the listing
    cursor,  \* next_cursor of its last page
    listed,  \* the incidents it has shown
    present  \* history: those that matched from the first page on

pageVars == <<filter, cursor, listed, present>>

-----------------------------------------------------------------------------
(* The first page is asked for without a cursor, the last returns none.     *)
NoCursor == [started |-> 0, id |-> 0]

NoFilter == [status |-> "any", entity |-> "any", severity |-> 0]

EncodeCursor(i) ==
    [started |-> db.incidents[i].started, id |-> i]

Matches(inc, f) ==
    /\ f.status = "any" \/ inc.status = f.status
    /\ f.entity = "any" \/ inc.primary = f.entity
    /\ inc.severity >= f.severity

Matching(incidents, f) == {i \in DOMAIN incidents : Matches(incidents[i], f)}

(* (started_at, id) of incident i is below the cursor.                      *)
Below(i, c) ==
    \/ c = NoCursor
    \/ db.incidents[i].started < c.started
    \/ db.incidents[i].started = c.started /\ i < c.id

(* list_page: one more than the page shows, to see whether more follow.     *)
ListPage(f, c) ==
    LET rows == {i \in Matching(db.incidents, f) : Below(i, c)}
        above(i) == {j \in rows : Below(i, EncodeCursor(j))}
    IN [k \in 1..Min({PageLimit + 1, Cardinality(rows)}) |->
           CHOOSE i \in rows : Cardinality(above(i)) = k - 1]

(* Fault: the cursor is that of the row beyond the page.                    *)
NextCursorBeyond(rows) ==
    IF Len(rows) > PageLimit THEN EncodeCursor(Last(rows)) ELSE NoCursor

NextCursor(rows) ==
    IF Len(rows) > PageLimit THEN EncodeCursor(rows[PageLimit]) ELSE NoCursor

Shown(rows) == {rows[k] : k \in 1..Min({PageLimit, Len(rows)})}

(* list_incidents.  Filters that differ from those of the cursor are         *)
(* refused, so that a listing keeps its filters.  Nothing remains of a      *)
(* listing that has come to its end.                                       *)
ListIncidents ==
    /\ Idle
    /\ \E f \in Filters :
          LET rows == ListPage(f, cursor)
              next == NextCursor(rows)
              first == cursor = NoCursor
          IN /\ ~first => f = filter
             /\ cursor' = next
             /\ filter' = IF next = NoCursor THEN NoFilter ELSE f
             /\ listed' = IF next = NoCursor THEN {} ELSE listed \cup Shown(rows)
             /\ present' = CASE next = NoCursor -> {}
                             [] next # NoCursor /\ first ->
                                   Matching(db.incidents, f)
                             [] OTHER -> present
    /\ UNCHANGED vars

(* The manager and reviews go on, and some incidents cease to match.        *)
Continue ==
    /\ Next
    /\ present' = present \cap Matching(db'.incidents, filter)
    /\ UNCHANGED <<filter, cursor, listed>>

PagesInit ==
    /\ Init
    /\ filter = NoFilter
    /\ cursor = NoCursor
    /\ listed = {}
    /\ present = {}

PagesNext == ListIncidents \/ Continue

PagesSpec == PagesInit /\ [][PagesNext]_<<vars, pageVars>>

-----------------------------------------------------------------------------
(* A listing passes over no incident that was there from its first page to  *)
(* its last, whatever incidents were opened, closed and moved between its   *)
(* pages.  It rests on a start that never moves to a later time.            *)
NothingIsPassedOver ==
    [][cursor # NoCursor /\ cursor' = NoCursor =>
          present \subseteq listed \cup Shown(ListPage(filter, cursor))]_pageVars
=============================================================================
