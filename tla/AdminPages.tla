----------------------------- MODULE AdminPages -----------------------------
(***************************************************************************)
(* The listing pages of the admin console (web-admin, src/pages): Drivers  *)
(* and Promos decide about what they list, Users pages through it, Orders  *)
(* looks one restaurant up, Rides, Restaurants and Payments only show it.  *)
(* A page keeps what the last answer brought, in the order of the answers  *)
(* and not of the requests.  What a row says, searching in it and what a   *)
(* form is filled with are data.                                           *)
(***************************************************************************)
EXTENDS Service

CONSTANTS
  Entries,  \* what the pages list: applications of drivers, promo codes
  Queries   \* pages of users, ids of restaurants

ASSUME PagesAssumption == Queries \subseteq Nat \ {0} /\ 1 \in Queries

VARIABLES
  route,       \* the page that is mounted
  entry,       \* at the server: "open" is a pending application, an active code
  screen,      \* what the page holds of its listing
  dialog,      \* the entry each dialog is open for, if any
  submitting,  \* disables the buttons of dialogs and forms
  told,        \* history: what the page was last told that it did to an entry
  overlapped   \* history: a load began while another was under way

pagesVars == <<job, route, entry, screen, dialog, submitting, told, overlapped>>

Listing == [of : Queries \cup {0}, open : SUBSET Entries]
NoRows == [of |-> 0, open |-> {}]

Screen == [rows : Listing, loading : BOOLEAN, error : BOOLEAN, query : Queries]

Decisions == {"approve", "reject", "deactivate"}
NoDialog == [d \in Decisions |-> {}]

PagesJob ==
  [step : {"load"}, of : Queries]
    \cup [step : {"loaded"}, rows : Listing]
    \cup [step : {"decide", "decided"}, how : Decisions, entry : Entries]
    \cup [step : {"publish", "published"}, entry : Entries]

PagesInit ==
  /\ AllIdle
  /\ route = "none"
  /\ entry = [e \in Entries |-> "absent"]
  /\ screen = [rows |-> NoRows, loading |-> FALSE, error |-> FALSE, query |-> 1]
  /\ dialog = NoDialog
  /\ submitting = FALSE
  /\ told = [e \in Entries |-> "nothing"]
  /\ overlapped = FALSE

\* The chain of the render functions: a skeleton, else the error with Retry,
\* else the rows.
View ==
  IF screen.loading THEN "skeleton" ELSE IF screen.error THEN "error" ELSE "rows"

-----------------------------------------------------------------------------
(* Loading.                                                                *)

Loading == \E s \in Slots : job[s].step \in {"load", "loaded"}

\* A page asks for its listing and shows the skeleton.
Load(s, q) ==
  /\ Goto(s, [step |-> "load", of |-> q])
  /\ screen' = [screen EXCEPT !.loading = TRUE, !.error = FALSE, !.query = q]
  /\ overlapped' = Loading

Unchanged == UNCHANGED <<route, entry, dialog, submitting, told>>

\* The router mounts a page, and its effect loads it ...
Mount(s, r) ==
  /\ route = "none" /\ IsIdle(s)
  /\ r \in {"drivers", "promos", "users", "rides", "restaurants", "payments"}
  /\ route' = r
  /\ Load(s, 1)
  /\ UNCHANGED <<entry, dialog, submitting, told>>

\* ... but for Orders, which has nothing to look up yet.
MountOrders ==
  /\ route = "none"
  /\ route' = "orders"
  /\ UNCHANGED <<job, entry, screen, dialog, submitting, told, overlapped>>

\* A restaurant's id is typed; the rows of the other one stay.
TypeRestaurant(q) ==
  /\ route = "orders"
  /\ screen' = [screen EXCEPT !.query = q]
  /\ UNCHANGED <<job, entry, route, dialog, submitting, told, overlapped>>

\* Load is not disabled while a load is under way.
LoadOrders(s) ==
  /\ route = "orders" /\ IsIdle(s)
  /\ Load(s, screen.query)
  /\ Unchanged

\* Previous and Next: the effect on `page` loads.
ChangePage(s, q) ==
  /\ route = "users" /\ IsIdle(s)
  /\ q \in {screen.query - 1, screen.query + 1} \cap Queries
  /\ Load(s, q)
  /\ Unchanged

\* The button of the error.
Retry(s) ==
  /\ route \notin {"none", "payments"} /\ IsIdle(s)
  /\ View = "error"
  /\ Load(s, screen.query)
  /\ Unchanged

\* useQuery asks again every 30 s or by the button, one request at a time, and
\* shows what it has.
RefetchPayments(s) ==
  /\ route = "payments" /\ IsIdle(s) /\ ~Loading
  /\ Goto(s, [step |-> "load", of |-> 1])
  /\ screen' = [screen EXCEPT !.loading = screen.rows = NoRows,
                  !.error = @ /\ screen.rows # NoRows]
  /\ overlapped' = FALSE
  /\ Unchanged

\* The server reads ...
ReadListing(s) ==
  /\ At(s, "load")
  /\ Goto(s, [step |-> "loaded", rows |-> [of |-> job[s].of,
                open |-> {e \in Entries : entry[e] = "open"}]])
  /\ UNCHANGED <<screen, overlapped>> /\ Unchanged

\* ... and the answer is set, whichever request it answers.
ShowListing(s) ==
  /\ At(s, "loaded")
  /\ screen' = [screen EXCEPT !.rows = job[s].rows, !.loading = FALSE,
                  !.error = @ /\ route # "payments"]
  /\ Return(s)
  /\ UNCHANGED overlapped /\ Unchanged

\* A failure empties the listing; useQuery keeps its data behind the error.
LoadFails(s) ==
  /\ job[s].step \in {"load", "loaded"}
  /\ screen' = [screen EXCEPT !.rows = IF route = "payments" THEN @ ELSE NoRows,
                  !.loading = FALSE, !.error = TRUE]
  /\ Return(s)
  /\ UNCHANGED overlapped /\ Unchanged

-----------------------------------------------------------------------------
(* Deciding.                                                               *)

\* A row's button; an open dialog covers the rows.
Open(d, e) ==
  /\ View = "rows" /\ e \in screen.rows.open
  /\ dialog = NoDialog
  /\ dialog' = [dialog EXCEPT ![d] = {e}]
  /\ UNCHANGED <<job, route, entry, screen, submitting, told, overlapped>>

OpenApprove(e) == route = "drivers" /\ Open("approve", e)
OpenReject(e) == route = "drivers" /\ Open("reject", e)
OpenDeactivate(e) == route = "promos" /\ Open("deactivate", e)

\* Escape closes a dialog even while its decision is under way.
Close(d) ==
  /\ dialog[d] # {}
  /\ dialog' = [dialog EXCEPT ![d] = {}]
  /\ UNCHANGED <<job, route, entry, screen, submitting, told, overlapped>>

CloseApprove == Close("approve")
CloseReject == Close("reject")
CloseDeactivate == Close("deactivate")

\* The button of a dialog, which is disabled while a decision is under way.
SendDecision(s, d) ==
  /\ IsIdle(s) /\ ~submitting
  /\ \E e \in dialog[d] : Goto(s, [step |-> "decide", how |-> d, entry |-> e])
  /\ submitting' = TRUE
  /\ UNCHANGED <<route, entry, screen, dialog, told, overlapped>>

Approve(s) == SendDecision(s, "approve")
Reject(s) == SendDecision(s, "reject")
DeactivateCode(s) == SendDecision(s, "deactivate")

\* submit() of the form for a promo code.
Submit(s, e) ==
  /\ route = "promos" /\ IsIdle(s) /\ ~submitting
  /\ entry[e] = "absent"
  /\ Goto(s, [step |-> "publish", entry |-> e])
  /\ submitting' = TRUE
  /\ UNCHANGED <<route, entry, screen, dialog, told, overlapped>>

\* The server does as it is asked.
Execute(s) ==
  /\ \/ At(s, "decide") /\ Goto(s, [job[s] EXCEPT !.step = "decided"])
        /\ entry' = [entry EXCEPT ![job[s].entry] = "closed"]
     \/ At(s, "publish") /\ Goto(s, [job[s] EXCEPT !.step = "published"])
        /\ entry[job[s].entry] = "absent"
        /\ entry' = [entry EXCEPT ![job[s].entry] = "open"]
  /\ UNCHANGED <<route, screen, dialog, submitting, told, overlapped>>

\* Mutant: approve() and the others do not load the listing again.
SucceedUnloaded(s) ==
  /\ job[s].step \in {"decided", "published"}
  /\ Return(s)
  /\ dialog' = IF At(s, "decided") THEN [dialog EXCEPT ![job[s].how] = {}] ELSE dialog
  /\ told' = [told EXCEPT ![job[s].entry] = IF At(s, "decided") THEN "closed" ELSE "open"]
  /\ submitting' = FALSE
  /\ UNCHANGED <<route, entry, screen, overlapped>>

\* Success closes the dialog, whichever entry it is open for by now, and loads.
Succeed(s) ==
  /\ job[s].step \in {"decided", "published"}
  /\ Load(s, screen.query)
  /\ dialog' = IF At(s, "decided") THEN [dialog EXCEPT ![job[s].how] = {}] ELSE dialog
  /\ told' = [told EXCEPT ![job[s].entry] = IF At(s, "decided") THEN "closed" ELSE "open"]
  /\ submitting' = FALSE
  /\ UNCHANGED <<route, entry>>

\* An error, after the server has acted or before, is shown and nothing loaded.
DecisionFails(s) ==
  /\ job[s].step \in {"decide", "decided", "publish", "published"}
  /\ Return(s)
  /\ submitting' = FALSE
  /\ UNCHANGED <<route, entry, screen, dialog, told, overlapped>>

\* A driver applies; another console decides.
Elsewhere(e) ==
  /\ entry' = [entry EXCEPT ![e] = IF @ = "absent" THEN "open" ELSE "closed"]
  /\ entry' # entry
  /\ UNCHANGED <<job, route, screen, dialog, submitting, told, overlapped>>

PagesNext ==
  \/ MountOrders \/ CloseApprove \/ CloseReject \/ CloseDeactivate
  \/ \E q \in Queries : TypeRestaurant(q)
  \/ \E e \in Entries : OpenApprove(e) \/ OpenReject(e) \/ OpenDeactivate(e) \/ Elsewhere(e)
  \/ \E s \in Slots :
       \/ \E r \in {"drivers", "promos", "users", "rides", "restaurants", "payments"} :
            Mount(s, r)
       \/ \E q \in Queries : ChangePage(s, q)
       \/ LoadOrders(s) \/ Retry(s) \/ RefetchPayments(s)
       \/ ReadListing(s) \/ ShowListing(s) \/ LoadFails(s)
       \/ Approve(s) \/ Reject(s) \/ DeactivateCode(s)
       \/ \E e \in Entries : Submit(s, e)
       \/ Execute(s) \/ Succeed(s) \/ DecisionFails(s)

PagesSpec == PagesInit /\ [][PagesNext]_pagesVars

-----------------------------------------------------------------------------
(* Properties.                                                             *)

\* The state of a page and the locals of its requests have their types.
PagesTypeOK ==
  /\ screen \in Screen
  /\ dialog \in [Decisions -> SUBSET Entries]
  /\ \A d \in Decisions : Cardinality(dialog[d]) <= 1
  /\ submitting \in BOOLEAN /\ overlapped \in BOOLEAN
  /\ job \in [Slots -> PagesJob \cup {Idle}]

\* A page shows its decisions as it was told they were carried out, and the page
\* of users that is selected, unless two loads overlapped: the answers are not
\* told apart, so the older one may be shown last.  And no decision is sent while
\* another is under way.
ShownAsAnswered ==
  /\ View = "rows" /\ ~overlapped =>
       /\ route = "users" => screen.rows.of = screen.query
       /\ \A e \in Entries :
            /\ told[e] = "closed" => e \notin screen.rows.open
            /\ told[e] = "open" => e \in screen.rows.open \/ entry[e] = "closed"
  /\ Cardinality({s \in Slots : job[s].step \in {"decide", "decided", "publish", "published"}}) <= 1
=============================================================================
