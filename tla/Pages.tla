-------------------------------- MODULE Pages --------------------------------
(***************************************************************************)
(* One user in one browser tab: the landing panel and its demo, the form   *)
(* that creates a batch, and the three lists (dashboard, history, results  *)
(* of a batch).  One page is mounted at a time and loses its state when it *)
(* is left; requests go on.                                                *)
(*                                                                         *)
(* The user has one list of URLs to be checked and stops submitting it     *)
(* once a batch page has been shown.  A page number stands for a page of   *)
(* some size, and its rows.  The session is known when the panel is used.  *)
(***************************************************************************)
EXTENDS Naturals, FiniteSets

CONSTANTS
  Request,    \* bound: POST /batches of the user
  NPages,     \* pages of the batch list
  MaxResults     \* rows of the opened batch, one per results page

ASSUME PagesAssumption == NPages \in Nat \ {0} /\ MaxResults \in Nat

Page == 1 .. NPages

VARIABLES
  screen,     \* the mounted page
  authed,     \* signed in
  stash,      \* localStorage, PENDING_URLS_KEY: does it hold the URLs
  form,       \* landing panel or create form
  post,       \* post[r]: a request to create a batch
  lost,       \* an answer to one was lost, or its page left before it came
  recent,     \* the dashboard's list
  late,       \* pages asked for by a list that no longer waits for them
  history,    \* the History page
  results     \* the batch page's table

pagesVars == <<screen, authed, stash, form, post, lost, recent, late, history, results>>

\* What a component starts with.
NewForm    == [text |-> "empty", file |-> "none", mode |-> "manual", busy |-> FALSE,
               results |-> FALSE]
NewRecent  == [page |-> 1, rows |-> 1, asked |-> 0, loading |-> FALSE, error |-> FALSE]
\* The server renders the first page of the list, or an error in its place.
Dashboard  == {NewRecent, [NewRecent EXCEPT !.error = TRUE]}
NewHistory == [page |-> 1, rows |-> 0, kind |-> "loading", asked |-> {1}, filter |-> Page]
NewResults == [page |-> 1, rows |-> 0]

PagesInit ==
  /\ screen = "landing" /\ authed \in BOOLEAN /\ stash = FALSE
  /\ form = NewForm /\ post = [r \in Request |-> "none"] /\ lost = FALSE
  /\ recent = NewRecent /\ late = {}
  /\ history = NewHistory /\ results = NewResults

Waits == \E r \in Request : post[r] \in {"sent", "stored"}

\* Mounting a page.  The create form takes the stashed URLs, which nobody has
\* checked, and clears them.
Mount(s) ==
  /\ screen' = s
  /\ IF s = "create" /\ stash
       THEN \E t \in {"valid", "invalid", "over"} : form' = [NewForm EXCEPT !.text = t]
       ELSE form' = NewForm
  /\ stash' = (stash /\ s # "create")
  /\ IF s = "dashboard" THEN recent' \in Dashboard ELSE recent' = NewRecent
  /\ late' = {} /\ history' = NewHistory /\ results' = NewResults

\* The sidebar, the links and buttons of the pages, and the browser's own.
Navigate ==
  /\ \/ authed /\ \E s \in {"landing", "create", "dashboard", "history", "batch"} : Mount(s)
     \/ ~authed /\ Mount("landing")
  /\ lost' = (lost \/ Waits)
  /\ UNCHANGED <<authed, post>>

\* "Sign up to monitor more": /signup?next=/batches/new.
SignUpFromDemo ==
  /\ ~authed /\ screen = "landing" /\ form.results
  /\ authed' = TRUE /\ Mount("create")
  /\ UNCHANGED <<post, lost>>

-----------------------------------------------------------------------------
(* Landing panel and create form *)

\* The panel takes input while it shows no results and waits for no answer.
PanelUsable == screen = "landing" /\ ~form.results /\ ~form.busy

\* Text and file exclude each other there, and the URLs are not checked.
TypeInPanel ==
  /\ PanelUsable
  /\ \E t \in {"empty", "valid", "invalid"} :
       form' = [form EXCEPT !.text = t, !.file = "none"]
  /\ UNCHANGED <<screen, authed, stash, post, lost, recent, late, history, results>>

\* The chosen file can be taken back at any time.
PanelFile ==
  /\ \/ PanelUsable /\ form' = [form EXCEPT !.text = "empty", !.file = "csv"]
     \/ screen = "landing" /\ ~form.results /\ form' = [form EXCEPT !.file = "none"]
  /\ UNCHANGED <<screen, authed, stash, post, lost, recent, late, history, results>>

\* The create form keeps both, disables nothing while a request is out, and
\* sends what the mode says.
TypeUrls ==
  /\ screen = "create" /\ form.mode = "manual"
  /\ \E t \in {"empty", "valid", "invalid", "over"} : form' = [form EXCEPT !.text = t]
  /\ UNCHANGED <<screen, authed, stash, post, lost, recent, late, history, results>>

\* A refused file leaves the chosen one.
PickFile ==
  /\ screen = "create" /\ form.mode = "file"
  /\ \E f \in {"none", "csv"} : form' = [form EXCEPT !.file = f]
  /\ UNCHANGED <<screen, authed, stash, post, lost, recent, late, history, results>>

SetMode ==
  /\ screen = "create"
  /\ \E m \in {"manual", "file"} : form' = [form EXCEPT !.mode = m]
  /\ UNCHANGED <<screen, authed, stash, post, lost, recent, late, history, results>>

\* A second click is not refused while the first is being answered.
BadCanSubmit ==
  IF screen = "landing" THEN form.file # "none" \/ form.text # "empty"
  ELSE IF form.mode = "manual" THEN form.text = "valid" ELSE form.text # "over" /\ form.file # "none"

\* Over the limit disables the button even in file mode.
CanSubmit ==
  /\ ~form.busy
  /\ CASE screen = "landing" -> form.file # "none" \/ form.text # "empty"
       [] screen = "create" /\ form.mode = "manual" -> form.text = "valid"
       [] screen = "create" /\ form.mode = "file" -> form.text # "over" /\ form.file # "none"

\* A guest's demo: the URLs are stashed, then checked.  A file is refused.
RunDemo ==
  /\ screen = "landing" /\ ~authed /\ CanSubmit /\ form.text # "empty"
  /\ stash' \in {TRUE, stash}
  /\ form' = [form EXCEPT !.busy = TRUE]
  /\ UNCHANGED <<screen, authed, post, lost, recent, late, history, results>>

\* Its results replace the panel's input, or an error appears under it.
DemoAnswered ==
  /\ screen = "landing" /\ ~authed /\ form.busy
  /\ form' \in {[form EXCEPT !.busy = FALSE, !.results = r] : r \in BOOLEAN}
  /\ UNCHANGED <<screen, authed, stash, post, lost, recent, late, history, results>>

RunAnother ==
  /\ form.results /\ form' = [form EXCEPT !.results = FALSE]
  /\ UNCHANGED <<screen, authed, stash, post, lost, recent, late, history, results>>

\* POST /batches, from either form.
Submit(r) ==
  /\ screen \in {"landing", "create"} /\ authed /\ CanSubmit
  /\ post[r] = "none" /\ \A q \in Request : post[q] # "shown"
  /\ post' = [post EXCEPT ![r] = "sent"]
  /\ form' = [form EXCEPT !.busy = TRUE]
  /\ UNCHANGED <<screen, authed, stash, lost, recent, late, history, results>>

\* The API has committed the batch.
Stored(r) ==
  /\ post[r] = "sent"
  /\ post' = [post EXCEPT ![r] = "stored"]
  /\ UNCHANGED <<screen, authed, stash, form, lost, recent, late, history, results>>

\* router.push to the new batch, wherever the user is by then.
Created(r) ==
  /\ post[r] = "stored"
  /\ post' = [post EXCEPT ![r] = "shown"]
  /\ Mount("batch")
  /\ UNCHANGED <<authed, lost>>

\* The form is usable again after an error.  The request was refused, or its
\* answer did not come within 15 s: then the batch may exist all the same.
SubmitFails(r) ==
  /\ post[r] \in {"sent", "stored"}
  /\ \/ post[r] = "sent" /\ post' = [post EXCEPT ![r] = "refused"] /\ UNCHANGED lost
     \/ post' = [post EXCEPT ![r] = "made"] /\ lost' = TRUE
  /\ form' = IF screen \in {"landing", "create"} THEN [form EXCEPT !.busy = FALSE] ELSE form
  /\ UNCHANGED <<screen, authed, stash, recent, late, history, results>>

-----------------------------------------------------------------------------
(* RecentBatches, on the dashboard *)

\* Rows, skeleton or error; the pagination is under the first two.
RecentPaged == screen = "dashboard" /\ ~recent.error

\* Pagination sets meta.page; the effect drops the request before and asks
\* again, except for the page that came with the props: then the rows stay as
\* they are, and so does loading.
Turn(p) ==
  /\ RecentPaged /\ p # recent.page
  /\ late' = (late \cup {recent.asked}) \ {0}
  /\ recent' = IF p = NewRecent.page
       THEN [recent EXCEPT !.page = p, !.asked = 0]
       ELSE [recent EXCEPT !.page = p, !.asked = p, !.loading = TRUE, !.error = FALSE]
  /\ UNCHANGED <<screen, authed, stash, form, post, lost, history, results>>

Listed ==
  /\ screen = "dashboard" /\ recent.asked # 0
  /\ recent' \in {[recent EXCEPT !.rows = recent.asked, !.asked = 0, !.loading = FALSE],
                  [recent EXCEPT !.error = TRUE, !.asked = 0, !.loading = FALSE]}
  /\ UNCHANGED <<screen, authed, stash, form, post, lost, late, history, results>>

\* if (cancelled) return.
ListedLate(p) ==
  /\ p \in late /\ late' = late \ {p}
  /\ UNCHANGED <<screen, authed, stash, form, post, lost, recent, history, results>>

-----------------------------------------------------------------------------
(* HistoryView *)

Ready == screen = "history" /\ history.kind = "ready"

\* load(), for a page; the list, its pagination included, gives way to a
\* skeleton while it runs.
LoadPage(p) == [history EXCEPT !.page = p, !.kind = "loading", !.asked = @ \cup {p}]

Matching == history.rows \in history.filter

\* Only a list with rows that match the filters has a pagination.
TurnHistory(p) ==
  /\ Ready /\ p # history.page /\ Matching
  /\ history' = LoadPage(p)
  /\ UNCHANGED <<screen, authed, stash, form, post, lost, recent, late, results>>

RetryHistory ==
  /\ screen = "history" /\ history.kind = "error"
  /\ history' = LoadPage(history.page)
  /\ UNCHANGED <<screen, authed, stash, form, post, lost, recent, late, results>>

\* Date, status and search filter the fetched rows; "Clear filters".
SetFilters ==
  /\ screen = "history"
  /\ \E f \in SUBSET Page : history' = [history EXCEPT !.filter = f]
  /\ UNCHANGED <<screen, authed, stash, form, post, lost, recent, late, results>>

\* An answer is shown whatever has been asked for since.
HistoryLoaded(p) ==
  /\ screen = "history" /\ p \in history.asked
  /\ history' \in {[history EXCEPT !.rows = p, !.kind = "ready", !.asked = @ \ {p}],
                   [history EXCEPT !.kind = "error", !.asked = @ \ {p}]}
  /\ UNCHANGED <<screen, authed, stash, form, post, lost, recent, late, results>>

-----------------------------------------------------------------------------
(* UrlResultsSection *)

LastPage == IF results.rows = 0 THEN 1 ELSE results.rows

\* The page the user chose is used as it is.
BadCurrent == results.page

Current == IF results.page < LastPage THEN results.page ELSE LastPage

\* The rows that match change with every refetch; a new search, status or page
\* size also returns to page 1.
RowsChange ==
  /\ screen = "batch"
  /\ \E n \in 0 .. MaxResults, p \in {1, results.page} : results' = [rows |-> n, page |-> p]
  /\ UNCHANGED <<screen, authed, stash, form, post, lost, recent, late, history>>

TurnResults(p) ==
  /\ screen = "batch" /\ results.rows > 0 /\ p \in 1 .. LastPage
  /\ results' = [results EXCEPT !.page = p]
  /\ UNCHANGED <<screen, authed, stash, form, post, lost, recent, late, history>>

-----------------------------------------------------------------------------

PagesNext ==
  \/ Navigate \/ SignUpFromDemo
  \/ TypeInPanel \/ PanelFile \/ TypeUrls \/ PickFile \/ SetMode
  \/ RunDemo \/ DemoAnswered \/ RunAnother
  \/ \E r \in Request : Submit(r) \/ Stored(r) \/ Created(r) \/ SubmitFails(r)
  \/ \E p \in Page : Turn(p) \/ ListedLate(p) \/ TurnHistory(p) \/ HistoryLoaded(p)
  \/ Listed \/ RetryHistory \/ SetFilters \/ RowsChange
  \/ \E p \in 1 .. MaxResults : TurnResults(p)

PagesSpec == PagesInit /\ [][PagesNext]_pagesVars

-----------------------------------------------------------------------------
(* Properties *)

\* CreateBatchForm.tsx:80, 92: the user's list becomes one batch, however often
\* the button is clicked, unless an answer was lost or its page left.
OneBatch ==
  Cardinality({r \in Request : post[r] \in {"sent", "stored", "made", "shown"}}) > 1 => lost

\* The rows of the dashboard are those of the page its pagination names.
RecentShowsPage ==
  screen = "dashboard" /\ ~recent.loading /\ ~recent.error => recent.rows = recent.page

\* A list shows the rows of the page it names: the dashboard's (back on its
\* first page excepted), although answers overtake each other; the History
\* page's, which has no pagination while it loads; and the batch's, whose page
\* is not empty while rows match, although rows go away.
ListsShowTheirPage ==
  /\ recent.page # NewRecent.page => RecentShowsPage
  /\ Ready => history.rows = history.page
  /\ results.rows > 0 => Current \in 1 .. results.rows
=============================================================================
