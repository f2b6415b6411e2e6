------------------------------- MODULE Alerts -------------------------------
(***************************************************************************)
(* The alerts of one URL, from the worker that raises them to the browser  *)
(* that shows them: persistResult's alert statements, the alert routes,    *)
(* and the two hooks behind the Alerts page and the header's bell.         *)
(*                                                                         *)
(* A URL is checked again only after it FAILED, so its checks are failures *)
(* and at most one final success.  Every request of the browser is in      *)
(* flight on its own; nothing orders their answers.                        *)
(***************************************************************************)
EXTENDS Naturals, Sequences, FiniteSets

CONSTANTS
  Failure,    \* FAILURE_ALERT_TYPES
  Extra,      \* the other alert types, RECOVERED excepted
  Act,        \* acknowledge / resolve clicks of the user
  MaxAlerts     \* bound: rows of the alerts table

ASSUME AlertsAssumption ==
  /\ IsFiniteSet(Failure) /\ IsFiniteSet(Extra) /\ Failure \cap Extra = {}
  /\ "RECOVERED" \notin Failure \cup Extra /\ Failure \cap {"none", "SUCCESS"} = {}

VARIABLES
  rows,     \* the alerts table, in order of insertion; an id is an index
  check,    \* the open persistResult transaction and the last result
  ver,      \* number of the user's changes that are in rows
  flow,     \* flow[f]: one click and the requests it causes
  page,     \* what the Alerts page shows, with the ver it was read at
  bell,     \* the ver of the count that the bell shows
  mess      \* an answer was overtaken by a younger one, a GET failed, or a
            \* POST that was given up was applied after the refresh had read

alertsVars == <<rows, check, ver, flow, page, bell, mess>>

OpenOf(rs, T) == {i \in DOMAIN rs : rs[i].type \in T /\ rs[i].status # "resolved"}
Unasked     == [ver |-> 0, rows |-> <<>>]
NoFlow      == [phase |-> "idle", id |-> 0, to |-> "new", late |-> FALSE,
                list |-> Unasked, bell |-> "none", bver |-> 0]

\* No transaction is open; closing has the rows the closing UPDATE has locked,
\* reopened tells of failures the user opened again since it looked.
NoCheck     == [step |-> "idle", result |-> "none", had |-> FALSE, closing |-> {},
                last |-> "none", reopened |-> FALSE]

AlertsInit ==
  /\ rows = <<>>
  /\ check = NoCheck
  /\ ver = 0
  /\ flow = [f \in Act |-> NoFlow]
  /\ page = [rows |-> <<>>, ver |-> 0, loading |-> TRUE, touched |-> FALSE]
  /\ bell = 0 /\ mess = FALSE

-----------------------------------------------------------------------------
(* The worker *)

\* persistResult has locked the URL and looks for open failure alerts; only a
\* success makes use of what it finds.
PersistReads ==
  /\ check.step = "idle" /\ check.last # "SUCCESS"
  /\ \E result \in Failure \cup {"SUCCESS"} :
       check' = [check EXCEPT !.step = IF result = "SUCCESS" THEN "close" ELSE "insert",
                              !.result = result,
                              !.had = result = "SUCCESS" /\ OpenOf(rows, Failure) # {}]
  /\ UNCHANGED <<rows, ver, flow, page, bell, mess>>

\* A success resolves the failure alerts open when the UPDATE takes its
\* snapshot; until the commit nobody else sees it, or changes these rows.
PersistCloses ==
  /\ check.step = "close"
  /\ check' = [check EXCEPT !.step = "insert", !.closing = OpenOf(rows, Failure),
                            !.reopened = FALSE]
  /\ UNCHANGED <<rows, ver, flow, page, bell, mess>>

\* deriveAlerts: one failure alert, or what a success has to tell.
Derived(extras) ==
  IF check.result \in Failure THEN {check.result}
  ELSE extras \cup (IF check.had THEN {"RECOVERED"} ELSE {})

\* A success leaves the failure alerts open.
BadClosed == rows

\* The rows with the closing UPDATE applied.
Closed == [i \in DOMAIN rows |-> IF i \in check.closing
                                 THEN [rows[i] EXCEPT !.status = "resolved"] ELSE rows[i]]

\* INSERT .. ON CONFLICT DO NOTHING: one open alert per type.
Inserted(rs, types) ==
  LET fresh == {t \in types : OpenOf(rs, {t}) = {}}
      order == CHOOSE s \in [1 .. Cardinality(fresh) -> fresh] :
                 \A t \in fresh : \E i \in DOMAIN s : s[i] = t
  IN rs \o [i \in DOMAIN order |-> [type |-> order[i], status |-> "new"]]

\* The INSERTs and the COMMIT.  A change of the user between them is one
\* before or after all of them: it waits for a row of a type being inserted.
PersistCommits ==
  /\ check.step = "insert"
  /\ \E extras \in SUBSET Extra : rows' = Inserted(Closed, Derived(extras))
  /\ Len(rows') <= MaxAlerts
  /\ check' = [NoCheck EXCEPT !.last = check.result, !.reopened = check.reopened]
  /\ UNCHANGED <<ver, flow, page, bell, mess>>

\* A statement or the connection fails: the job is redelivered.
PersistRollsBack ==
  /\ check.step # "idle"
  /\ check' = [NoCheck EXCEPT !.last = check.last]
  /\ UNCHANGED <<rows, ver, flow, page, bell, mess>>

-----------------------------------------------------------------------------
(* The routes *)

\* A given-up POST that is applied now finds a refresh, or the bell's, gone by.
TooLate(f) ==
  /\ flow[f].late /\ flow[f].phase # "posted"
  /\ ~(flow[f].phase = "get" /\ flow[f].list = Unasked /\ flow[f].bell = "sent")

\* The change opens a failure again, after a success has closed them or when
\* it is about to.
Reopens(i, to) ==
  /\ "SUCCESS" \in {check.result, check.last}
  /\ rows[i].type \in Failure /\ rows[i].status = "resolved" /\ to # "resolved"

\* POST /alerts/:id/acknowledge, /resolve: setStatus whatever the row's status
\* is.  It waits for a transaction that is closing the row.  Reopening a row
\* while its type has another open one violates the unique index, or waits
\* for the transaction that closes the other.
SetStatus(f) ==
  LET i == flow[f].id IN
  /\ flow[f].phase = "post" \/ flow[f].late
  /\ i \notin check.closing
  /\ flow[f].to # "resolved" => OpenOf(rows, {rows[i].type}) \subseteq {i}
  /\ rows' = [rows EXCEPT ![i] = [@ EXCEPT !.status = flow[f].to]]
  /\ ver' = ver + 1
  /\ flow' = [flow EXCEPT ![f] = [@ EXCEPT
       !.phase = IF flow[f].phase = "post" THEN "posted" ELSE flow[f].phase,
       !.late = FALSE, !.id = 0, !.to = "new"]]
  /\ check' = [check EXCEPT !.reopened = @ \/ Reopens(i, flow[f].to)]
  /\ mess' = (mess \/ TooLate(f))
  /\ UNCHANGED <<page, bell>>

\* An error answer (404, 409, 500).
PostFails(f) ==
  /\ flow[f].phase = "post"
  /\ flow' = [flow EXCEPT ![f] = [@ EXCEPT !.phase = "posted", !.id = 0, !.to = "new"]]
  /\ UNCHANGED <<rows, check, ver, page, bell, mess>>

\* The browser aborts after 15 s, or the connection breaks: it goes on as after
\* an error, while the API may still apply the change.
PostAborts(f) ==
  /\ flow[f].phase = "post"
  /\ flow' = [flow EXCEPT ![f] = [@ EXCEPT !.phase = "posted", !.late = TRUE]]
  /\ UNCHANGED <<rows, check, ver, page, bell, mess>>

\* GET /alerts?pageSize=100, from the page.
ReadList(f) ==
  /\ flow[f].phase = "get" /\ flow[f].list = Unasked
  /\ flow' = [flow EXCEPT ![f] = [@ EXCEPT !.list = [ver |-> ver, rows |-> rows]]]
  /\ UNCHANGED <<rows, check, ver, page, bell, mess>>

\* GET /alerts/counts, from the bell.
ReadCounts(f) ==
  /\ flow[f].bell = "sent"
  /\ flow' = [flow EXCEPT ![f] = [@ EXCEPT !.bell = "read", !.bver = ver]]
  /\ UNCHANGED <<rows, check, ver, page, bell, mess>>

-----------------------------------------------------------------------------
(* The browser *)

\* The panel: which rows a tab lists, and the entries of a row's menu.
Shown(tab) ==
  {i \in DOMAIN page.rows :
     \/ tab = "all"
     \/ tab = "resolved" /\ page.rows[i].status = "resolved"
     \/ tab = "critical" /\ i \in OpenOf(page.rows, Failure)
     \/ tab = "warning" /\ i \in OpenOf(page.rows, Extra)
     \/ tab = "info" /\ i \in OpenOf(page.rows, {"RECOVERED"})}

Offered(i) ==
  CASE page.loading                       -> {}
    [] page.rows[i].status = "new"          -> {"acknowledged", "resolved"}
    [] page.rows[i].status = "acknowledged" -> {"resolved"}
    [] page.rows[i].status = "resolved"     -> {}

\* transition(): the page changes at once, the POST follows.
Click(f) ==
  /\ flow[f] = NoFlow
  /\ \E tab \in {"all", "critical", "warning", "info", "resolved"} :
     \E i \in Shown(tab) : \E to \in Offered(i) :
       /\ page' = [page EXCEPT !.touched = TRUE, !.rows[i].status = to]
       /\ flow' = [flow EXCEPT ![f] = [@ EXCEPT !.phase = "post", !.id = i, !.to = to]]
  /\ UNCHANGED <<rows, check, ver, bell, mess>>

\* Only a failed POST is followed by a refresh.
BadDone(f) ==
  /\ flow[f].phase = "posted"
  /\ flow' = [flow EXCEPT ![f] =
       [@ EXCEPT !.phase = IF ver = 0 THEN "get" ELSE "end", !.bell = "sent"]]
  /\ UNCHANGED <<rows, check, ver, page, bell, mess>>

\* done(), after the POST's answer or error: refresh, and nudge the bell.
Done(f) ==
  /\ flow[f].phase = "posted"
  /\ flow' = [flow EXCEPT ![f] = [@ EXCEPT !.phase = "get", !.bell = "sent"]]
  /\ UNCHANGED <<rows, check, ver, page, bell, mess>>

\* refresh() has both answers, or failed and leaves the page as it is.
Refreshed(f) ==
  /\ flow[f].phase = "get"
  /\ flow' = [flow EXCEPT ![f] = [@ EXCEPT !.phase = "end", !.list = Unasked]]
  /\ \/ /\ flow[f].list # Unasked
        /\ page' = [rows |-> flow[f].list.rows, ver |-> flow[f].list.ver,
                    loading |-> FALSE, touched |-> FALSE]
        /\ mess' = (mess \/ flow[f].list.ver < page.ver)
     \/ UNCHANGED page /\ mess' = TRUE
  /\ UNCHANGED <<rows, check, ver, bell>>

\* The bell takes the answer, or keeps its last known value.
BellRings(f) ==
  /\ flow[f].bell # "none"
  /\ flow' = [flow EXCEPT ![f] = [@ EXCEPT !.bell = "none", !.bver = 0]]
  /\ \/ /\ flow[f].bell = "read"
        /\ bell' = flow[f].bver
        /\ mess' = (mess \/ flow[f].bver < bell)
     \/ UNCHANGED bell /\ mess' = TRUE
  /\ UNCHANGED <<rows, check, ver, page>>

\* The page's first refresh, before any click: overlaps nothing of its own.
\* The bell's polls (mount, route, focus, 60 s) are further such answers.
Load ==
  /\ page.loading
  /\ page' = [rows |-> rows, ver |-> ver, loading |-> FALSE, touched |-> FALSE]
  /\ bell' = ver
  /\ UNCHANGED <<rows, check, ver, flow, mess>>

-----------------------------------------------------------------------------

AlertsNext ==
  \/ PersistReads \/ PersistCloses \/ PersistCommits \/ PersistRollsBack \/ Load
  \/ \E f \in Act :
       \/ SetStatus(f) \/ PostFails(f) \/ PostAborts(f) \/ ReadList(f) \/ ReadCounts(f)
       \/ Done(f) \/ Refreshed(f) \/ BellRings(f) \/ Click(f)

AlertsSpec == AlertsInit /\ [][AlertsNext]_alertsVars

-----------------------------------------------------------------------------
(* Properties *)

Quiet == \A f \in Act : flow[f].phase \in {"idle", "end"} /\ flow[f].bell = "none"

\* lib/alerts.ts:37: after a success no failure alert is open, whatever the
\* user does meanwhile, unless an acknowledgement opened one again after the
\* closing UPDATE had taken its snapshot.
OpenFailureHasCause ==
  check.last = "SUCCESS" /\ ~check.reopened => OpenOf(rows, Failure) = {}

\* useAlertsStore.ts:12: once all requests are answered or given up, the page
\* and the bell show the user's own changes and nothing optimistic, unless an
\* answer was overtaken by a younger one, a GET failed, or a POST the browser
\* had given up was applied after the refresh that followed it had read.
Reconciled ==
  Quiet /\ ~mess => ~page.touched /\ page.ver >= ver /\ bell >= ver
=============================================================================
