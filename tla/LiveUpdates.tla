---------------------------- MODULE LiveUpdates -----------------------------
(***************************************************************************)
(* Live updates of one batch page: a commit in PostgreSQL is followed by a *)
(* batch.updated notification over Redis pub/sub (lib/events.ts), which    *)
(* the API forwards to the SSE connections registered for the batch        *)
(* (routes/batches.ts), and the page (useBatchDetail.ts) answers every     *)
(* notification and every opening of the stream by refetching the batch.   *)
(*                                                                         *)
(* A snapshot of the batch is a revision number and whether its status is  *)
(* terminal.  Connection identifiers are interchangeable, and are reused   *)
(* once both ends let go.                                                  *)
(* A React effect runs together with the state change that triggers it.    *)
(* MaxRevs bounds the changes of the batch, MaxFaults the failures.        *)
(***************************************************************************)
EXTENDS Integers, FiniteSets

CONSTANTS
  Conn,              \* SSE connections
  NoStream, Failed,  \* no EventSource; an EventSource that gave up
  MaxRevs, MaxFaults

ASSUME LiveUpdatesAssumption ==
  /\ Conn # {} /\ NoStream \notin Conn /\ Failed \notin Conn /\ NoStream # Failed
  /\ MaxRevs \in Nat /\ MaxFaults \in Nat

VARIABLES
  row,          \* the batch in PostgreSQL
  unpublished,  \* commits whose notification is not delivered yet
  conn,         \* conn[c]: both ends of connection c, and its notifications
  page,         \* the snapshot the page shows
  stream,       \* the page's EventSource
  fetch,        \* the page's GET in flight
  command,      \* command[k]: the page's request of kind k
  unheard,      \* a change since the last GET was sent goes unnoticed
  faults        \* failures so far

vars == <<row, unpublished, conn, page, stream, fetch, command, unheard, faults>>
server == <<row, unpublished>>

Live    == {"auth", "subscribed", "open"}
Button  == {"cancel", "retry"}

Unused     == {c \in Conn : conn[c].phase = "none"}
Fresh      == CHOOSE c \in Unused : TRUE
At(phase)  == [phase |-> phase, news |-> 0]
Without(pc) == [pc |-> pc, snap |-> [rev |-> 0, ended |-> FALSE]]   \* no answer yet

Init ==
  /\ row \in [rev : {0}, ended : BOOLEAN]
  /\ page = row
  /\ unpublished = 0 /\ unheard = FALSE /\ faults = 0
  /\ fetch = Without("idle")
  /\ command = [k \in Button |-> Without("idle")]
  /\ \/ row.ended  /\ stream = NoStream /\ conn = [c \in Conn |-> At("none")]
     \/ ~row.ended /\ stream = (CHOOSE c \in Conn : TRUE)
                   /\ conn = [c \in Conn |-> At(IF c = stream THEN "auth" ELSE "none")]

Fault == faults < MaxFaults /\ faults' = faults + 1

-----------------------------------------------------------------------------
(* The batch and its notifications *)

\* A terminal batch can only be reopened.
Changed ==
  /\ row.rev < MaxRevs
  /\ \E ended \in BOOLEAN :
       /\ row.ended => ~ended
       /\ row' = [rev |-> row.rev + 1, ended |-> ended]

\* A worker persists a result, or another page cancels or retries the batch.
Commit ==
  /\ Changed
  /\ unpublished' = unpublished + 1
  /\ UNCHANGED <<conn, page, stream, fetch, command, unheard, faults>>

\* A claim, a release for retry or the sweep: committed, never published.
QuietCommit ==
  /\ ~row.ended /\ Changed /\ ~row'.ended
  /\ unheard' = TRUE
  /\ UNCHANGED <<unpublished, conn, page, stream, fetch, command, faults>>

Publish ==
  /\ unpublished > 0
  /\ unpublished' = unpublished - 1
  /\ conn' = [c \in Conn |-> IF conn[c].phase \in {"subscribed", "open"}
                             THEN [conn[c] EXCEPT !.news = @ + 1] ELSE conn[c]]
  /\ UNCHANGED <<row, page, stream, fetch, command, unheard, faults>>

\* PUBLISH fails and is only logged, or no subscriber is connected to Redis.
PublishLost ==
  /\ Fault /\ unpublished > 0
  /\ unpublished' = unpublished - 1
  /\ unheard' = TRUE
  /\ UNCHANGED <<row, conn, page, stream, fetch, command>>

-----------------------------------------------------------------------------
(* GET /batches/:id/events on the server *)

\* The ownership check passes and the client is registered.  A connection
\* that closed meanwhile emitted "close" before the handler listened to it:
\* its registration stays and nothing comes of it any more.
Subscribe(c) ==
  /\ \/ conn[c].phase = "auth"    /\ conn' = [conn EXCEPT ![c] = At("subscribed")]
     \/ conn[c].phase = "aborted" /\ conn' = [conn EXCEPT ![c] = At("none")]
  /\ UNCHANGED <<row, unpublished, page, stream, fetch, command, unheard, faults>>

\* getBatch throws: an HTTP error, after which an EventSource never retries.
Refuse(c) ==
  /\ Fault
  /\ conn[c].phase \in {"auth", "aborted"}
  /\ conn' = [conn EXCEPT ![c] = At("none")]
  /\ \/ c = stream /\ stream' = Failed /\ unheard' = TRUE
     \/ c # stream /\ UNCHANGED <<stream, unheard>>
  /\ UNCHANGED <<row, unpublished, page, fetch, command>>

Cleanup(c) ==
  /\ conn[c].phase = "closing"
  /\ conn' = [conn EXCEPT ![c] = At("none")]
  /\ UNCHANGED <<row, unpublished, page, stream, fetch, command, unheard, faults>>

\* What the server is left with when the browser's end closes.
Closed(c) == At(IF conn[c].phase = "auth" THEN "aborted" ELSE "closing")

-----------------------------------------------------------------------------
(* The page *)

\* One GET at a time: a notification that arrives while one is in flight
\* adds nothing, even when the server has already read the row for it.
Refetch ==
  \/ fetch.pc = "idle"     /\ fetch' = Without("sent") /\ unheard' = FALSE
  \/ fetch.pc = "sent"     /\ UNCHANGED <<fetch, unheard>>
  \/ fetch.pc = "answered" /\ UNCHANGED fetch /\ unheard' = TRUE

\* The effect closes no stream once the batch is terminal.
BadShow(snap) ==
  /\ page' = snap
  /\ unheard' = (unheard \/ snap.rev < page.rev)
  /\ \/ snap.ended /\ stream' = NoStream /\ UNCHANGED conn
     \/ ~snap.ended /\ stream = NoStream
        /\ Unused # {} /\ stream' = Fresh /\ conn' = [conn EXCEPT ![Fresh] = At("auth")]
     \/ ~snap.ended /\ stream # NoStream /\ UNCHANGED <<stream, conn>>

\* setData, and the effect that keeps a stream exactly while not terminal.
Show(snap) ==
  /\ page' = snap
  /\ unheard' = (unheard \/ snap.rev < page.rev)
  /\ \/ snap.ended /\ stream # NoStream /\ stream' = NoStream
        /\ conn' = [c \in Conn |-> IF c = stream THEN Closed(c) ELSE conn[c]]
     \/ ~snap.ended /\ stream = NoStream
        /\ Unused # {} /\ stream' = Fresh /\ conn' = [conn EXCEPT ![Fresh] = At("auth")]
     \/ (snap.ended <=> stream = NoStream) /\ UNCHANGED <<stream, conn>>

\* Goes live without reconciling.
BadOpened ==
  /\ stream \in Conn /\ conn[stream].phase = "subscribed"
  /\ conn' = [conn EXCEPT ![stream].phase = "open"]
  /\ UNCHANGED <<row, unpublished, page, stream, fetch, command, unheard, faults>>

\* onopen: live, and reconcile.
Opened ==
  /\ stream \in Conn /\ conn[stream].phase = "subscribed"
  /\ conn' = [conn EXCEPT ![stream].phase = "open"]
  /\ Refetch
  /\ UNCHANGED <<row, unpublished, page, stream, command, faults>>

\* A notification that does not parse, every time.
BadUpdated ==
  /\ stream \in Conn /\ conn[stream].phase = "open" /\ conn[stream].news > 0
  /\ conn' = [conn EXCEPT ![stream].news = @ - 1]
  /\ UNCHANGED <<row, unpublished, page, stream, fetch, command, unheard, faults>>

Updated ==
  /\ stream \in Conn /\ conn[stream].phase = "open" /\ conn[stream].news > 0
  /\ conn' = [conn EXCEPT ![stream].news = @ - 1]
  /\ Refetch
  /\ UNCHANGED <<row, unpublished, page, stream, command, faults>>

\* The network drops the stream; the EventSource connects again.
Reconnect ==
  /\ Fault /\ stream \in Conn /\ Unused # {}
  /\ stream' = Fresh
  /\ conn' = [conn EXCEPT ![stream] = Closed(stream), ![Fresh] = At("auth")]
  /\ UNCHANGED <<row, unpublished, page, fetch, command, unheard>>

\* The user chooses Refresh.
Refresh ==
  /\ fetch.pc = "idle" /\ Refetch
  /\ UNCHANGED <<row, unpublished, conn, page, stream, command, faults>>

FetchServed ==
  /\ fetch.pc = "sent"
  /\ fetch' = [pc |-> "answered", snap |-> row]
  /\ UNCHANGED <<row, unpublished, conn, page, stream, command, unheard, faults>>

FetchShown ==
  /\ fetch.pc = "answered"
  /\ fetch' = Without("idle")
  /\ Show(fetch.snap)
  /\ UNCHANGED <<row, unpublished, command, faults>>

\* The error is shown and nothing is retried.
FetchFails ==
  /\ Fault /\ fetch.pc # "idle"
  /\ fetch' = Without("idle")
  /\ unheard' = TRUE
  /\ UNCHANGED <<row, unpublished, conn, page, stream, command>>

-----------------------------------------------------------------------------
(* The page's own cancel and retry-failed requests *)

\* BatchHeaderActions: a request leaves when its dialog is confirmed, whatever
\* the page has come to show since the dialog was opened and whatever request
\* is still out: `busy` is cleared by the first answer and asked by one button
\* only.  Bound: one request of each kind at a time.
Request(k) ==
  /\ command[k].pc = "idle"
  /\ command' = [command EXCEPT ![k] = Without("sent")]
  /\ UNCHANGED <<row, unpublished, conn, page, stream, fetch, unheard, faults>>

\* Cancelling ends an active batch, retrying reopens one that is not
\* cancelled; the request may also find nothing to do.
RequestCommits(k) ==
  /\ command[k].pc = "sent"
  /\ command' = [command EXCEPT ![k] = Without("done")]
  /\ \/ Changed /\ row'.ended = (k = "cancel") /\ (k = "cancel" => ~row.ended)
        /\ unpublished' = unpublished + 1
     \/ UNCHANGED <<row, unpublished>>
  /\ UNCHANGED <<conn, page, stream, fetch, unheard, faults>>

\* getById, after the notification was sent.
RequestReads(k) ==
  /\ command[k].pc = "done"
  /\ command' = [command EXCEPT ![k] = [pc |-> "answered", snap |-> row]]
  /\ UNCHANGED <<row, unpublished, conn, page, stream, fetch, unheard, faults>>

RequestShown(k) ==
  /\ command[k].pc = "answered"
  /\ command' = [command EXCEPT ![k] = Without("idle")]
  /\ Show(command[k].snap)
  /\ UNCHANGED <<row, unpublished, fetch, faults>>

\* The answer is lost, or it is an error: the page keeps what it shows.
RequestFails(k) ==
  /\ \/ Fault /\ command[k].pc # "idle"
     \/ k = "retry" /\ command[k].pc = "sent" /\ row.ended /\ UNCHANGED faults
  /\ command' = [command EXCEPT ![k] = Without("idle")]
  /\ UNCHANGED <<row, unpublished, conn, page, stream, fetch, unheard>>

-----------------------------------------------------------------------------

Connection(c) == Subscribe(c) \/ Refuse(c) \/ Cleanup(c)
Page == Opened \/ Updated \/ Reconnect \/ Refresh \/ FetchServed \/ FetchShown \/ FetchFails
Command(k) == Request(k) \/ RequestCommits(k) \/ RequestReads(k) \/ RequestShown(k) \/ RequestFails(k)

Next ==
  \/ Commit \/ QuietCommit \/ Publish \/ PublishLost
  \/ \E c \in Conn : Connection(c)
  \/ Page
  \/ \E k \in Button : Command(k)

Spec == Init /\ [][Next]_vars

\* Messages arrive, handlers return, callbacks run.  Nobody has to change the
\* batch, press a button, or lose a connection.
Fairness ==
  /\ WF_vars(Publish) /\ WF_vars(Opened \/ Updated) /\ WF_vars(FetchServed \/ FetchShown)
  /\ \A k \in Button : WF_vars(RequestCommits(k) \/ RequestReads(k) \/ RequestShown(k))
  /\ \A c \in Conn : WF_vars(Subscribe(c) \/ Cleanup(c))

FairSpec == Spec /\ Fairness

-----------------------------------------------------------------------------
(* Properties *)

\* live-updates.md 10 and 15: the page has one stream while it shows an
\* active batch and none once it shows a terminal one, across reconnects,
\* late responses and reopened batches.
OneStream ==
  /\ page.ended <=> stream = NoStream
  /\ \A c \in Conn : conn[c].phase \in Live => c = stream

\* When all notifications and the last GET have arrived, a page with an open
\* stream shows the current row, whatever its own requests are doing, unless a
\* change went unheard: one that is never published, a lost notification or
\* response, a notification coalesced into a GET that had already read the
\* row, or an old response shown over a newer one.
StaleHasCause ==
  /\ stream \in Conn /\ conn[stream] = At("open")
  /\ unpublished = 0 /\ fetch.pc = "idle"
  => page = row \/ unheard

\* live-updates.md 15: the end of a batch reaches the page, unless the batch
\* is reopened, the change went unheard as above, or the stream gave up.
EndShown == row.ended ~> page.ended \/ ~row.ended \/ unheard \/ stream = Failed

\* useBatchDetail.ts:14-15: "a missed event can never leave the page stale".
NeverStale == row.ended ~> page.ended \/ ~row.ended

\* routes/batches.ts:145: "deregister so we never leak client references".  A
\* client is only registered while its connection still has its close ahead.
NoLeakedClient == [][\A c \in Conn : Subscribe(c) => conn[c].phase # "aborted"]_vars
=============================================================================
