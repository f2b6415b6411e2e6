-------------------------- MODULE LiveUpdatesProofs --------------------------
(***************************************************************************)
(* The page of LiveUpdates has exactly one stream while its batch runs,    *)
(* and a change of the batch that the page does not show yet is on its way *)
(* to it, or was lost in one of the ways that `unheard' records.           *)
(***************************************************************************)
EXTENDS LiveUpdates, TLAPS

Snapshot == [rev : Nat, ended : BOOLEAN]
Phase    == {"none", "auth", "aborted", "subscribed", "open", "closing"}
Link     == [phase : Phase, news : Nat]
Get      == [pc : {"idle", "sent", "answered"}, snap : Snapshot]
Ask      == [pc : {"idle", "sent", "done", "answered"}, snap : Snapshot]

USE DEF Link, Get, Ask

LiveTypeOK ==
  /\ row \in Snapshot /\ page \in Snapshot
  /\ unpublished \in Nat /\ unheard \in BOOLEAN
  /\ conn \in [Conn -> Link]
  /\ stream \in Conn \cup {NoStream, Failed}
  /\ fetch \in Get
  /\ command \in [Button -> Ask]

\* A snapshot of the batch is old, or it is the row.
Seen(snap) == snap.rev <= row.rev /\ (snap.rev = row.rev => snap = row)

Snapshots ==
  /\ Seen(page)
  /\ fetch.pc = "answered" => Seen(fetch.snap)
  /\ \A k \in Button : command[k].pc = "answered" => Seen(command[k].snap)

\* The page's stream is the one connection with both ends alive.
StreamLives ==
  /\ OneStream
  /\ stream \in Conn => conn[stream].phase \in Live

\* Something under way will make the page fetch the row, or there is no stream
\* to tell it.
NewsOnTheWay ==
  \/ unpublished > 0
  \/ stream \notin Conn
  \/ stream \in Conn /\ (conn[stream].phase # "open" \/ conn[stream].news > 0)
  \/ fetch.pc = "sent"
  \/ fetch.pc = "answered" /\ fetch.snap = row

LiveInv ==
  /\ LiveTypeOK
  /\ Snapshots
  /\ StreamLives
  /\ page # row => unheard \/ NewsOnTheWay

\* Nothing hides a change: the page shows the row, or will hear of it.
Covered == page = row \/ unheard \/ NewsOnTheWay

LEMMA InitLive == Init => LiveInv
  <1>. SUFFICES ASSUME Init PROVE LiveInv
    OBVIOUS
  <1>1. row \in Snapshot /\ page = row /\ row.rev = 0
    BY DEF Init, Snapshot
  <1>2. fetch = Without("idle") /\ command = [k \in Button |-> Without("idle")]
        /\ unpublished = 0 /\ unheard = FALSE
    BY DEF Init
  <1>3. Without("idle").pc = "idle" /\ Without("idle").snap \in Snapshot
        /\ Without("idle") \in Get
        /\ Without("idle") \in Ask
    BY DEF Without, Snapshot
  <1>4. \A p \in Phase : At(p) \in Link /\ At(p).phase = p
    BY DEF At
  <1>5. /\ stream \in Conn \cup {NoStream} /\ (stream = NoStream <=> row.ended)
        /\ conn = [c \in Conn |-> At(IF c = stream THEN "auth" ELSE "none")]
    <2>1. CASE row.ended /\ stream = NoStream /\ conn = [c \in Conn |-> At("none")]
      BY <2>1, LiveUpdatesAssumption
    <2>2. CASE /\ ~row.ended /\ stream = (CHOOSE c \in Conn : TRUE)
               /\ conn = [c \in Conn |-> At(IF c = stream THEN "auth" ELSE "none")]
      BY <2>2, LiveUpdatesAssumption
    <2>. QED
      BY <2>1, <2>2 DEF Init
  <1>6. LiveTypeOK
    <2>1. \A c \in Conn : conn[c] \in Link
      BY <1>4, <1>5 DEF Phase
    <2>2. conn \in [Conn -> Link]
      BY <1>5, <2>1
    <2>. QED
      BY <1>1, <1>2, <1>3, <1>5, <2>2 DEF LiveTypeOK
  <1>7. Snapshots
    BY <1>1, <1>2, <1>3 DEF Snapshots, Seen, Snapshot
  <1>8. StreamLives
    <2>1. \A c \in Conn : conn[c].phase = IF c = stream THEN "auth" ELSE "none"
      BY <1>4, <1>5 DEF Phase
    <2>. QED
      BY <1>1, <1>5, <2>1 DEF StreamLives, OneStream, Live
  <1>. QED
    BY <1>1, <1>6, <1>7, <1>8 DEF LiveInv

\* Whatever was seen of the row is older than the row after a change.
LEMMA RowSeen ==
  ASSUME NEW snap \in Snapshot, Seen(snap), row \in Snapshot, Changed
  PROVE  row' \in Snapshot /\ snap.rev < row'.rev
  BY DEF Seen, Changed, Snapshot

\* The row moves on: what the page, the GET and the requests saw gets older.
LEMMA ChangedKeeps ==
  ASSUME LiveInv, Changed, UNCHANGED <<conn, page, stream, fetch>>,
         unpublished' \in Nat, unheard' \in BOOLEAN,
         command' \in [Button -> Ask],
         \A k \in Button : command'[k].pc = "answered" =>
                             command[k].pc = "answered" /\ command'[k].snap = command[k].snap,
         unheard' \/ unpublished' > 0
  PROVE  LiveInv'
  <1>1. LiveTypeOK /\ Snapshots /\ StreamLives
    BY DEF LiveInv
  <1>2. row' \in Snapshot /\ \A snap \in Snapshot : Seen(snap) => Seen(snap)'
    BY <1>1, RowSeen DEF LiveTypeOK, Seen, Snapshot
  <1>3. LiveTypeOK'
    BY <1>1, <1>2 DEF LiveTypeOK
  <1>4. Snapshots'
    <2>1. Seen(page)'
      BY <1>1, <1>2 DEF Snapshots, LiveTypeOK, Seen
    <2>2. (fetch.pc = "answered" => Seen(fetch.snap))'
      BY <1>1, <1>2 DEF Snapshots, LiveTypeOK, Seen
    <2>3. ASSUME NEW k \in Button, command'[k].pc = "answered" PROVE Seen(command[k].snap)'
      <3>1. command[k].snap \in Snapshot /\ command'[k].snap = command[k].snap /\ Seen(command[k].snap)
        BY <1>1, <2>3 DEF Snapshots, LiveTypeOK
      <3>. QED
        BY <1>2, <3>1 DEF Seen
    <2>. QED
      BY <2>1, <2>2, <2>3 DEF Snapshots
  <1>5. StreamLives'
    BY <1>1 DEF StreamLives, OneStream
  <1>. QED
    BY <1>3, <1>4, <1>5 DEF LiveInv, NewsOnTheWay

LEMMA CommitStep == ASSUME LiveInv, Commit \/ QuietCommit PROVE LiveInv'
  <1>1. Changed /\ UNCHANGED <<conn, page, stream, fetch, command>>
    BY DEF Commit, QuietCommit
  <1>2. unpublished' \in Nat /\ unheard' \in BOOLEAN /\ (unheard' \/ unpublished' > 0)
    <2>1. unpublished \in Nat /\ unheard \in BOOLEAN
      BY DEF LiveInv, LiveTypeOK
    <2>2. CASE Commit
      BY <2>1, <2>2 DEF Commit
    <2>3. CASE QuietCommit
      BY <2>1, <2>3 DEF QuietCommit
    <2>. QED
      BY <2>2, <2>3
  <1>3. command' \in [Button -> Ask]
    BY <1>1 DEF LiveInv, LiveTypeOK
  <1>. QED
    BY <1>1, <1>2, <1>3, ChangedKeeps

\* Nothing the page holds changes, and no news is lost.
LEMMA ConnKeeps ==
  ASSUME LiveInv, UNCHANGED <<row, page, fetch, command, stream>>,
         unpublished' \in Nat, unheard' \in BOOLEAN, unheard => unheard',
         conn' \in [Conn -> Link],
         \A c \in Conn : conn'[c].phase \in Live => conn[c].phase \in Live,
         stream \in Conn => conn'[stream].phase \in Live,
         \/ unheard' \/ NewsOnTheWay'
         \/ unpublished' = unpublished /\ (stream \in Conn => conn'[stream] = conn[stream])
  PROVE  LiveInv'
  <1>1. LiveTypeOK /\ Snapshots /\ StreamLives /\ Covered
    BY DEF LiveInv, Covered
  <1>2. LiveTypeOK'
    BY <1>1 DEF LiveTypeOK
  <1>3. Snapshots'
    BY <1>1 DEF Snapshots, Seen
  <1>4. StreamLives'
    BY <1>1 DEF StreamLives, OneStream
  <1>5. Covered'
    BY <1>1 DEF Covered, NewsOnTheWay
  <1>. QED
    BY <1>2, <1>3, <1>4, <1>5 DEF LiveInv, Covered

LEMMA PublishStep == ASSUME LiveInv, Publish PROVE LiveInv'
  <1>1. LiveTypeOK /\ StreamLives
    BY DEF LiveInv
  <1>2. /\ UNCHANGED <<row, page, fetch, command, stream, unheard>> /\ unpublished' \in Nat
        /\ conn' = [c \in Conn |-> IF conn[c].phase \in {"subscribed", "open"}
                                   THEN [conn[c] EXCEPT !.news = @ + 1] ELSE conn[c]]
    BY <1>1 DEF Publish, LiveTypeOK
  <1>3. ASSUME NEW c \in Conn
        PROVE  /\ conn'[c] \in Link /\ conn'[c].phase = conn[c].phase
               /\ conn[c].phase \in {"subscribed", "open"} => conn'[c].news > 0
    BY <1>1, <1>2 DEF LiveTypeOK
  <1>4. conn' \in [Conn -> Link]
    BY <1>2, <1>3
  <1>5. stream \in Conn =>
          conn'[stream].phase \in Live /\ (conn'[stream].phase # "open" \/ conn'[stream].news > 0)
    BY <1>1, <1>3 DEF StreamLives
  <1>6. NewsOnTheWay'
    BY <1>2, <1>5 DEF NewsOnTheWay
  <1>. QED
    BY <1>1, <1>2, <1>3, <1>4, <1>5, <1>6, ConnKeeps DEF LiveTypeOK

LEMMA PublishLostStep == ASSUME LiveInv, PublishLost PROVE LiveInv'
  <1>1. LiveTypeOK /\ StreamLives
    BY DEF LiveInv
  <1>2. UNCHANGED <<row, page, fetch, command, stream, conn>> /\ unpublished' \in Nat /\ unheard' = TRUE
    BY <1>1 DEF PublishLost, LiveTypeOK
  <1>. QED
    BY <1>1, <1>2, ConnKeeps DEF LiveTypeOK, StreamLives

LEMMA AtFields ==
  ASSUME NEW p \in Phase
  PROVE  At(p) \in Link /\ At(p).phase = p /\ At(p).news = 0
  BY DEF At

LEMMA SubscribeStep == ASSUME LiveInv, NEW c \in Conn, Subscribe(c) PROVE LiveInv'
  <1>1. LiveTypeOK /\ StreamLives
    BY DEF LiveInv
  <1>2. UNCHANGED <<row, page, fetch, command, stream, unpublished, unheard>>
    BY DEF Subscribe
  <1>3. CASE conn[c].phase = "auth" /\ conn' = [conn EXCEPT ![c] = At("subscribed")]
    <2>1. /\ conn' \in [Conn -> Link]
          /\ conn'[c].phase = "subscribed" /\ \A d \in Conn \ {c} : conn'[d] = conn[d]
      BY <1>1, <1>3, AtFields DEF LiveTypeOK, Phase
    <2>2. c = stream
      BY <1>1, <1>3 DEF StreamLives, OneStream, Live
    <2>3. NewsOnTheWay'
      BY <1>2, <2>1, <2>2 DEF NewsOnTheWay
    <2>. QED
      BY <1>1, <1>2, <1>3, <2>1, <2>2, <2>3, ConnKeeps DEF LiveTypeOK, Live
  <1>4. CASE conn[c].phase = "aborted" /\ conn' = [conn EXCEPT ![c] = At("none")]
    <2>1. /\ conn' \in [Conn -> Link]
          /\ conn'[c].phase = "none" /\ \A d \in Conn \ {c} : conn'[d] = conn[d]
      BY <1>1, <1>4, AtFields DEF LiveTypeOK, Phase
    <2>2. c # stream
      BY <1>1, <1>4 DEF StreamLives, Live
    <2>. QED
      BY <1>1, <1>2, <2>1, <2>2, ConnKeeps DEF LiveTypeOK, Live, StreamLives
  <1>. QED
    BY <1>3, <1>4 DEF Subscribe

LEMMA CleanupStep == ASSUME LiveInv, NEW c \in Conn, Cleanup(c) PROVE LiveInv'
  <1>1. LiveTypeOK /\ StreamLives
    BY DEF LiveInv
  <1>2. /\ UNCHANGED <<row, page, fetch, command, stream, unpublished, unheard>>
        /\ conn[c].phase = "closing" /\ conn' = [conn EXCEPT ![c] = At("none")]
    BY DEF Cleanup
  <1>3. /\ conn' \in [Conn -> Link]
        /\ conn'[c].phase = "none" /\ \A d \in Conn \ {c} : conn'[d] = conn[d]
    BY <1>1, <1>2, AtFields DEF LiveTypeOK, Phase
  <1>4. c # stream
    BY <1>1, <1>2 DEF StreamLives, Live
  <1>. QED
    BY <1>1, <1>2, <1>3, <1>4, ConnKeeps DEF LiveTypeOK, Live, StreamLives

\* Refusing the page's own connection leaves it with a stream that gave up.
LEMMA RefuseStep == ASSUME LiveInv, NEW c \in Conn, Refuse(c) PROVE LiveInv'
  <1>1. LiveTypeOK /\ Snapshots /\ StreamLives /\ Covered
    BY DEF LiveInv, Covered
  <1>2. /\ UNCHANGED <<row, page, fetch, command, unpublished>>
        /\ conn[c].phase \in {"auth", "aborted"} /\ conn' = [conn EXCEPT ![c] = At("none")]
    BY DEF Refuse
  <1>3. /\ conn' \in [Conn -> Link]
        /\ conn'[c].phase = "none" /\ \A d \in Conn \ {c} : conn'[d] = conn[d]
    BY <1>1, <1>2, AtFields DEF LiveTypeOK, Phase
  <1>4. CASE c = stream /\ stream' = Failed /\ unheard' = TRUE
    <2>1. LiveTypeOK'
      BY <1>1, <1>2, <1>3, <1>4 DEF LiveTypeOK
    <2>2. Snapshots'
      BY <1>1, <1>2 DEF Snapshots, Seen
    <2>3. StreamLives'
      BY <1>1, <1>2, <1>3, <1>4, LiveUpdatesAssumption DEF StreamLives, OneStream, Live
    <2>. QED
      BY <1>4, <2>1, <2>2, <2>3 DEF LiveInv
  <1>5. CASE c # stream /\ UNCHANGED <<stream, unheard>>
    BY <1>1, <1>2, <1>3, <1>5, ConnKeeps DEF LiveTypeOK, Live, StreamLives
  <1>. QED
    BY <1>4, <1>5 DEF Refuse

-----------------------------------------------------------------------------
(* The page *)

\* What the page's GET looks like after a notification or an opening.
LEMMA RefetchCovers ==
  ASSUME LiveTypeOK, Refetch
  PROVE  /\ fetch' \in Get
         /\ unheard' \in BOOLEAN
         /\ fetch'.pc = "answered" => fetch' = fetch
         /\ unheard' \/ fetch'.pc = "sent"
  <1>1. Without("sent") \in Get /\ Without("sent").pc = "sent"
    BY DEF Without, Snapshot
  <1>2. CASE fetch.pc = "idle" /\ fetch' = Without("sent") /\ unheard' = FALSE
    BY <1>1, <1>2
  <1>3. CASE fetch.pc = "sent" /\ UNCHANGED <<fetch, unheard>>
    BY <1>3 DEF LiveTypeOK
  <1>4. CASE fetch.pc = "answered" /\ UNCHANGED fetch /\ unheard' = TRUE
    BY <1>4 DEF LiveTypeOK
  <1>. QED
    BY <1>2, <1>3, <1>4 DEF Refetch

\* A step that sends the GET keeps the rest.
LEMMA RefetchKeeps ==
  ASSUME LiveInv, Refetch, UNCHANGED <<row, unpublished, page, stream, command>>,
         conn' \in [Conn -> Link],
         \A c \in Conn : conn'[c].phase \in Live <=> conn[c].phase \in Live
  PROVE  LiveInv'
  <1>1. LiveTypeOK /\ Snapshots /\ StreamLives
    BY DEF LiveInv
  <1>2. /\ fetch' \in Get /\ unheard' \in BOOLEAN
        /\ fetch'.pc = "answered" => fetch' = fetch
        /\ unheard' \/ fetch'.pc = "sent"
    BY <1>1, RefetchCovers
  <1>3. LiveTypeOK'
    BY <1>1, <1>2 DEF LiveTypeOK
  <1>4. Snapshots'
    BY <1>1, <1>2 DEF Snapshots, Seen
  <1>5. StreamLives'
    BY <1>1 DEF StreamLives, OneStream, LiveTypeOK
  <1>. QED
    BY <1>2, <1>3, <1>4, <1>5 DEF LiveInv, NewsOnTheWay

LEMMA StreamEventStep == ASSUME LiveInv, Opened \/ Updated \/ Refresh PROVE LiveInv'
  <1>1. LiveTypeOK
    BY DEF LiveInv
  <1>2. CASE Opened
    <2>1. conn' = [conn EXCEPT ![stream].phase = "open"] /\ stream \in Conn /\ conn[stream].phase = "subscribed"
      BY <1>2 DEF Opened
    <2>2. conn'[stream].phase = "open" /\ conn'[stream].news = conn[stream].news
          /\ \A c \in Conn \ {stream} : conn'[c] = conn[c]
      BY <1>1, <2>1 DEF LiveTypeOK
    <2>3. conn' \in [Conn -> Link]
      BY <1>1, <2>1 DEF LiveTypeOK, Phase
    <2>. QED
      BY <1>2, <2>1, <2>2, <2>3, RefetchKeeps DEF Opened, Live
  <1>3. CASE Updated
    <2>1. /\ conn' = [conn EXCEPT ![stream].news = @ - 1] /\ stream \in Conn /\ conn[stream].news > 0
      BY <1>3 DEF Updated
    <2>2. conn'[stream].phase = conn[stream].phase /\ \A c \in Conn \ {stream} : conn'[c] = conn[c]
      BY <1>1, <2>1 DEF LiveTypeOK
    <2>3. conn' \in [Conn -> Link]
      BY <1>1, <2>1 DEF LiveTypeOK
    <2>. QED
      BY <1>3, <2>1, <2>2, <2>3, RefetchKeeps DEF Updated
  <1>4. CASE Refresh
    BY <1>1, <1>4, RefetchKeeps DEF Refresh, LiveTypeOK
  <1>. QED
    BY <1>2, <1>3, <1>4

LEMMA FreshIsUnused == ASSUME Unused # {} PROVE Fresh \in Conn /\ conn[Fresh].phase = "none"
  BY DEF Fresh, Unused

LEMMA ClosedFields ==
  ASSUME NEW c \in Conn
  PROVE  Closed(c) \in Link /\ Closed(c).phase \notin Live
  BY DEF Closed, At, Phase, Live

LEMMA ReconnectStep == ASSUME LiveInv, Reconnect PROVE LiveInv'
  <1>1. LiveTypeOK /\ Snapshots /\ StreamLives
    BY DEF LiveInv
  <1>2. /\ stream \in Conn /\ Unused # {} /\ stream' = Fresh
        /\ conn' = [conn EXCEPT ![stream] = Closed(stream), ![Fresh] = At("auth")]
        /\ UNCHANGED <<row, unpublished, page, fetch, command, unheard>>
    BY DEF Reconnect
  <1>3. Fresh \in Conn /\ conn[Fresh].phase = "none" /\ Fresh # stream
    BY <1>1, <1>2, FreshIsUnused DEF StreamLives, Live
  <1>4. PICK f \in Conn : f = Fresh
    BY <1>3
  <1>5. PICK p, q \in Link :
          p = Closed(stream) /\ p.phase \notin Live /\ q = At("auth") /\ q.phase = "auth"
    BY <1>2, ClosedFields, AtFields DEF Phase
  <1>6. conn' = [conn EXCEPT ![stream] = p, ![f] = q] /\ f # stream /\ stream' = f
    BY <1>2, <1>3, <1>4, <1>5
  <1>7. /\ conn' \in [Conn -> Link]
        /\ conn'[stream] = p /\ conn'[f] = q /\ \A c \in Conn \ {stream, f} : conn'[c] = conn[c]
    BY <1>1, <1>2, <1>6 DEF LiveTypeOK
  <1>8. LiveTypeOK'
    BY <1>1, <1>2, <1>6, <1>7 DEF LiveTypeOK
  <1>9. Snapshots'
    BY <1>1, <1>2 DEF Snapshots, Seen
  <1>10. StreamLives'
    BY <1>1, <1>2, <1>5, <1>6, <1>7, LiveUpdatesAssumption DEF StreamLives, OneStream, Live
  <1>11. NewsOnTheWay'
    BY <1>5, <1>6, <1>7 DEF NewsOnTheWay
  <1>. QED
    BY <1>8, <1>9, <1>10, <1>11 DEF LiveInv

LEMMA FetchServedStep == ASSUME LiveInv, FetchServed PROVE LiveInv'
  <1>1. LiveTypeOK /\ Snapshots /\ StreamLives /\ Covered
    BY DEF LiveInv, Covered
  <1>2. /\ fetch' = [pc |-> "answered", snap |-> row]
        /\ UNCHANGED <<row, unpublished, conn, page, stream, command, unheard>>
    BY DEF FetchServed
  <1>3. LiveTypeOK'
    BY <1>1, <1>2 DEF LiveTypeOK
  <1>4. Snapshots'
    BY <1>1, <1>2 DEF Snapshots, Seen, LiveTypeOK, Snapshot
  <1>5. StreamLives'
    BY <1>1, <1>2 DEF StreamLives, OneStream
  <1>6. NewsOnTheWay'
    BY <1>2 DEF NewsOnTheWay
  <1>. QED
    BY <1>3, <1>4, <1>5, <1>6 DEF LiveInv

\* Showing a snapshot opens, keeps or closes the stream as the snapshot asks.
LEMMA ShowFields ==
  ASSUME LiveTypeOK, StreamLives, NEW snap \in Snapshot, Show(snap)
  PROVE  /\ page' = snap /\ unheard' = (unheard \/ snap.rev < page.rev)
         /\ conn' \in [Conn -> Link]
         /\ stream' \in Conn \cup {NoStream, Failed}
         /\ StreamLives'
         /\ \/ UNCHANGED <<stream, conn>>
            \/ stream' \notin Conn
            \/ stream' \in Conn /\ conn'[stream'].phase # "open"
  <1>1. page' = snap /\ unheard' = (unheard \/ snap.rev < page.rev)
    BY DEF Show
  <1>2. CASE /\ snap.ended /\ stream # NoStream /\ stream' = NoStream
             /\ conn' = [c \in Conn |-> IF c = stream THEN Closed(c) ELSE conn[c]]
    <2>1. /\ conn' \in [Conn -> Link]
          /\ \A c \in Conn : conn'[c].phase \in Live => c # stream /\ conn[c].phase \in Live
      BY <1>2, ClosedFields DEF LiveTypeOK
    <2>2. StreamLives'
      BY <1>1, <1>2, <2>1, LiveUpdatesAssumption DEF StreamLives, OneStream
    <2>. QED
      BY <1>1, <1>2, <2>1, <2>2, LiveUpdatesAssumption
  <1>3. CASE /\ ~snap.ended /\ stream = NoStream
             /\ Unused # {} /\ stream' = Fresh /\ conn' = [conn EXCEPT ![Fresh] = At("auth")]
    <2>1. PICK f \in Conn : f = Fresh
      BY <1>3, FreshIsUnused
    <2>2. PICK q \in Link : q = At("auth") /\ q.phase = "auth"
      BY AtFields DEF Phase
    <2>3. conn' = [conn EXCEPT ![f] = q] /\ stream' = f
      BY <1>3, <2>1, <2>2
    <2>4. /\ conn' \in [Conn -> Link]
          /\ conn'[f].phase = "auth" /\ \A c \in Conn \ {f} : conn'[c] = conn[c]
      BY <2>2, <2>3 DEF LiveTypeOK
    <2>5. StreamLives'
      BY <1>1, <1>3, <2>3, <2>4, LiveUpdatesAssumption DEF StreamLives, OneStream, Live
    <2>. QED
      BY <1>1, <2>3, <2>4, <2>5
  <1>4. CASE (snap.ended <=> stream = NoStream) /\ UNCHANGED <<stream, conn>>
    <2>1. StreamLives'
      BY <1>1, <1>4 DEF StreamLives, OneStream
    <2>. QED
      BY <1>1, <1>4, <2>1 DEF LiveTypeOK
  <1>. QED
    BY <1>2, <1>3, <1>4 DEF Show

\* An answer shown over the page: the current row, or the news of the row is
\* still to come, or an older snapshot has replaced it.
LEMMA ShowKeeps ==
  ASSUME LiveInv, NEW snap \in Snapshot, Seen(snap), Show(snap), UNCHANGED <<row, unpublished>>,
         fetch' \in Get,
         fetch' = fetch \/ (fetch'.pc = "idle" /\ fetch = [pc |-> "answered", snap |-> snap]),
         command' \in [Button -> Ask],
         \A k \in Button : command'[k].pc = "answered" => command'[k] = command[k]
  PROVE  LiveInv'
  <1>1. LiveTypeOK /\ Snapshots /\ StreamLives /\ Covered
    BY DEF LiveInv, Covered
  <1>2. /\ page' = snap /\ unheard' = (unheard \/ snap.rev < page.rev)
        /\ conn' \in [Conn -> Link]
        /\ stream' \in Conn \cup {NoStream, Failed} /\ StreamLives'
        /\ \/ UNCHANGED <<stream, conn>>
           \/ stream' \notin Conn
           \/ stream' \in Conn /\ conn'[stream'].phase # "open"
    BY <1>1, ShowFields
  <1>3. LiveTypeOK'
    <2>1. unheard' \in BOOLEAN
      BY <1>2
    <2>. QED
      BY <1>1, <1>2, <2>1 DEF LiveTypeOK
  <1>4. Snapshots'
    <2>1. Seen(page)'
      BY <1>2 DEF Seen
    <2>2. (fetch.pc = "answered" => Seen(fetch.snap))'
      BY <1>1 DEF Snapshots, Seen
    <2>3. \A k \in Button : (command[k].pc = "answered" => Seen(command[k].snap))'
      BY <1>1 DEF Snapshots, Seen
    <2>. QED
      BY <2>1, <2>2, <2>3 DEF Snapshots
  <1>5. ASSUME snap # row PROVE unheard' \/ NewsOnTheWay'
    <2>1. CASE page = row
      <3>1. snap.rev < page.rev
        <4>1. snap.rev \in Nat /\ row.rev \in Nat
          BY <1>1 DEF Snapshot, LiveTypeOK
        <4>2. snap.rev <= row.rev /\ snap.rev # row.rev
          BY <1>5 DEF Seen
        <4>. QED
          BY <2>1, <4>1, <4>2
      <3>. QED
        BY <1>2, <3>1
    <2>2. CASE unheard
      BY <1>2, <2>2
    <2>3. CASE NewsOnTheWay
      BY <1>2, <1>5, <2>3 DEF NewsOnTheWay
    <2>. QED
      BY <1>1, <2>1, <2>2, <2>3 DEF Covered
  <1>. QED
    BY <1>2, <1>3, <1>4, <1>5 DEF LiveInv

LEMMA WithoutFields ==
  ASSUME NEW pc \in {"idle", "sent", "done"}
  PROVE  /\ Without(pc) \in Ask
         /\ pc # "done" => Without(pc) \in Get
         /\ Without(pc).pc = pc
  BY DEF Without, Snapshot

LEMMA FetchShownStep == ASSUME LiveInv, FetchShown PROVE LiveInv'
  <1>1. /\ fetch.pc = "answered" /\ fetch' = Without("idle") /\ Show(fetch.snap)
        /\ UNCHANGED <<row, unpublished, command>>
    BY DEF FetchShown
  <1>2. PICK snap \in Snapshot : snap = fetch.snap /\ fetch = [pc |-> "answered", snap |-> snap] /\ Seen(snap)
    BY <1>1 DEF LiveInv, LiveTypeOK, Snapshots
  <1>3. /\ fetch' \in Get /\ fetch'.pc = "idle"
        /\ command' \in [Button -> Ask]
    BY <1>1, WithoutFields DEF LiveInv, LiveTypeOK
  <1>. QED
    BY <1>1, <1>2, <1>3, ShowKeeps

LEMMA FetchFailsStep == ASSUME LiveInv, FetchFails PROVE LiveInv'
  <1>1. LiveTypeOK /\ Snapshots /\ StreamLives
    BY DEF LiveInv
  <1>2. /\ fetch' = Without("idle") /\ unheard' = TRUE
        /\ UNCHANGED <<row, unpublished, conn, page, stream, command>>
    BY DEF FetchFails
  <1>3. fetch' \in Get /\ fetch'.pc = "idle"
    BY <1>2, WithoutFields
  <1>4. LiveTypeOK'
    BY <1>1, <1>2, <1>3 DEF LiveTypeOK
  <1>5. Snapshots'
    BY <1>1, <1>2, <1>3 DEF Snapshots, Seen
  <1>6. StreamLives'
    BY <1>1, <1>2 DEF StreamLives, OneStream
  <1>. QED
    BY <1>2, <1>4, <1>5, <1>6 DEF LiveInv

-----------------------------------------------------------------------------
(* The page's own requests *)

LEMMA RequestAnswered ==
  ASSUME LiveInv, NEW k \in Button, command[k].pc = "answered"
  PROVE  command[k].snap \in Snapshot /\ Seen(command[k].snap)
  BY DEF LiveInv, LiveTypeOK, Snapshots

\* A request that changes nothing of the batch and of the page.
LEMMA CommandKeeps ==
  ASSUME LiveInv, UNCHANGED <<row, unpublished, conn, page, stream, fetch, unheard>>, NEW k \in Button,
         NEW p \in Ask,
         command' = [command EXCEPT ![k] = p], p.pc = "answered" => Seen(p.snap)
  PROVE  LiveInv'
  <1>1. LiveTypeOK /\ Snapshots /\ StreamLives /\ Covered
    BY DEF LiveInv, Covered
  <1>2. LiveTypeOK'
    BY <1>1 DEF LiveTypeOK
  <1>3. Snapshots'
    <2>1. ASSUME NEW j \in Button, command'[j].pc = "answered" PROVE Seen(command'[j].snap)
      BY <1>1, <2>1 DEF Snapshots, LiveTypeOK
    <2>. QED
      BY <1>1, <2>1 DEF Snapshots, Seen
  <1>4. StreamLives'
    BY <1>1 DEF StreamLives, OneStream
  <1>5. Covered'
    BY <1>1 DEF Covered, NewsOnTheWay
  <1>. QED
    BY <1>2, <1>3, <1>4, <1>5 DEF LiveInv, Covered

LEMMA RequestStep == ASSUME LiveInv, NEW k \in Button, Request(k) \/ RequestFails(k) PROVE LiveInv'
  <1>1. PICK pc \in {"idle", "sent"} : command' = [command EXCEPT ![k] = Without(pc)]
    BY DEF Request, RequestFails
  <1>2. UNCHANGED <<row, unpublished, conn, page, stream, fetch, unheard>>
    BY DEF Request, RequestFails
  <1>3. PICK p \in Ask :
          p = Without(pc) /\ p.pc # "answered"
    BY WithoutFields
  <1>. QED
    BY <1>1, <1>2, <1>3, CommandKeeps

LEMMA RequestCommitsStep == ASSUME LiveInv, NEW k \in Button, RequestCommits(k) PROVE LiveInv'
  <1>1. PICK p \in Ask :
          p = Without("done") /\ p.pc = "done"
    BY WithoutFields
  <1>2. /\ command' = [command EXCEPT ![k] = p]
        /\ UNCHANGED <<conn, page, stream, fetch, unheard>>
    BY <1>1 DEF RequestCommits
  <1>3. CASE Changed /\ unpublished' = unpublished + 1
    <2>1. command' \in [Button -> Ask]
      BY <1>2 DEF LiveInv, LiveTypeOK
    <2>2. \A j \in Button : command'[j].pc = "answered" =>
                              command[j].pc = "answered" /\ command'[j].snap = command[j].snap
      BY <1>1, <1>2 DEF LiveInv, LiveTypeOK
    <2>3. unpublished' \in Nat /\ unpublished' > 0
      BY <1>3 DEF LiveInv, LiveTypeOK
    <2>4. unheard' \in BOOLEAN
      BY <1>2 DEF LiveInv, LiveTypeOK
    <2>. QED
      BY <1>2, <1>3, <2>1, <2>2, <2>3, <2>4, ChangedKeeps
  <1>4. CASE UNCHANGED <<row, unpublished>>
    BY <1>1, <1>2, <1>4, CommandKeeps
  <1>. QED
    BY <1>3, <1>4 DEF RequestCommits

LEMMA RequestReadsStep == ASSUME LiveInv, NEW k \in Button, RequestReads(k) PROVE LiveInv'
  <1>1. row \in Snapshot
    BY DEF LiveInv, LiveTypeOK
  <1>2. PICK p \in Ask :
          p = [pc |-> "answered", snap |-> row] /\ p.snap = row
    <2>1. [pc |-> "answered", snap |-> row] \in Ask
      BY <1>1
    <2>. QED
      BY <2>1
  <1>3. command' = [command EXCEPT ![k] = p] /\ UNCHANGED <<row, unpublished, conn, page, stream, fetch, unheard>>
    BY <1>2 DEF RequestReads
  <1>4. Seen(p.snap)
    BY <1>1, <1>2 DEF Seen, Snapshot
  <1>. QED
    BY <1>3, <1>4, CommandKeeps

LEMMA RequestShownStep == ASSUME LiveInv, NEW k \in Button, RequestShown(k) PROVE LiveInv'
  <1>1. /\ command[k].pc = "answered" /\ command' = [command EXCEPT ![k] = Without("idle")]
        /\ Show(command[k].snap) /\ UNCHANGED <<row, unpublished, fetch>>
    BY DEF RequestShown
  <1>2. PICK snap \in Snapshot : snap = command[k].snap /\ Seen(snap)
    BY <1>1, RequestAnswered
  <1>3. PICK p \in Ask :
          p = Without("idle") /\ p.pc = "idle"
    BY WithoutFields
  <1>4. /\ command' \in [Button -> Ask]
        /\ \A j \in Button : command'[j].pc = "answered" => command'[j] = command[j]
    BY <1>1, <1>3 DEF LiveInv, LiveTypeOK
  <1>5. fetch' \in Get
    BY <1>1 DEF LiveInv, LiveTypeOK
  <1>. QED
    BY <1>1, <1>2, <1>4, <1>5, ShowKeeps

-----------------------------------------------------------------------------
(* The theorems *)

LEMMA StepKeepsLiveInv == LiveInv /\ [Next]_vars => LiveInv'
  <1>. SUFFICES ASSUME LiveInv, [Next]_vars PROVE LiveInv'
    OBVIOUS
  <1>1. CASE UNCHANGED vars
    BY <1>1 DEF vars, LiveInv, LiveTypeOK, Snapshots, Seen, StreamLives, OneStream, NewsOnTheWay
  <1>2. CASE Commit \/ QuietCommit \/ Publish \/ PublishLost
    BY <1>2, CommitStep, PublishStep, PublishLostStep
  <1>3. CASE \E c \in Conn : Connection(c)
    BY <1>3, SubscribeStep, RefuseStep, CleanupStep DEF Connection
  <1>4. CASE Page
    BY <1>4, StreamEventStep, ReconnectStep, FetchServedStep, FetchShownStep, FetchFailsStep DEF Page
  <1>5. CASE \E k \in Button : Command(k)
    BY <1>5, RequestStep, RequestCommitsStep, RequestReadsStep, RequestShownStep DEF Command
  <1>. QED
    BY <1>1, <1>2, <1>3, <1>4, <1>5 DEF Next

\* The bookkeeping of the page, its stream and the news on their way.
THEOREM LiveBookkeeping == Spec => []LiveInv
  BY InitLive, StepKeepsLiveInv, PTL DEF Spec

\* The page has a stream exactly while it shows an active batch, and never
\* two, in whatever order answers, reconnections and reopenings come.
THEOREM PageKeepsOneStream == Spec => []OneStream
  <1>1. LiveInv => OneStream
    BY DEF LiveInv, StreamLives
  <1>. QED
    BY <1>1, LiveBookkeeping, PTL

\* A page whose notifications and GET have all arrived is stale only when a
\* change went unheard in one of the listed ways.
THEOREM StalePageHasCause == Spec => []StaleHasCause
  <1>1. LiveInv => StaleHasCause
    BY DEF LiveInv, StaleHasCause, NewsOnTheWay, LiveTypeOK, At
  <1>. QED
    BY <1>1, LiveBookkeeping, PTL
=============================================================================
