-------------------------- MODULE ListCacheProofs ---------------------------
(***************************************************************************)
(* The lists of batches.  The cached one: IndInv is an inductive invariant *)
(* of ListCache for any readers, writers and number of commits; freshness  *)
(* of cache and responses follows.  And what a browser shows of it: one    *)
(* batch per list submitted, and no rows of another page.                  *)
(***************************************************************************)
EXTENDS ListCache, Pages, FiniteSetTheorems, TLAPS

USE ListCacheAssumption

LEMMA InitIndInv == Init => IndInv
  BY DEF Init, Idle, IndInv, TypeOK, CacheFresh

\* Writers: a commit changes no entitlement; an invalidation starts a version
\* that no page and no reader has yet.
LEMMA WriteStep ==
  ASSUME IndInv, NEW w \in Writer, Write(w)
  PROVE  IndInv'
  <1>1. CASE Commit(w)
    BY <1>1 DEF Commit, IndInv, TypeOK, CacheFresh
  <1>2. CASE Invalidate(w)
    BY <1>2 DEF Invalidate, IndInv, TypeOK, CacheFresh
  <1>3. CASE InvalidateLost(w)
    BY <1>3 DEF InvalidateLost, IndInv, TypeOK, CacheFresh
  <1>. QED
    BY <1>1, <1>2, <1>3 DEF Write

LEMMA ExpireStep ==
  ASSUME IndInv, NEW p \in pages, Expire(p)
  PROVE  IndInv'
  BY DEF Expire, IndInv, TypeOK, CacheFresh

LEMMA ReadStep ==
  ASSUME IndInv, NEW r \in Reader, Read(r)
  PROVE  IndInv'
  <1>1. CASE ReadVersion(r)
    BY <1>1 DEF ReadVersion, Goto, IndInv, TypeOK, CacheFresh
  <1>2. CASE RedisDown(r)
    BY <1>2 DEF RedisDown, Goto, IndInv, TypeOK, CacheFresh
  <1>3. CASE Hit(r)
    BY <1>3 DEF Hit, Goto, IndInv, TypeOK, CacheFresh
  <1>4. CASE Miss(r)
    BY <1>4 DEF Miss, Goto, IndInv, TypeOK, CacheFresh
  <1>5. CASE Query(r)
    BY <1>5 DEF Query, Goto, IndInv, TypeOK, CacheFresh
  <1>6. CASE Fill(r)
    BY <1>6 DEF Fill, StoreUnder, Goto, IndInv, TypeOK, CacheFresh
  <1>7. CASE Respond(r)
    BY <1>7 DEF Respond, Idle, IndInv, TypeOK, CacheFresh
  <1>. QED
    BY <1>1, <1>2, <1>3, <1>4, <1>5, <1>6, <1>7 DEF Read

LEMMA StepKeepsIndInv == IndInv /\ [Next]_vars => IndInv'
  <1>. SUFFICES ASSUME IndInv, [Next]_vars PROVE IndInv'
    OBVIOUS
  <1>1. CASE UNCHANGED vars
    BY <1>1 DEF vars, IndInv, TypeOK, CacheFresh
  <1>. QED
    BY <1>1, WriteStep, ReadStep, ExpireStep DEF Next

\* What the proofs rest on: the invariant of versions, pages and readers.
THEOREM CacheInvariant == Spec => []IndInv
  <1>. QED
    BY InitIndInv, StepKeepsIndInv, PTL DEF Spec

\* A page that readers can hit reflects every invalidated change.
THEOREM CacheIsFresh == Spec => []CacheFresh
  <1>1. IndInv => CacheFresh
    BY DEF IndInv
  <1>. QED
    BY <1>1, CacheInvariant, PTL

\* INV-13 for any number of readers and writers: a response contains every
\* change invalidated before its request began.
THEOREM ResponsesAreFresh == Spec => []ResponseFresh
  <1>1. IndInv => ResponseFresh
    BY DEF IndInv, ResponseFresh
  <1>. QED
    BY <1>1, CacheInvariant, PTL

-----------------------------------------------------------------------------
(* Pages: one batch for the user's list *)

FormRow == [text : {"empty", "valid", "invalid", "over"}, file : {"none", "csv"},
            mode : {"manual", "file"}, busy : BOOLEAN, results : BOOLEAN]

FormTypeOK ==
  /\ form \in FormRow /\ authed \in BOOLEAN /\ lost \in BOOLEAN
  /\ post \in [Request -> {"none", "sent", "stored", "refused", "made", "shown"}]

\* Unless an answer was lost, a request that made a batch, or may, is the only
\* one; it is the signed-in user's, and until its answer the form is busy.
OnePostInv ==
  /\ \A r \in Request : post[r] # "none" => authed
  /\ ~lost =>
       /\ \A r \in Request : /\ post[r] # "made"
                             /\ post[r] \in {"sent", "stored"} => form.busy
       /\ \A r, q \in Request :
            post[r] \in {"sent", "stored", "shown"} /\ post[q] \in {"sent", "stored", "shown"} => r = q

PostInv == FormTypeOK /\ OnePostInv

LEMMA NewFormRow == NewForm \in FormRow /\ NewForm.busy = FALSE
  BY DEF NewForm, FormRow

LEMMA InitPosts == PagesInit => PostInv
  BY NewFormRow DEF PagesInit, PostInv, FormTypeOK, OnePostInv

\* Whatever is done to a form that stays as busy as it was.
LEMMA FormStep ==
  ASSUME PostInv, form' \in FormRow, form.busy => form'.busy, UNCHANGED <<authed, post, lost>>
  PROVE  PostInv'
  BY DEF PostInv, FormTypeOK, OnePostInv

LEMMA MountForm == ASSUME NEW s, Mount(s) PROVE form' \in FormRow /\ form'.busy = FALSE
  <1>1. \A t \in {"valid", "invalid", "over"} :
          [NewForm EXCEPT !.text = t] \in FormRow /\ [NewForm EXCEPT !.text = t].busy = FALSE
    BY NewFormRow DEF FormRow
  <1>. QED
    BY <1>1, NewFormRow DEF Mount

LEMMA LeaveStep == ASSUME PostInv, Navigate \/ SignUpFromDemo PROVE PostInv'
  <1>1. form' \in FormRow
    BY MountForm DEF Navigate, SignUpFromDemo
  <1>2. CASE Navigate
    BY <1>1, <1>2 DEF Navigate, Waits, PostInv, FormTypeOK, OnePostInv
  <1>3. CASE SignUpFromDemo
    BY <1>1, <1>3 DEF SignUpFromDemo, PostInv, FormTypeOK, OnePostInv
  <1>. QED
    BY <1>2, <1>3

\* The user's input changes neither the button nor the requests.
LEMMA InputStep ==
  ASSUME PostInv, TypeInPanel \/ PanelFile \/ TypeUrls \/ PickFile \/ SetMode \/ RunAnother \/ RunDemo
  PROVE  PostInv'
  <1>1. UNCHANGED <<authed, post, lost>> /\ form \in FormRow
    BY DEF TypeInPanel, PanelFile, TypeUrls, PickFile, SetMode, RunAnother, RunDemo, PostInv, FormTypeOK
  <1>2. form' \in FormRow /\ (form.busy => form'.busy)
    <2>1. CASE \E t \in {"empty", "valid", "invalid"} : form' = [form EXCEPT !.text = t, !.file = "none"]
      BY <1>1, <2>1 DEF FormRow
    <2>2. CASE \/ form' = [form EXCEPT !.text = "empty", !.file = "csv"]
               \/ form' = [form EXCEPT !.file = "none"]
      BY <1>1, <2>2 DEF FormRow
    <2>3. CASE \E t \in {"empty", "valid", "invalid", "over"} : form' = [form EXCEPT !.text = t]
      BY <1>1, <2>3 DEF FormRow
    <2>4. CASE \E f \in {"none", "csv"} : form' = [form EXCEPT !.file = f]
      BY <1>1, <2>4 DEF FormRow
    <2>5. CASE \E m \in {"manual", "file"} : form' = [form EXCEPT !.mode = m]
      BY <1>1, <2>5 DEF FormRow
    <2>6. CASE form' = [form EXCEPT !.results = FALSE] \/ form' = [form EXCEPT !.busy = TRUE]
      BY <1>1, <2>6 DEF FormRow
    <2>. QED
      BY <2>1, <2>2, <2>3, <2>4, <2>5, <2>6
         DEF TypeInPanel, PanelFile, TypeUrls, PickFile, SetMode, RunAnother, RunDemo
  <1>. QED
    BY <1>1, <1>2, FormStep

\* The demo is a guest's: no request is out when its answer frees the panel.
LEMMA DemoAnsweredStep == ASSUME PostInv, DemoAnswered PROVE PostInv'
  <1>1. UNCHANGED <<authed, post, lost>> /\ form \in FormRow /\ ~authed
    BY DEF DemoAnswered, PostInv, FormTypeOK
  <1>2. form' \in FormRow
    <2>1. PICK r \in BOOLEAN : form' = [form EXCEPT !.busy = FALSE, !.results = r]
      BY DEF DemoAnswered
    <2>. QED
      BY <1>1, <2>1 DEF FormRow
  <1>. QED
    BY <1>1, <1>2 DEF PostInv, FormTypeOK, OnePostInv

LEMMA SubmitStep == ASSUME PostInv, NEW r \in Request, Submit(r) PROVE PostInv'
  <1>1. /\ UNCHANGED <<authed, lost>> /\ authed /\ ~form.busy /\ post[r] = "none"
        /\ \A q \in Request : post[q] # "shown"
    BY DEF Submit, CanSubmit
  <1>2. form' \in FormRow /\ form'.busy
    BY DEF Submit, PostInv, FormTypeOK, FormRow
  <1>3. /\ post' \in [Request -> {"none", "sent", "stored", "refused", "made", "shown"}]
        /\ post'[r] = "sent" /\ \A q \in Request \ {r} : post'[q] = post[q]
    BY DEF Submit, PostInv, FormTypeOK
  <1>. QED
    BY <1>1, <1>2, <1>3 DEF PostInv, FormTypeOK, OnePostInv

LEMMA StoredStep == ASSUME PostInv, NEW r \in Request, Stored(r) PROVE PostInv'
  <1>1. /\ post' \in [Request -> {"none", "sent", "stored", "refused", "made", "shown"}]
        /\ post'[r] = "stored" /\ \A q \in Request \ {r} : post'[q] = post[q]
        /\ UNCHANGED <<authed, form, lost>> /\ post[r] = "sent"
    BY DEF Stored, PostInv, FormTypeOK
  <1>. QED
    BY <1>1 DEF PostInv, FormTypeOK, OnePostInv

\* The user is taken to the batch; no other request is out.
LEMMA CreatedStep == ASSUME PostInv, NEW r \in Request, Created(r) PROVE PostInv'
  <1>1. /\ post' \in [Request -> {"none", "sent", "stored", "refused", "made", "shown"}]
        /\ post'[r] = "shown" /\ \A q \in Request \ {r} : post'[q] = post[q]
        /\ UNCHANGED <<authed, lost>> /\ post[r] = "stored"
    BY DEF Created, PostInv, FormTypeOK
  <1>2. form' \in FormRow
    BY MountForm DEF Created
  <1>3. ~lost => \A q \in Request \ {r} : post'[q] \notin {"sent", "stored", "shown"}
    BY <1>1 DEF PostInv, OnePostInv
  <1>. QED
    BY <1>1, <1>2, <1>3 DEF PostInv, FormTypeOK, OnePostInv

LEMMA SubmitFailsStep == ASSUME PostInv, NEW r \in Request, SubmitFails(r) PROVE PostInv'
  <1>1. /\ post' \in [Request -> {"none", "sent", "stored", "refused", "made", "shown"}]
        /\ \A q \in Request \ {r} : post'[q] = post[q]
        /\ UNCHANGED authed /\ post[r] \in {"sent", "stored"} /\ lost' \in BOOLEAN
        /\ ~lost' => post'[r] = "refused" /\ ~lost
    <2>1. FormTypeOK /\ UNCHANGED authed /\ post[r] \in {"sent", "stored"}
      BY DEF SubmitFails, PostInv
    <2>2. CASE post' = [post EXCEPT ![r] = "refused"] /\ UNCHANGED lost
      BY <2>1, <2>2 DEF FormTypeOK
    <2>3. CASE post' = [post EXCEPT ![r] = "made"] /\ lost' = TRUE
      BY <2>1, <2>3 DEF FormTypeOK
    <2>. QED
      BY <2>2, <2>3 DEF SubmitFails
  <1>2. form' \in FormRow
    BY DEF SubmitFails, PostInv, FormTypeOK, FormRow
  <1>3. ~lost' => \A q \in Request : post'[q] \notin {"sent", "stored", "shown", "made"}
    BY <1>1 DEF PostInv, OnePostInv
  <1>4. \A q \in Request : post'[q] # "none" => authed
    BY <1>1 DEF PostInv, OnePostInv
  <1>. QED
    BY <1>1, <1>2, <1>3, <1>4 DEF PostInv, FormTypeOK, OnePostInv

LEMMA NextPosts == PostInv /\ [PagesNext]_pagesVars => PostInv'
  <1>. SUFFICES ASSUME PostInv, [PagesNext]_pagesVars PROVE PostInv'
    OBVIOUS
  <1>1. CASE UNCHANGED <<authed, post, form, lost>>
    BY <1>1 DEF PostInv, FormTypeOK, OnePostInv
  <1>2. ASSUME NEW r \in Request, Submit(r) \/ Stored(r) \/ Created(r) \/ SubmitFails(r) PROVE PostInv'
    BY <1>2, SubmitStep, StoredStep, CreatedStep, SubmitFailsStep
  <1>3. CASE \/ Navigate \/ SignUpFromDemo \/ DemoAnswered
             \/ TypeInPanel \/ PanelFile \/ TypeUrls \/ PickFile \/ SetMode \/ RunAnother \/ RunDemo
    BY <1>3, LeaveStep, DemoAnsweredStep, InputStep
  <1>. QED
    BY <1>1, <1>2, <1>3
       DEF PagesNext, pagesVars, Turn, ListedLate, TurnHistory, HistoryLoaded, Listed, RetryHistory,
           SetFilters, RowsChange, TurnResults

\* CreateBatchForm.tsx:80, 92: the user's list becomes one batch.
THEOREM OneBatchPerList == PagesSpec => []OneBatch
  <1>1. PostInv => OneBatch
    <2>. SUFFICES ASSUME PostInv, ~lost
                  PROVE  ~(Cardinality({r \in Request : post[r] \in {"sent", "stored", "made", "shown"}}) > 1)
      BY DEF OneBatch
    <2>. DEFINE S == {r \in Request : post[r] \in {"sent", "stored", "made", "shown"}}
    <2>1. \A r, q \in S : r = q
      BY DEF PostInv, OnePostInv
    <2>. HIDE DEF S
    <2>2. CASE S = {}
      <3>1. Cardinality(S) = 0
        BY <2>2, FS_EmptySet
      <3>. QED
        BY <3>1 DEF S
    <2>3. CASE S # {}
      <3>1. PICK r \in S : TRUE
        BY <2>3
      <3>2. S = {r}
        BY <2>1, <3>1
      <3>3. Cardinality(S) = 1
        BY <3>2, FS_Singleton
      <3>. QED
        BY <3>3 DEF S
    <2>. QED
      BY <2>2, <2>3
  <1>. QED
    BY <1>1, InitPosts, NextPosts, PTL DEF PagesSpec

-----------------------------------------------------------------------------
(* Pages: the lists *)

\* At most the page a list names is asked for, as far as its answer counts.
ListsInv ==
  /\ recent \in [page : Page, rows : Page, asked : Page \cup {0}, loading : BOOLEAN, error : BOOLEAN]
  /\ recent.asked # 0 => recent.asked = recent.page
  /\ recent.page # 1 /\ ~recent.loading /\ ~recent.error => recent.rows = recent.page
  /\ history \in [page : Page, rows : Page \cup {0}, kind : {"loading", "ready", "error"},
                  asked : SUBSET Page, filter : SUBSET Page]
  /\ history.asked \subseteq {history.page}
  /\ history.kind = "ready" => history.asked = {} /\ history.rows = history.page
  /\ history.kind = "error" => history.asked = {}
  /\ results \in [page : Nat \ {0}, rows : Nat]

LEMMA FirstPage == 1 \in Page /\ \A p \in Page : p \in Nat \ {0}
  BY PagesAssumption DEF Page

LEMMA NewLists ==
  ASSUME recent' \in Dashboard, history' = NewHistory, results' = NewResults PROVE ListsInv'
  <1>1. /\ recent' \in [page : Page, rows : Page, asked : Page \cup {0}, loading : BOOLEAN, error : BOOLEAN]
        /\ recent'.page = 1 /\ recent'.asked = 0
    <2>1. recent' = NewRecent \/ recent' = [NewRecent EXCEPT !.error = TRUE]
      BY DEF Dashboard
    <2>2. /\ NewRecent \in [page : Page, rows : Page, asked : Page \cup {0}, loading : BOOLEAN, error : BOOLEAN]
          /\ NewRecent.page = 1 /\ NewRecent.asked = 0
      BY FirstPage DEF NewRecent
    <2>. QED
      BY <2>1, <2>2
  <1>2. /\ history' \in [page : Page, rows : Page \cup {0}, kind : {"loading", "ready", "error"},
                         asked : SUBSET Page, filter : SUBSET Page]
        /\ history'.page = 1 /\ history'.asked = {1} /\ history'.kind = "loading"
    BY FirstPage DEF NewHistory
  <1>3. results' \in [page : Nat \ {0}, rows : Nat]
    BY DEF NewResults
  <1>. QED
    BY <1>1, <1>2, <1>3 DEF ListsInv

LEMMA MountLists == ASSUME NEW s, Mount(s) PROVE ListsInv'
  <1>1. recent' \in Dashboard
    BY DEF Mount, Dashboard
  <1>. QED
    BY <1>1, NewLists DEF Mount

LEMMA InitLists == PagesInit => ListsInv
  <1>. SUFFICES ASSUME PagesInit PROVE ListsInv
    OBVIOUS
  <1>1. /\ recent \in [page : Page, rows : Page, asked : Page \cup {0}, loading : BOOLEAN, error : BOOLEAN]
        /\ recent.page = 1 /\ recent.asked = 0
    BY FirstPage DEF PagesInit, NewRecent
  <1>2. /\ history \in [page : Page, rows : Page \cup {0}, kind : {"loading", "ready", "error"},
                        asked : SUBSET Page, filter : SUBSET Page]
        /\ history.page = 1 /\ history.asked = {1} /\ history.kind = "loading"
    BY FirstPage DEF PagesInit, NewHistory
  <1>3. results \in [page : Nat \ {0}, rows : Nat]
    BY DEF PagesInit, NewResults
  <1>. QED
    BY <1>1, <1>2, <1>3 DEF ListsInv

LEMMA RecentStep ==
  ASSUME ListsInv, UNCHANGED <<history, results>>, (\E p \in Page : Turn(p)) \/ Listed PROVE ListsInv'
  <1>1. /\ recent' \in [page : Page, rows : Page, asked : Page \cup {0}, loading : BOOLEAN, error : BOOLEAN]
        /\ recent'.asked # 0 => recent'.asked = recent'.page
        /\ recent'.page # 1 /\ ~recent'.loading /\ ~recent'.error => recent'.rows = recent'.page
    <2>1. ASSUME NEW p \in Page, Turn(p)
          PROVE  /\ recent' \in [page : Page, rows : Page, asked : Page \cup {0}, loading : BOOLEAN, error : BOOLEAN]
                 /\ recent'.asked # 0 => recent'.asked = recent'.page
                 /\ recent'.page # 1 => recent'.loading
      <3>1. CASE p = 1
        <4>1. recent' = [recent EXCEPT !.page = p, !.asked = 0]
          BY <2>1, <3>1 DEF Turn, NewRecent
        <4>. QED
          BY <3>1, <4>1 DEF ListsInv
      <3>2. CASE p # 1
        <4>1. recent' = [recent EXCEPT !.page = p, !.asked = p, !.loading = TRUE, !.error = FALSE]
          BY <2>1, <3>2 DEF Turn, NewRecent
        <4>. QED
          BY <4>1 DEF ListsInv
      <3>. QED
        BY <3>1, <3>2
    <2>2. ASSUME Listed
          PROVE  /\ recent' \in [page : Page, rows : Page, asked : Page \cup {0}, loading : BOOLEAN, error : BOOLEAN]
                 /\ recent'.asked = 0
                 /\ ~recent'.error => recent'.rows = recent'.page
      <3>1. /\ recent \in [page : Page, rows : Page, asked : Page \cup {0}, loading : BOOLEAN, error : BOOLEAN]
            /\ recent.asked \in Page /\ recent.asked = recent.page
        BY <2>2 DEF Listed, ListsInv
      <3>2. PICK p \in Page : p = recent.asked
        BY <3>1
      <3>3. CASE recent' = [recent EXCEPT !.rows = p, !.asked = 0, !.loading = FALSE]
        BY <3>1, <3>2, <3>3
      <3>4. CASE recent' = [recent EXCEPT !.error = TRUE, !.asked = 0, !.loading = FALSE]
        BY <3>1, <3>4
      <3>. QED
        BY <2>2, <3>2, <3>3, <3>4 DEF Listed
    <2>. QED
      BY <2>1, <2>2
  <1>. QED
    BY <1>1 DEF ListsInv

LEMMA HistoryStep ==
  ASSUME ListsInv, UNCHANGED <<recent, results>>,
         (\E p \in Page : TurnHistory(p) \/ HistoryLoaded(p)) \/ RetryHistory \/ SetFilters
  PROVE  ListsInv'
  <1>1. /\ history \in [page : Page, rows : Page \cup {0}, kind : {"loading", "ready", "error"},
                        asked : SUBSET Page, filter : SUBSET Page]
        /\ history.asked \subseteq {history.page}
    BY DEF ListsInv
  <1>2. ASSUME NEW p \in Page, history.asked = {}, history' = LoadPage(p) PROVE ListsInv'
    <2>1. history' = [history EXCEPT !.page = p, !.kind = "loading", !.asked = {p}]
      BY <1>2 DEF LoadPage
    <2>2. /\ history' \in [page : Page, rows : Page \cup {0}, kind : {"loading", "ready", "error"},
                           asked : SUBSET Page, filter : SUBSET Page]
          /\ history'.page = p /\ history'.kind = "loading" /\ history'.asked = {p}
      BY <1>1, <2>1
    <2>. QED
      BY <2>2 DEF ListsInv
  <1>3. ASSUME NEW p \in Page, HistoryLoaded(p) PROVE ListsInv'
    <2>1. p \in history.asked /\ history.page = p /\ history.asked \ {p} = {}
      BY <1>1, <1>3 DEF HistoryLoaded
    <2>2. history' \in {[history EXCEPT !.rows = p, !.kind = "ready", !.asked = {}],
                        [history EXCEPT !.kind = "error", !.asked = {}]}
      BY <1>3, <2>1 DEF HistoryLoaded
    <2>3. /\ history' \in [page : Page, rows : Page \cup {0}, kind : {"loading", "ready", "error"},
                           asked : SUBSET Page, filter : SUBSET Page]
          /\ history'.page = p /\ history'.asked = {}
          /\ history'.kind = "ready" => history'.rows = p
      BY <1>1, <2>1, <2>2
    <2>. QED
      BY <2>3 DEF ListsInv
  <1>4. CASE SetFilters
    <2>1. PICK f \in SUBSET Page : history' = [history EXCEPT !.filter = f]
      BY <1>4 DEF SetFilters
    <2>2. /\ history' \in [page : Page, rows : Page \cup {0}, kind : {"loading", "ready", "error"},
                           asked : SUBSET Page, filter : SUBSET Page]
          /\ history'.page = history.page /\ history'.asked = history.asked
          /\ history'.kind = history.kind /\ history'.rows = history.rows
      BY <1>1, <2>1
    <2>. QED
      BY <2>2 DEF ListsInv
  <1>5. ASSUME NEW p \in Page, TurnHistory(p) PROVE ListsInv'
    BY <1>2, <1>5 DEF TurnHistory, Ready, ListsInv
  <1>6. CASE RetryHistory
    BY <1>1, <1>2, <1>6 DEF RetryHistory, ListsInv
  <1>. QED
    BY <1>3, <1>4, <1>5, <1>6

LEMMA ResultsStep ==
  ASSUME ListsInv, UNCHANGED <<recent, history>>, RowsChange \/ (\E p \in 1 .. MaxResults : TurnResults(p))
  PROVE  ListsInv'
  <1>1. results' \in [page : Nat \ {0}, rows : Nat]
    BY PagesAssumption DEF RowsChange, TurnResults, ListsInv
  <1>. QED
    BY <1>1 DEF ListsInv

LEMMA NextLists == ListsInv /\ [PagesNext]_pagesVars => ListsInv'
  <1>. SUFFICES ASSUME ListsInv, [PagesNext]_pagesVars PROVE ListsInv'
    OBVIOUS
  <1>1. CASE UNCHANGED <<recent, history, results>>
    BY <1>1 DEF ListsInv
  <1>2. CASE Navigate \/ SignUpFromDemo \/ (\E r \in Request : Created(r))
    BY <1>2, MountLists DEF Navigate, SignUpFromDemo, Created
  <1>3. CASE Listed \/ (\E p \in Page : Turn(p))
    BY <1>3, RecentStep DEF Listed, Turn
  <1>4. CASE (\E p \in Page : TurnHistory(p) \/ HistoryLoaded(p)) \/ RetryHistory \/ SetFilters
    BY <1>4, HistoryStep DEF TurnHistory, HistoryLoaded, RetryHistory, SetFilters
  <1>5. CASE RowsChange \/ (\E p \in 1 .. MaxResults : TurnResults(p))
    BY <1>5, ResultsStep DEF RowsChange, TurnResults
  <1>6. CASE TypeInPanel \/ PanelFile \/ TypeUrls \/ PickFile \/ SetMode \/ RunDemo \/ DemoAnswered \/ RunAnother
    BY <1>1, <1>6 DEF TypeInPanel, PanelFile, TypeUrls, PickFile, SetMode, RunDemo, DemoAnswered, RunAnother
  <1>7. CASE \E r \in Request : Submit(r) \/ Stored(r) \/ SubmitFails(r)
    BY <1>1, <1>7 DEF Submit, Stored, SubmitFails
  <1>8. CASE \E p \in Page : ListedLate(p)
    BY <1>1, <1>8 DEF ListedLate
  <1>. QED
    BY <1>1, <1>2, <1>3, <1>4, <1>5, <1>6, <1>7, <1>8 DEF PagesNext, pagesVars

\* What a list shows belongs to the page it names, whichever answers overtake
\* each other and whichever rows go away.
THEOREM ListsShowTheRightPage == PagesSpec => []ListsShowTheirPage
  <1>1. ListsInv => ListsShowTheirPage
    <2>. SUFFICES ASSUME ListsInv PROVE ListsShowTheirPage
      OBVIOUS
    <2>1. recent.page # NewRecent.page => RecentShowsPage
      BY DEF ListsInv, RecentShowsPage, NewRecent
    <2>2. Ready => history.rows = history.page
      BY DEF ListsInv, Ready
    <2>3. results.rows > 0 => Current \in 1 .. results.rows
      BY DEF ListsInv, Current, LastPage
    <2>. QED
      BY <2>1, <2>2, <2>3 DEF ListsShowTheirPage
  <1>. QED
    BY <1>1, InitLists, NextLists, PTL DEF PagesSpec
=============================================================================
