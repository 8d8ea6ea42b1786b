------------------------- MODULE RecognitionProofs -------------------------
(***************************************************************************)
(* Proofs about Recognition, for every list, every set of titles and       *)
(* relations, and every bound.                                             *)
(***************************************************************************)
EXTENDS Recognition, TLAPS, SequenceTheorems

(* What the edits of the user have in common: the entry a gets the data d,  *)
(* which differs at most in the fields f.                                   *)
EditStep(a, d, f) ==
    /\ Edit(a, d, f)
    /\ d.progress # local[a].progress => "progress" \in f
    /\ d.status # local[a].status => "status" \in f
    /\ panel' = panel \/ panel' = NoPanel
    /\ UNCHANGED <<playing, enabled, watchVars, aliases, anime_list,
                   update_offset, fetches, server, corrupt, settled,
                   reentered, removed, forgotten>>

(* What accepting a panel is when it changes nothing in the list.           *)
IdleAccept ==
    /\ panel.open
    /\ panel' = NoPanel
    /\ panel.entry = NoEntry => corrupt' = TRUE
    /\ panel.entry # NoEntry => corrupt' = corrupt
    /\ UNCHANGED <<playing, enabled, watchVars, aliases, listVars, fetchVars,
                   server, requests, settled, reentered, removed, forgotten, touched,
                   suspect>>

Edits ==
    \E a \in anime_list, d \in Data, f \in SUBSET Field : EditStep(a, d, f)

Acts == acts' \in 0..MaxActs /\ edits' \in 0..MaxEdits

LEMMA CountEdits ==
    ASSUME TypeOK, UserEdits PROVE Acts
<1>1. edits \in 0..MaxEdits /\ acts \in 0..MaxActs /\ MaxEdits \in Nat
  BY RecognitionAssumption DEF TypeOK
<1> QED
  BY <1>1 DEF UserEdits, Acts

LEMMA EditSteps ==
    ASSUME TypeOK
    PROVE  /\ \A a \in Entry : Increment(a) => Edits /\ Acts
           /\ \A a \in Entry, s \in Status : UpdateStatus(a, s) => Edits /\ Acts
           /\ \A d \in Entered : Accept(d) => (IdleAccept \/ Edits) /\ Acts
<1> USE RecognitionAssumption
<1>1. ASSUME NEW a \in Entry, Increment(a) PROVE Edits /\ Acts
  <2> DEFINE d == [local[a] EXCEPT !.progress = @ + 1]
  <2>1. a \in anime_list /\ local[a] \in Data
    BY <1>1 DEF Increment, TypeOK
  <2>2. d \in Data /\ d.status = local[a].status
    BY <2>1 DEF Data
  <2>3. {"progress"} \in SUBSET Field /\ EditStep(a, d, {"progress"})
    BY <1>1, <2>2 DEF Increment, EditStep, Field
  <2>4. Acts
    BY <1>1, CountEdits DEF Increment
  <2> QED
    BY <2>1, <2>2, <2>3, <2>4 DEF Edits
<1>2. ASSUME NEW a \in Entry, NEW s \in Status, UpdateStatus(a, s) PROVE Edits /\ Acts
  <2> DEFINE d == [local[a] EXCEPT !.status = s]
  <2>1. a \in anime_list /\ local[a] \in Data
    BY <1>2 DEF UpdateStatus, TypeOK
  <2>2. d \in Data /\ d.progress = local[a].progress
    BY <2>1 DEF Data
  <2>3. {"status"} \in SUBSET Field /\ EditStep(a, d, {"status"})
    BY <1>2, <2>2 DEF UpdateStatus, EditStep, Field
  <2>4. Acts
    BY <1>2, CountEdits DEF UpdateStatus
  <2> QED
    BY <2>1, <2>2, <2>3, <2>4 DEF Edits
<1>3. ASSUME NEW d \in Entered, Accept(d) PROVE (IdleAccept \/ Edits) /\ Acts
  <2> DEFINE f == {g \in Field : d[g] # local[panel.entry][g]}
  <2>1. panel.open /\ panel.shown \in Data
    BY <1>3 DEF Accept, TypeOK
  <2>2. d \in Data
    BY <2>1, <1>3 DEF Entered, Data
  <2>0. Acts
    BY <1>3 DEF Accept, TypeOK, Acts
  <2>3. CASE panel.entry = NoEntry
    <3>1. corrupt' = TRUE /\ UNCHANGED <<local, requests, fetch, touched, suspect>>
      BY <1>3, <2>3 DEF Accept
    <3>2. UNCHANGED <<playing, enabled, watchVars, aliases, anime_list, update_offset,
                      fetches, server, settled, reentered, removed, forgotten>>
          /\ panel' = NoPanel
      BY <1>3 DEF Accept
    <3> QED
      BY <2>0, <2>1, <2>3, <3>1, <3>2 DEF IdleAccept, listVars, fetchVars
  <2>4. CASE panel.entry # NoEntry /\ f = {}
    <3>1. corrupt' = corrupt /\ UNCHANGED <<local, requests, fetch, touched, suspect>>
      BY <1>3, <2>4 DEF Accept
    <3>2. UNCHANGED <<playing, enabled, watchVars, aliases, anime_list, update_offset,
                      fetches, server, settled, reentered, removed, forgotten>>
          /\ panel' = NoPanel
      BY <1>3 DEF Accept
    <3> QED
      BY <2>0, <2>1, <2>4, <3>1, <3>2 DEF IdleAccept, listVars, fetchVars
  <2>5. CASE panel.entry # NoEntry /\ f # {}
    <3>1. panel.entry \in anime_list /\ f \in SUBSET Field
      BY <2>5 DEF TypeOK
    <3>2. EditStep(panel.entry, d, f)
      BY <1>3, <2>5 DEF Accept, EditStep, Field
    <3> QED
      BY <2>0, <2>2, <3>1, <3>2, Zenon DEF Edits
  <2> QED
    BY <2>3, <2>4, <2>5
<1> QED
  BY <1>1, <1>2, <1>3

(* Every step of the program is one of these.                               *)
LEMMA Steps ==
    ASSUME TypeOK, Next
    PROVE  \/ \E r \in requests : Deliver(r) \/ Lose(r)
           \/ FetchAnswered \/ \E a \in Entry : CopyEntry(a)
           \/ WatchNothing \/ WatchKnown \/ WatchUnknown
           \/ SearchReturns \/ UpdateEpisode \/ UpdateReturns
           \/ \E t \in Title \cup {NoTitle} : Play(t)
           \/ CancelUpdate \/ ToggleRecognition
           \/ \E s \in SUBSET Title : ReloadSmartTitles(s)
           \/ \E a \in Entry : OpenPanel(a) \/ DeleteEntry(a)
           \/ (IdleAccept \/ Edits) /\ Acts
<1>1. CASE Server
  BY <1>1 DEF Server
<1>2. CASE Worker
  BY <1>2 DEF Worker
<1>3. CASE Watch
  BY <1>3 DEF Watch
<1>4. CASE User
  <2>1. CASE \E a \in Entry : Increment(a)
    BY <2>1, EditSteps
  <2>2. CASE \E a \in Entry, s \in Status : UpdateStatus(a, s)
    BY <2>2, EditSteps
  <2>3. CASE \E d \in Entered : Accept(d)
    BY <2>3, EditSteps
  <2>4. CASE \E s \in SUBSET {t \in Title : Alias[t] # NoEntry} : ReloadSmartTitles(s)
    BY <2>4
  <2> QED
    BY <1>4, <2>1, <2>2, <2>3, <2>4 DEF User
<1> QED
  BY <1>1, <1>2, <1>3, <1>4 DEF Next

LEMMA NothingAfterCorruption == TypeOK /\ Next => corrupt = FALSE
BY DEF Next, Server, Worker, Watch, User, Sound, TypeOK

-----------------------------------------------------------------------------
(* Type correctness.                                                        *)

LEMMA DeletedIsNoData == Deleted \notin Data /\ \A d \in Data : d.status # "deleted"
BY DEF Deleted, Data, Status

LEMMA SendType ==
    ASSUME TypeOK, NEW a \in Entry, NEW d \in Data \cup {Deleted},
           NEW f \in SUBSET Field, NEW b \in BOOLEAN, Send(Put(a, d, f), b)
    PROVE  /\ requests' \in SUBSET Request
           /\ fetch' \in [todo : SUBSET Entry, answer : [Entry -> Data \cup {Deleted}],
                          outdated : SUBSET Entry]
           /\ fetch'.todo = fetch.todo
           /\ fetch'.answer = fetch.answer
           /\ suspect' \in SUBSET Entry
<1>1. Put(a, d, f) \in Request /\ Put(a, d, f).entry = a
  BY DEF Put, Request, Data, Deleted
<1>2. requests \subseteq Request /\ suspect \subseteq Entry
  BY DEF TypeOK
<1>3. fetch \in [todo : SUBSET Entry, answer : [Entry -> Data \cup {Deleted}],
                outdated : SUBSET Entry]
  BY DEF TypeOK
<1>4. requests' \subseteq Request /\ suspect' \subseteq Entry
  BY <1>1, <1>2 DEF Send
<1> QED
  BY <1>1, <1>3, <1>4 DEF Send

LEMMA Before ==
    ASSUME NEW k \in Nat \ {0}
    PROVE  k - 1 \in Nat /\ (k - 1) - 1 + 1 = k - 1 /\ (~(1 <= k - 1) => k - 1 = 0)
OBVIOUS

(* The stack of the calls that wait, and its top.                           *)
LEMMA StackTop ==
    ASSUME NEW S, NEW w \in Seq(S), w # <<>>
    PROVE  /\ Len(w) \in Nat \ {0}
           /\ Last(w) = w[Len(w)] /\ Last(w) \in S
           /\ Front(w) \in Seq(S)
           /\ Len(Front(w)) = Len(w) - 1
           /\ \A i \in 1..(Len(w) - 1) : Front(w)[i] = w[i]
<1>1. Len(w) \in Nat \ {0} /\ Front(w) = SubSeq(w, 1, Len(w) - 1)
  BY DEF Front
<1>2. Last(w) = w[Len(w)] /\ w[Len(w)] \in S
  BY <1>1 DEF Last
<1>3. /\ Front(w) \in Seq(S) /\ Len(Front(w)) = Len(w) - 1
      /\ \A i \in 1..(Len(w) - 1) : Front(w)[i] = w[i]
  <2> DEFINE n == Len(w) - 1
  <2>1. n \in Int /\ 1 \in Int /\ \A i \in 1..n : w[i] \in S
    BY <1>1
  <2>2. /\ SubSeq(w, 1, n) \in Seq(S)
        /\ Len(SubSeq(w, 1, n)) = IF 1 <= n THEN n - 1 + 1 ELSE 0
        /\ \A i \in 1..(n - 1 + 1) : SubSeq(w, 1, n)[i] = w[1 + i - 1]
    BY <2>1, SubSeqProperties
  <2>0. Len(w) \in Nat \ {0}
    BY <1>1
  <2>3. n \in Nat /\ n - 1 + 1 = n /\ (~(1 <= n) => n = 0)
    BY <2>0, Before, Zenon
  <2> HIDE DEF n
  <2>4. Len(SubSeq(w, 1, n)) = n
    BY <2>2, <2>3
  <2>5. \A i \in 1..n : SubSeq(w, 1, n)[i] = w[i]
    <3>1. ASSUME NEW i \in 1..n PROVE SubSeq(w, 1, n)[i] = w[i]
      <4>1. i \in 1..(n - 1 + 1)
        BY <2>3
      <4>2. 1 + i - 1 = i
        OBVIOUS
      <4> QED
        BY <2>2, <4>1, <4>2
    <3> QED
      BY <3>1
  <2>6. Front(w) = SubSeq(w, 1, n)
    BY <1>1 DEF n
  <2> QED
    BY <2>2, <2>4, <2>5, <2>6 DEF n
<1> QED
  BY <1>1, <1>2, <1>3

LEMMA InitType == Init => TypeOK
<1> SUFFICES ASSUME Init PROVE TypeOK
  OBVIOUS
<1> USE RecognitionAssumption
<1>1. server \in [Entry -> Data \cup {Deleted}]
  BY DEF Init
<1>2. /\ panel \in [open : BOOLEAN, entry : {NoEntry}, shown : Data \cup {Deleted}]
      /\ ~panel.open
  BY DEF Init, NoPanel
<1>3. /\ fetch \in [todo : SUBSET Entry, answer : [Entry -> Data \cup {Deleted}],
                    outdated : SUBSET Entry]
      /\ fetch.todo = {}
  BY DEF Init, NoFetch
<1>4. local \in [Entry -> Data \cup {Deleted}] /\ update_offset \in [Entry -> Nat]
  BY DEF Init
<1>5. waiting \in Seq(Title \cup {Updating}) /\ requests \in SUBSET Request /\ suspect \in SUBSET Entry
  BY DEF Init
<1>6. fetches \in 0..MaxFetches /\ acts \in 0..MaxActs /\ edits \in 0..MaxEdits
  BY DEF Init
<1>7. aliases \in SUBSET Title /\ anime_list \in SUBSET Entry
  BY DEF Init
<1>8. /\ corrupt \in BOOLEAN /\ settled \in BOOLEAN /\ reentered \in BOOLEAN
      /\ removed \in BOOLEAN /\ forgotten \in BOOLEAN /\ touched \in BOOLEAN /\ watch_timer \in BOOLEAN
      /\ enabled \in BOOLEAN
  BY DEF Init
<1>9. /\ playing = NoTitle /\ currently_watching = NoTitle /\ cw_anime = NoEntry
      /\ cw_episode = 0 /\ anime_list = {}
  BY DEF Init
<1> QED
  BY <1>1, <1>2, <1>3, <1>4, <1>5, <1>6, <1>7, <1>8, <1>9 DEF TypeOK

LEMMA KnownType ==
    ASSUME TypeOK, NEW t \in Title, Known(t) # NoEntry
    PROVE  Known(t) \in anime_list /\ Known(t) \in Entry /\ OffsetFor(t) \in Nat
BY RecognitionAssumption DEF Known, ByAlias, OffsetFor, TypeOK

LEMMA SearchType ==
    ASSUME TypeOK, NEW t \in Title, NEW a \in SearchResults(t), a # NoEntry
    PROVE  a \in anime_list /\ a \in Entry /\ a \in {Found[t]} \cup Untitled
BY DEF SearchResults, TypeOK

LEMMA DecideType ==
    ASSUME TypeOK, NEW a \in anime_list, NEW e \in Int, NEW s \in BOOLEAN, Decide(a, e, s)
    PROVE  cw_anime' \in anime_list /\ cw_episode' \in Int
           /\ watch_timer' \in BOOLEAN /\ touched' \in BOOLEAN
BY DEF Decide, TypeOK

LEMMA StepType == TypeOK /\ [Next]_vars => TypeOK'
<1> SUFFICES ASSUME TypeOK, [Next]_vars PROVE TypeOK'
  OBVIOUS
<1> USE DEF watchVars, listVars, fetchVars, ghostVars
<1>1. CASE UNCHANGED vars
  BY <1>1 DEF vars, TypeOK
<1>2. ASSUME NEW r \in requests, Deliver(r) PROVE TypeOK'
  <2>1. server' \in [Entry -> Data \cup {Deleted}]
    <3>1. r \in Request /\ server[r.entry] \in Data \cup {Deleted}
      BY DEF TypeOK, Request
    <3>2. Answer(r, server[r.entry]) \in Data \cup {Deleted}
      BY <3>1, DeletedIsNoData DEF Answer, Data, Request, Deleted
    <3> QED
      BY <1>2, <3>2 DEF Deliver, TypeOK
  <2>2. requests' \in SUBSET Request
    BY <1>2 DEF Deliver, TypeOK
  <2> QED
    BY <1>2, <2>1, <2>2 DEF Deliver, TypeOK
<1>3. ASSUME NEW r \in requests, Lose(r) PROVE TypeOK'
  <2>1. requests' \in SUBSET Request /\ suspect' \in SUBSET Entry
    BY <1>3 DEF Lose, TypeOK, Request
  <2> QED
    BY <1>3, <2>1 DEF Lose, TypeOK
<1>4. CASE FetchAnswered
  <2>1. /\ fetch' \in [todo : SUBSET Entry, answer : [Entry -> Data \cup {Deleted}],
                       outdated : SUBSET Entry]
        /\ \A a \in fetch'.todo : fetch'.answer[a] \in Data
    BY <1>4, DeletedIsNoData DEF FetchAnswered, InFlight, TypeOK, Request, Deleted
  <2>2. fetches' \in 0..MaxFetches
    BY <1>4, RecognitionAssumption DEF FetchAnswered, TypeOK
  <2> QED
    BY <1>4, <2>1, <2>2 DEF FetchAnswered, TypeOK
<1>5. ASSUME NEW a \in Entry, CopyEntry(a) PROVE TypeOK'
  <2>1. local' \in [Entry -> Data \cup {Deleted}] /\ \A b \in anime_list' : local'[b] \in Data
    BY <1>5 DEF CopyEntry, TypeOK
  <2>2. /\ fetch' \in [todo : SUBSET Entry, answer : [Entry -> Data \cup {Deleted}],
                       outdated : SUBSET Entry]
        /\ \A b \in fetch'.todo : fetch'.answer[b] \in Data
    BY <1>5 DEF CopyEntry, TypeOK, NoFetch
  <2>3. update_offset' \in [Entry -> Nat]
    BY <1>5 DEF CopyEntry, TypeOK
  <2>4. anime_list' \in SUBSET Entry /\ suspect' \in SUBSET Entry /\ anime_list \subseteq anime_list'
    BY <1>5 DEF CopyEntry, TypeOK
  <2>5. panel' \in [open : BOOLEAN, entry : anime_list' \cup {NoEntry},
                   shown : Data \cup {Deleted}]
    BY <1>5, <2>4 DEF CopyEntry, TypeOK
  <2>6. touched' \in BOOLEAN /\ cw_anime' \in anime_list' \cup {NoEntry}
    BY <1>5, <2>4 DEF CopyEntry, TypeOK
  <2> QED
    BY <1>5, <2>1, <2>2, <2>3, <2>4, <2>5, <2>6 DEF CopyEntry, TypeOK
<1>6. ASSUME NewTitle,
             cw_anime' \in anime_list \cup {NoEntry}, cw_episode' \in Int,
             watch_timer' \in BOOLEAN, touched' \in BOOLEAN, forgotten' \in BOOLEAN,
             waiting' \in Seq(Title \cup {Updating}), update_offset' \in [Entry -> Nat]
      PROVE  TypeOK'
  BY <1>6 DEF NewTitle, Searching, TypeOK
<1>7. CASE WatchNothing
  <2>1. /\ NewTitle /\ watch_timer' = FALSE /\ cw_episode' = 0
        /\ UNCHANGED <<cw_anime, waiting, update_offset, forgotten, touched>>
    BY <1>7 DEF WatchNothing
  <2>2. cw_anime' \in anime_list \cup {NoEntry} /\ cw_episode' \in Int
    BY <2>1 DEF TypeOK
  <2>3. watch_timer' \in BOOLEAN /\ touched' \in BOOLEAN /\ forgotten' \in BOOLEAN
    BY <2>1 DEF TypeOK
  <2>4. waiting' \in Seq(Title \cup {Updating}) /\ update_offset' \in [Entry -> Nat]
    BY <2>1 DEF TypeOK
  <2> QED
    BY <1>6, <2>1, <2>2, <2>3, <2>4
<1>8. CASE WatchKnown
  <2> DEFINE a == Known(playing)
  <2>1. playing \in Title /\ Episode[playing] \in Nat
    BY <1>8, RecognitionAssumption DEF WatchKnown, Watchable
  <2>2. a \in anime_list /\ a \in Entry /\ OffsetFor(playing) \in Nat
    BY <1>8, <2>1, KnownType DEF WatchKnown
  <2>3. update_offset' \in [Entry -> Nat]
    BY <1>8, <2>2 DEF WatchKnown, TypeOK
  <2>4. Decide(a, Episode[playing] - OffsetFor(playing), FALSE) /\ NewTitle
        /\ waiting' = waiting /\ forgotten' = forgotten
    BY <1>8 DEF WatchKnown
  <2>5. Episode[playing] - OffsetFor(playing) \in Int
    BY <2>1, <2>2
  <2> HIDE DEF a
  <2>6. cw_anime' \in anime_list /\ cw_episode' \in Int
        /\ watch_timer' \in BOOLEAN /\ touched' \in BOOLEAN
    BY <2>2, <2>4, <2>5, DecideType
  <2>7. waiting' \in Seq(Title \cup {Updating}) /\ forgotten' \in BOOLEAN
    BY <2>4 DEF TypeOK
  <2> QED
    BY <1>6, <2>3, <2>4, <2>6, <2>7
<1>9. CASE WatchUnknown
  <2> DEFINE a == Known(playing)
  <2>1. playing \in Title /\ Episode[playing] \in Nat
    BY <1>9, RecognitionAssumption DEF WatchUnknown, Watchable
  <2>2. /\ NewTitle /\ watch_timer' = FALSE /\ cw_anime' = a
        /\ cw_episode' = Episode[playing] /\ waiting' = Append(waiting, playing)
        /\ forgotten' = (forgotten \/ IsWaiting(Updating))
        /\ touched' = touched
    BY <1>9 DEF WatchUnknown
  <2>3. cw_episode' \in Int /\ cw_anime' \in anime_list \cup {NoEntry}
    BY <2>1, <2>2, KnownType
  <2>4. waiting' \in Seq(Title \cup {Updating})
    BY <2>1, <2>2 DEF TypeOK
  <2>5. watch_timer' \in BOOLEAN /\ touched' \in BOOLEAN /\ forgotten' \in BOOLEAN
    BY <2>2 DEF TypeOK
  <2>6. update_offset' \in [Entry -> Nat]
    <3>1. CASE a = NoEntry
      BY <1>9, <3>1 DEF WatchUnknown, TypeOK
    <3>2. CASE a # NoEntry
      <4>1. a \in Entry /\ OffsetFor(playing) \in Nat
        BY <2>1, <3>2, KnownType
      <4>2. update_offset' = [update_offset EXCEPT ![a] = OffsetFor(playing)]
        BY <1>9, <3>2 DEF WatchUnknown
      <4> QED
        BY <4>1, <4>2 DEF TypeOK
    <3> QED
      BY <3>1, <3>2
  <2> QED
    BY <1>6, <2>2, <2>3, <2>4, <2>5, <2>6
<1>10. CASE SearchReturns
  <2>1. waiting \in Seq(Title \cup {Updating}) /\ waiting # <<>>
    BY <1>10 DEF SearchReturns, TypeOK
  <2>2. Last(waiting) \in Title /\ waiting' \in Seq(Title \cup {Updating})
    BY <1>10, <2>1, StackTop DEF SearchReturns
  <2>3. PICK a \in SearchResults(Last(waiting)) :
          IF a = NoEntry
          THEN cw_anime' = NoEntry /\ UNCHANGED <<cw_episode, watch_timer, touched>>
          ELSE Decide(a, cw_episode - update_offset[a], watch_timer)
    BY <1>10 DEF SearchReturns
  <2>4. cw_anime' \in anime_list \cup {NoEntry} /\ cw_episode' \in Int
        /\ watch_timer' \in BOOLEAN /\ touched' \in BOOLEAN
    <3>1. CASE a = NoEntry
      BY <2>3, <3>1 DEF TypeOK
    <3>2. CASE a # NoEntry
      <4>1. a \in anime_list /\ a \in Entry
        BY <2>2, <3>2, SearchType
      <4>2. cw_episode - update_offset[a] \in Int /\ watch_timer \in BOOLEAN
        BY <4>1 DEF TypeOK
      <4> QED
        BY <2>3, <3>2, <4>1, <4>2, DecideType
    <3> QED
      BY <3>1, <3>2
  <2>5. UNCHANGED <<playing, enabled, currently_watching, aliases, listVars,
                    panel, fetchVars, server, requests, acts, edits, corrupt,
                    settled, reentered, removed, forgotten, suspect>>
    BY <1>10 DEF SearchReturns
  <2>6. anime_list' = anime_list /\ panel' = panel /\ local' = local /\ fetch' = fetch
        /\ server' = server /\ requests' = requests /\ update_offset' = update_offset
        /\ fetches' = fetches
    BY <2>5
  <2> QED
    BY <2>2, <2>4, <2>5, <2>6 DEF TypeOK
<1>11. CASE UpdateEpisode
  <2>1. /\ local' \in [Entry -> Data \cup {Deleted}]
        /\ \A a \in anime_list : local'[a] \in Data
        /\ requests' \in SUBSET Request
        /\ fetch' \in [todo : SUBSET Entry, answer : [Entry -> Data \cup {Deleted}],
                       outdated : SUBSET Entry]
        /\ fetch'.todo = fetch.todo /\ fetch'.answer = fetch.answer
        /\ suspect' \in SUBSET Entry
        /\ corrupt' \in BOOLEAN
        /\ waiting' \in Seq(Title \cup {Updating})
    <3>1. CASE cw_anime = NoEntry
      BY <1>11, <3>1 DEF UpdateEpisode, TypeOK
    <3>2. CASE cw_anime # NoEntry
      <4> DEFINE done == cw_episode = Episodes[cw_anime] /\ Episodes[cw_anime] # 0
                 now == [progress |-> cw_episode,
                         status |-> IF done THEN "completed" ELSE local[cw_anime].status]
                 sent == IF done THEN "completed" ELSE "watching"
                 told == [now EXCEPT !.status = sent]
      <4>1. cw_anime \in anime_list /\ cw_anime \in Entry /\ local[cw_anime] \in Data
        BY <3>2 DEF TypeOK
      <4>2. now \in Data /\ told \in Data /\ (sent # now.status) \in BOOLEAN
        BY <4>1 DEF Data, Status, TypeOK
      <4>3. /\ local' = [local EXCEPT ![cw_anime] = now]
            /\ Send(Put(cw_anime, told, Field), sent # now.status)
            /\ corrupt' = corrupt
            /\ waiting' = Append(waiting, Updating)
        BY <1>11, <3>2 DEF UpdateEpisode
      <4> HIDE DEF now, told, sent
      <4>4. Field \in SUBSET Field
        OBVIOUS
      <4>5. waiting' \in Seq(Title \cup {Updating})
        BY <4>3 DEF TypeOK
      <4> QED
        BY <4>1, <4>2, <4>3, <4>4, <4>5, SendType DEF TypeOK
    <3> QED
      BY <3>1, <3>2
  <2>2. \A a \in fetch'.todo : fetch'.answer[a] \in Data
    BY <2>1 DEF TypeOK
  <2>3. UNCHANGED <<playing, enabled, currently_watching, cw_anime, cw_episode,
                    aliases, anime_list, update_offset, panel, fetches, server,
                    acts, edits, reentered, removed, forgotten, touched>>
        /\ watch_timer' \in BOOLEAN /\ settled' \in BOOLEAN
    BY <1>11 DEF UpdateEpisode
  <2> QED
    BY <2>1, <2>2, <2>3 DEF TypeOK
<1>22. CASE UpdateReturns
  <2>1. waiting' \in Seq(Title \cup {Updating}) /\ corrupt' \in BOOLEAN
    BY <1>22, StackTop DEF UpdateReturns, TypeOK
  <2>2. UNCHANGED <<playing, enabled, currently_watching, cw_anime, cw_episode,
                    watch_timer, aliases, anime_list, local, update_offset, panel,
                    fetch, fetches, server, requests, acts, edits, settled, reentered,
                    removed, forgotten, touched, suspect>>
    BY <1>22 DEF UpdateReturns
  <2> QED
    BY <2>1, <2>2 DEF TypeOK
<1>12. ASSUME NEW t \in Title \cup {NoTitle}, Play(t) PROVE TypeOK'
  BY <1>12 DEF Play, TypeOK
<1>13. ASSUME UserActs PROVE acts' \in 0..MaxActs /\ edits' = edits
  <2>1. acts \in 0..MaxActs /\ MaxActs \in Nat
    BY RecognitionAssumption DEF TypeOK
  <2> QED
    BY <1>13, <2>1 DEF UserActs
<1>14. CASE CancelUpdate
  <2>1. acts' \in 0..MaxActs /\ edits' = edits
    BY <1>13, <1>14 DEF CancelUpdate
  <2>2. watch_timer' \in BOOLEAN /\ settled' \in BOOLEAN
    BY <1>14 DEF CancelUpdate
  <2>3. UNCHANGED <<playing, enabled, currently_watching, cw_anime, cw_episode,
                    waiting, aliases, anime_list, local, update_offset, panel,
                    fetch, fetches, server, requests, corrupt, reentered,
                    removed, forgotten, touched, suspect>>
    BY <1>14 DEF CancelUpdate
  <2> QED
    BY <2>1, <2>2, <2>3 DEF TypeOK
<1>15. CASE ToggleRecognition
  BY <1>13, <1>15 DEF ToggleRecognition, TypeOK
<1>16. ASSUME NEW s \in SUBSET Title, ReloadSmartTitles(s) PROVE TypeOK'
  BY <1>13, <1>16 DEF ReloadSmartTitles, TypeOK
<1>17. ASSUME NEW a \in Entry, OpenPanel(a) PROVE TypeOK'
  <2>1. a \in anime_list /\ local[a] \in Data /\ InRange(a, local[a].progress) \in Int
    BY <1>17, RecognitionAssumption DEF OpenPanel, InRange, TypeOK, Data
  <2>2. [local[a] EXCEPT !.progress = InRange(a, @)] \in Data
    BY <2>1 DEF Data
  <2>3. panel' \in [open : BOOLEAN, entry : anime_list \cup {NoEntry},
                   shown : Data \cup {Deleted}] /\ panel'.shown \in Data
    BY <1>17, <2>1, <2>2 DEF OpenPanel
  <2>4. Acts
    BY <1>17, CountEdits DEF OpenPanel
  <2> QED
    BY <1>17, <2>3, <2>4 DEF OpenPanel, TypeOK, Acts
<1>18. ASSUME NEW a \in Entry, DeleteEntry(a) PROVE TypeOK'
  <2>1. /\ requests' \in SUBSET Request
        /\ fetch' \in [todo : SUBSET Entry, answer : [Entry -> Data \cup {Deleted}],
                       outdated : SUBSET Entry]
        /\ fetch'.todo = fetch.todo /\ fetch'.answer = fetch.answer
        /\ suspect' \in SUBSET Entry
    <3>1. Send(Put(a, Deleted, {}), FALSE) /\ {} \in SUBSET Field /\ Deleted \in Data \cup {Deleted}
      BY <1>18 DEF DeleteEntry
    <3> QED
      BY <3>1, SendType
  <2>2. /\ local' \in [Entry -> Data \cup {Deleted}]
        /\ anime_list' \in SUBSET Entry
        /\ \A b \in anime_list' : local'[b] \in Data
    BY <1>18 DEF DeleteEntry, TypeOK
  <2>3. cw_anime' \in anime_list' \cup {NoEntry} /\ removed' \in BOOLEAN
    BY <1>18 DEF DeleteEntry, TypeOK
  <2>4. panel' \in [open : BOOLEAN, entry : anime_list' \cup {NoEntry},
                   shown : Data \cup {Deleted}] /\ (panel'.open => panel'.shown \in Data)
    BY <1>18 DEF DeleteEntry, TypeOK
  <2>5. \A b \in fetch'.todo : fetch'.answer[b] \in Data
    BY <2>1 DEF TypeOK
  <2>6. acts' \in 0..MaxActs /\ edits' = edits
    BY <1>13, <1>18 DEF DeleteEntry
  <2> QED
    BY <1>18, <2>1, <2>2, <2>3, <2>4, <2>5, <2>6 DEF DeleteEntry, TypeOK
<1>19. NoPanel \in [open : BOOLEAN, entry : {NoEntry}, shown : Data \cup {Deleted}]
       /\ ~NoPanel.open
  BY DEF NoPanel
<1>20. ASSUME IdleAccept, Acts PROVE TypeOK'
  <2>1. corrupt' \in BOOLEAN
    BY <1>20 DEF IdleAccept, TypeOK
  <2>2. panel' \in [open : BOOLEAN, entry : anime_list' \cup {NoEntry},
                   shown : Data \cup {Deleted}] /\ ~panel'.open
    BY <1>19, <1>20 DEF IdleAccept
  <2> QED
    BY <1>20, <2>1, <2>2 DEF IdleAccept, Acts, TypeOK
<1>21. ASSUME Edits, Acts PROVE TypeOK'
  <2>1. PICK a \in anime_list, d \in Data, f \in SUBSET Field : EditStep(a, d, f)
    BY <1>21 DEF Edits
  <2>2. a \in Entry /\ Send(Put(a, d, f), FALSE)
    BY <2>1 DEF EditStep, Edit, TypeOK
  <2>3. /\ requests' \in SUBSET Request
        /\ fetch' \in [todo : SUBSET Entry, answer : [Entry -> Data \cup {Deleted}],
                       outdated : SUBSET Entry]
        /\ fetch'.todo = fetch.todo /\ fetch'.answer = fetch.answer
        /\ suspect' \in SUBSET Entry
    BY <2>2, SendType
  <2>4. /\ local' \in [Entry -> Data \cup {Deleted}]
        /\ \A b \in anime_list' : local'[b] \in Data
    BY <2>1 DEF EditStep, Edit, TypeOK
  <2>5. touched' \in BOOLEAN
    BY <2>1 DEF EditStep, Edit, TypeOK
  <2>6. \A b \in fetch'.todo : fetch'.answer[b] \in Data
    BY <2>3 DEF TypeOK
  <2>7. panel' \in [open : BOOLEAN, entry : anime_list' \cup {NoEntry},
                   shown : Data \cup {Deleted}] /\ (panel'.open => panel'.shown \in Data)
    BY <1>19, <2>1 DEF EditStep, TypeOK
  <2> QED
    BY <1>21, <2>1, <2>3, <2>4, <2>5, <2>6, <2>7 DEF EditStep, Acts, TypeOK
<1> QED
  BY <1>1, <1>2, <1>3, <1>4, <1>5, <1>7, <1>8, <1>9, <1>10, <1>11, <1>12, <1>14,
     <1>15, <1>16, <1>17, <1>18, <1>20, <1>21, <1>22, Steps

(* Every variable keeps its type.                                           *)
THEOREM TypeCorrect == Spec => []TypeOK
<1>1. Init => TypeOK
  BY InitType
<1>2. TypeOK /\ [Next]_vars => TypeOK'
  BY StepType
<1> QED
  BY <1>1, <1>2, PTL DEF Spec

-----------------------------------------------------------------------------
(* What a pending update is for.  While no watch() was entered inside       *)
(* another one, at most one waits for a search, and it is the one whose     *)
(* title and episode the members cw_episode and currently_watching hold.    *)
Searches == {i \in 1..Len(waiting) : waiting[i] # Updating}

SearchInv ==
    ~reentered /\ Searches # {} =>
        /\ ~watch_timer
        /\ ~settled
        /\ \A i \in Searches : Searches = {i} /\ waiting[i] = currently_watching
        /\ currently_watching \in Title
        /\ cw_episode = Episode[currently_watching]

(* What the timer, an update that waits and the panel point to exists; a    *)
(* search waits above an update only if watch() took cw_anime from it.      *)
PointerInv ==
    /\ watch_timer /\ ~reentered /\ ~removed => cw_anime # NoEntry
    /\ IsWaiting(Updating) /\ ~removed /\ ~forgotten =>
          /\ cw_anime # NoEntry
          /\ \A i, j \in 1..Len(waiting) :
                i < j /\ waiting[i] = Updating => waiting[j] = Updating
    /\ panel.open /\ ~removed => panel.entry # NoEntry

PendingInv ==
    /\ PendingUpdateIsWhatPlays
    /\ PendingUpdateRaises
    /\ SearchInv
    /\ PointerInv
    /\ CorruptHasACause

(* The calls that wait, after one more began and after the last returned.   *)
LEMMA Waits ==
    ASSUME TypeOK, NEW c PROVE IsWaiting(c) <=> \E i \in 1..Len(waiting) : waiting[i] = c
<1>1. DOMAIN waiting = 1..Len(waiting)
  BY DEF TypeOK
<1> QED
  BY <1>1 DEF IsWaiting, Range

LEMMA SearchesWait == TypeOK => (Searching <=> Searches # {})
<1> SUFFICES ASSUME TypeOK PROVE Searching <=> Searches # {}
  OBVIOUS
<1>1. \A i \in 1..Len(waiting) : waiting[i] \in Title <=> waiting[i] # Updating
  BY RecognitionAssumption DEF TypeOK, Updating
<1>2. Searching <=> \E t \in Title : \E i \in 1..Len(waiting) : waiting[i] = t
  BY Waits DEF Searching
<1> QED
  BY <1>1, <1>2 DEF Searches

LEMMA Pushed ==
    ASSUME TypeOK, TypeOK', NEW c \in Title \cup {Updating}, waiting' = Append(waiting, c)
    PROVE  /\ Len(waiting) \in Nat /\ Len(waiting') = Len(waiting) + 1
           /\ waiting'[Len(waiting) + 1] = c
           /\ \A i \in 1..Len(waiting) : waiting'[i] = waiting[i]
           /\ Searches' = Searches \cup (IF c = Updating THEN {} ELSE {Len(waiting) + 1})
           /\ IsWaiting(Updating)' <=> IsWaiting(Updating) \/ c = Updating
<1>1. /\ Len(waiting) \in Nat /\ Len(waiting') = Len(waiting) + 1
      /\ waiting'[Len(waiting) + 1] = c
      /\ \A i \in 1..Len(waiting) : waiting'[i] = waiting[i]
  BY DEF TypeOK
<1>2. Searches' = Searches \cup (IF c = Updating THEN {} ELSE {Len(waiting) + 1})
  BY <1>1 DEF Searches
<1>3. IsWaiting(Updating) <=> \E i \in 1..Len(waiting) : waiting[i] = Updating
  BY Waits
<1>4. IsWaiting(Updating)' <=> \E i \in 1..Len(waiting') : waiting'[i] = Updating
  <2>1. DOMAIN waiting' = 1..Len(waiting')
    BY DEF TypeOK
  <2> QED
    BY <2>1 DEF IsWaiting, Range
<1> QED
  BY <1>1, <1>2, <1>3, <1>4

LEMMA Popped ==
    ASSUME TypeOK, TypeOK', waiting # <<>>, waiting' = Front(waiting)
    PROVE  /\ Len(waiting) \in Nat \ {0} /\ Len(waiting') = Len(waiting) - 1
           /\ Last(waiting) = waiting[Len(waiting)]
           /\ \A i \in 1..Len(waiting') : waiting'[i] = waiting[i]
           /\ Searches' = Searches \ {Len(waiting)}
           /\ IsWaiting(Updating)' => IsWaiting(Updating)
<1>1. /\ Len(waiting) \in Nat \ {0} /\ Len(waiting') = Len(waiting) - 1
      /\ Last(waiting) = waiting[Len(waiting)]
      /\ \A i \in 1..(Len(waiting) - 1) : waiting'[i] = waiting[i]
  <2>1. waiting \in Seq(Title \cup {Updating})
    BY DEF TypeOK
  <2> QED
    BY <2>1, StackTop
<1>2. Searches' = Searches \ {Len(waiting)}
  BY <1>1 DEF Searches
<1>3. IsWaiting(Updating) <=> \E i \in 1..Len(waiting) : waiting[i] = Updating
  BY Waits
<1>4. IsWaiting(Updating)' <=> \E i \in 1..Len(waiting') : waiting'[i] = Updating
  <2>1. DOMAIN waiting' = 1..Len(waiting')
    BY DEF TypeOK
  <2> QED
    BY <2>1 DEF IsWaiting, Range
<1> QED
  BY <1>1, <1>2, <1>3, <1>4

(* What the stack of the calls decides stays as long as the stack does.     *)
LEMMA SameStack ==
    ASSUME waiting' = waiting
    PROVE  Searches' = Searches /\ (IsWaiting(Updating)' <=> IsWaiting(Updating))
BY DEF Searches, IsWaiting

LEMMA InitPending == Init => PendingInv
<1> SUFFICES ASSUME Init PROVE PendingInv
  OBVIOUS
<1>1. Searches = {} /\ ~IsWaiting(Updating)
  BY DEF Init, Searches, IsWaiting, Range
<1> QED
BY <1>1 DEF Init, NoPanel, PendingInv, PendingUpdateIsWhatPlays, PendingUpdateRaises,
       SearchInv, PointerInv, CorruptHasACause

(* A step that leaves what the invariant speaks of alone.                   *)
LEMMA PendingFrame ==
    ASSUME PendingInv,
           UNCHANGED <<watchVars, settled, reentered, removed, forgotten, corrupt, panel>>,
           cw_anime # NoEntry /\ touched' = touched
               => local'[cw_anime].progress = local[cw_anime].progress,
           touched => touched', touched \in BOOLEAN, touched' \in BOOLEAN
    PROVE  PendingInv'
BY SameStack DEF watchVars, PendingInv, PendingUpdateIsWhatPlays, PendingUpdateRaises,
       SearchInv, PointerInv, CorruptHasACause

LEMMA StepPending == TypeOK /\ PendingInv /\ Next => PendingInv'
<1> SUFFICES ASSUME TypeOK, PendingInv, Next PROVE PendingInv'
  OBVIOUS
<1> USE DEF watchVars, listVars, fetchVars, ghostVars
<1>19. TypeOK'
  BY StepType
<1>0. touched \in BOOLEAN /\ touched' \in BOOLEAN
  BY <1>19 DEF TypeOK
<1>1. corrupt = FALSE
  BY NothingAfterCorruption
<1>2. ASSUME NEW r \in requests, Deliver(r) \/ Lose(r) PROVE PendingInv'
  BY <1>0, <1>2, PendingFrame DEF Deliver, Lose
<1>3. CASE FetchAnswered
  BY <1>0, <1>3, PendingFrame DEF FetchAnswered
<1>4. ASSUME NEW a \in Entry, CopyEntry(a) PROVE PendingInv'
  <2>1. /\ local' = [local EXCEPT ![a] = fetch.answer[a]]
        /\ UNCHANGED <<watchVars, settled, reentered, removed, forgotten, corrupt, panel>>
        /\ touched' = (touched \/ a = cw_anime)
    BY <1>4 DEF CopyEntry
  <2>2. cw_anime # NoEntry /\ ~touched'
            => local'[cw_anime].progress = local[cw_anime].progress
    <3> SUFFICES ASSUME cw_anime # NoEntry, ~touched'
                 PROVE  local'[cw_anime] = local[cw_anime]
      OBVIOUS
    <3>1. cw_anime # a /\ cw_anime \in Entry
      BY <2>1 DEF TypeOK
    <3> QED
      BY <2>1, <3>1 DEF TypeOK
  <2>3. PendingUpdateRaises'
    BY <2>1, <2>2 DEF PendingInv, PendingUpdateRaises
  <2> QED
    BY <2>1, <2>3, SameStack DEF PendingInv, PendingUpdateIsWhatPlays, SearchInv,
                      PointerInv, CorruptHasACause
<1>5. CASE WatchNothing
  <2>1. /\ currently_watching' = playing /\ settled' = FALSE /\ watch_timer' = FALSE
        /\ reentered' = Searching /\ waiting' = waiting
        /\ UNCHANGED <<panel, corrupt, removed, forgotten, cw_anime>>
    BY <1>5 DEF WatchNothing, NewTitle
  <2>2. ~reentered' => Searches' = {}
    BY <2>1, SameStack, SearchesWait
  <2>3. PointerInv'
    BY <2>1, SameStack DEF PendingInv, PointerInv
  <2> QED
    BY <1>1, <2>1, <2>2, <2>3
       DEF PendingInv, PendingUpdateIsWhatPlays, PendingUpdateRaises, SearchInv,
           CorruptHasACause
<1>6. CASE WatchKnown
  <2> DEFINE a == Known(playing)
             e == Episode[playing] - OffsetFor(playing)
  <2>1. playing \in Title /\ Episode[playing] \in Nat /\ playing # NoTitle
    BY <1>6, RecognitionAssumption DEF WatchKnown, Watchable
  <2>2. a \in anime_list /\ a # NoEntry /\ OffsetFor(playing) \in Nat
    BY <1>6, <2>1, KnownType DEF WatchKnown
  <2>3. a \in {Alias[playing], Names[playing]}
    BY <2>2 DEF Known
  <2>4. Decide(a, e, FALSE)
    BY <1>6 DEF WatchKnown
  <2>5. /\ currently_watching' = playing /\ settled' = FALSE
        /\ reentered' = Searching /\ waiting' = waiting
        /\ UNCHANGED <<local, panel, corrupt, removed, forgotten>>
    BY <1>6 DEF WatchKnown, NewTitle
  <2>6. e \in Int /\ e <= Episode[playing] /\ local[a].progress \in Int
    BY <2>1, <2>2 DEF TypeOK, Data
  <2> HIDE DEF a, e
  <2>7. cw_anime' = a /\ cw_episode' = e
        /\ (watch_timer' => local[a].progress < e)
    BY <2>4, <2>6 DEF Decide
  <2>8. ~reentered' => Searches' = {}
    BY <2>5, SameStack, SearchesWait
  <2>9. PointerInv'
    BY <2>2, <2>5, <2>7, SameStack DEF PendingInv, PointerInv
  <2> QED
    BY <1>1, <2>1, <2>2, <2>3, <2>5, <2>6, <2>7, <2>8, <2>9
       DEF PendingInv, PendingUpdateIsWhatPlays, PendingUpdateRaises, SearchInv,
           CorruptHasACause
<1>7. CASE WatchUnknown
  <2>1. playing \in Title /\ playing # Updating
    BY <1>7, RecognitionAssumption DEF WatchUnknown, Watchable, Updating
  <2>2. /\ currently_watching' = playing /\ settled' = FALSE /\ watch_timer' = FALSE
        /\ reentered' = Searching /\ waiting' = Append(waiting, playing)
        /\ cw_episode' = Episode[playing]
        /\ forgotten' = (forgotten \/ IsWaiting(Updating))
        /\ UNCHANGED <<panel, corrupt, removed>>
    BY <1>7 DEF WatchUnknown, NewTitle
  <2>3. /\ Searches' = Searches \cup {Len(waiting) + 1}
        /\ waiting'[Len(waiting) + 1] = playing
        /\ IsWaiting(Updating)' <=> IsWaiting(Updating)
    BY <1>19, <2>1, <2>2, Pushed
  <2>4. ~reentered' => Searches' = {Len(waiting) + 1}
    BY <2>2, <2>3, SearchesWait
  <2>5. PointerInv'
    BY <2>2, <2>3 DEF PendingInv, PointerInv
  <2>6. SearchInv'
    BY <2>1, <2>2, <2>3, <2>4 DEF SearchInv
  <2> QED
    BY <1>1, <2>2, <2>5, <2>6
       DEF PendingInv, PendingUpdateIsWhatPlays, PendingUpdateRaises, CorruptHasACause
<1>8. CASE SearchReturns
  <2>1. /\ UNCHANGED <<currently_watching, local, panel, corrupt, settled, reentered,
                       removed, forgotten>>
        /\ waiting # <<>> /\ Last(waiting) # Updating
        /\ waiting' = Front(waiting)
    BY <1>8 DEF SearchReturns
  <2>0. /\ Len(waiting) \in Nat \ {0} /\ Len(waiting') = Len(waiting) - 1
        /\ Last(waiting) = waiting[Len(waiting)]
        /\ \A i \in 1..Len(waiting') : waiting'[i] = waiting[i]
        /\ Searches' = Searches \ {Len(waiting)}
        /\ IsWaiting(Updating)' => IsWaiting(Updating)
    BY <1>19, <2>1, Popped
  <2>4. Len(waiting) \in Searches
    BY <2>0, <2>1 DEF Searches
  <2>5. IsWaiting(Updating)' => removed \/ forgotten
    <3>1. IsWaiting(Updating) => \E i \in 1..Len(waiting) : waiting[i] = Updating
      BY Waits
    <3>2. ASSUME NEW i \in 1..Len(waiting), waiting[i] = Updating PROVE i < Len(waiting)
      BY <2>0, <2>1, <3>2
    <3> QED
      BY <2>0, <2>1, <3>1, <3>2 DEF PendingInv, PointerInv
  <2>2. CASE reentered
    BY <1>1, <2>1, <2>2, <2>5
       DEF PendingInv, PendingUpdateIsWhatPlays, PendingUpdateRaises,
           SearchInv, PointerInv, CorruptHasACause
  <2>3. CASE ~reentered
    <3> DEFINE t == currently_watching
    <3>1. ~watch_timer /\ ~settled /\ t \in Title /\ cw_episode = Episode[t]
      BY <2>3, <2>4 DEF PendingInv, SearchInv
    <3>2. Searches' = {} /\ Last(waiting) = t
      BY <2>0, <2>3, <2>4 DEF PendingInv, SearchInv
    <3>3. PICK a \in SearchResults(t) :
            IF a = NoEntry
            THEN cw_anime' = NoEntry /\ UNCHANGED <<cw_episode, watch_timer, touched>>
            ELSE Decide(a, cw_episode - update_offset[a], watch_timer)
      BY <1>8, <3>2 DEF SearchReturns
    <3>4. CASE a = NoEntry
      BY <1>1, <2>1, <2>3, <2>5, <3>1, <3>2, <3>3, <3>4
         DEF PendingInv, PendingUpdateIsWhatPlays, PendingUpdateRaises, SearchInv,
             PointerInv, CorruptHasACause
    <3>5. CASE a # NoEntry
      <4>1. a \in anime_list /\ a \in Entry /\ a \in {Found[t]} \cup Untitled
        BY <3>1, <3>5, SearchType
      <4>2. update_offset[a] \in Nat /\ local[a].progress \in Int /\ Episode[t] \in Nat
        BY <3>1, <4>1, RecognitionAssumption DEF TypeOK, Data
      <4> DEFINE e == Episode[t] - update_offset[a]
      <4>3. e \in Int /\ e <= Episode[t] /\ Decide(a, e, watch_timer)
        BY <3>1, <3>3, <3>5, <4>2
      <4> HIDE DEF e
      <4>4. cw_anime' = a /\ cw_episode' = e
            /\ (watch_timer' => local[a].progress < e)
        BY <3>1, <4>2, <4>3 DEF Decide
      <4>5. t # NoTitle
        BY <3>1, RecognitionAssumption
      <4> QED
        BY <1>1, <2>1, <2>3, <2>5, <3>1, <3>2, <3>5, <4>1, <4>3, <4>4, <4>5
           DEF PendingInv, PendingUpdateIsWhatPlays, PendingUpdateRaises, SearchInv,
               PointerInv, CorruptHasACause
    <3> QED
      BY <3>4, <3>5
  <2> QED
    BY <2>2, <2>3 DEF TypeOK
<1>9. CASE UpdateEpisode
  <2>1. /\ watch_timer /\ watch_timer' = FALSE
        /\ UNCHANGED <<currently_watching, cw_anime, panel, reentered, removed, forgotten>>
        /\ (cw_anime # NoEntry => corrupt' = corrupt /\ waiting' = Append(waiting, Updating))
        /\ (cw_anime = NoEntry => waiting' = waiting)
    BY <1>9 DEF UpdateEpisode
  <2>2. Searches = {} \/ reentered
    BY <2>1 DEF PendingInv, SearchInv
  <2>3. corrupt' => removed \/ reentered
    BY <1>1, <2>1 DEF PendingInv, PointerInv
  <2>4. CASE cw_anime = NoEntry
    BY <2>1, <2>2, <2>3, <2>4, SameStack
       DEF PendingInv, PendingUpdateIsWhatPlays, PendingUpdateRaises, SearchInv,
           PointerInv, CorruptHasACause
  <2>5. CASE cw_anime # NoEntry
    <3>1. /\ Len(waiting) \in Nat /\ Len(waiting') = Len(waiting) + 1
          /\ waiting'[Len(waiting) + 1] = Updating
          /\ \A i \in 1..Len(waiting) : waiting'[i] = waiting[i]
          /\ Searches' = Searches
      BY <1>19, <2>1, <2>5, Pushed
    <3>2. ASSUME ~removed, ~forgotten,
                 NEW i \in 1..Len(waiting'), NEW j \in 1..Len(waiting'),
                 i < j, waiting'[i] = Updating
          PROVE  waiting'[j] = Updating
      <4>1. CASE j = Len(waiting) + 1
        BY <3>1, <4>1
      <4>2. CASE j # Len(waiting) + 1
        <5>1. i \in 1..Len(waiting) /\ j \in 1..Len(waiting) /\ waiting[i] = Updating
          BY <3>1, <3>2, <4>2
        <5>2. IsWaiting(Updating)
          BY <5>1, Waits
        <5> QED
          BY <3>1, <3>2, <5>1, <5>2 DEF PendingInv, PointerInv
      <4> QED
        BY <4>1, <4>2
    <3>3. PointerInv'
      BY <2>1, <2>5, <3>2 DEF PendingInv, PointerInv
    <3> QED
      BY <2>1, <2>2, <2>3, <2>5, <3>1, <3>3
         DEF PendingInv, PendingUpdateIsWhatPlays, PendingUpdateRaises, SearchInv,
             CorruptHasACause
  <2> QED
    BY <2>4, <2>5
<1>20. CASE UpdateReturns
  <2>1. /\ waiting # <<>> /\ Last(waiting) = Updating /\ waiting' = Front(waiting)
        /\ (cw_anime # NoEntry => ~corrupt')
        /\ UNCHANGED <<currently_watching, cw_anime, cw_episode, watch_timer, local,
                       panel, settled, reentered, removed, forgotten, touched>>
    BY <1>20 DEF UpdateReturns
  <2>2. /\ Len(waiting) \in Nat \ {0} /\ Len(waiting') = Len(waiting) - 1
        /\ Last(waiting) = waiting[Len(waiting)]
        /\ \A i \in 1..Len(waiting') : waiting'[i] = waiting[i]
        /\ Searches' = Searches \ {Len(waiting)}
        /\ IsWaiting(Updating)' => IsWaiting(Updating)
    BY <1>19, <2>1, Popped
  <2>3. IsWaiting(Updating)
    BY <2>1, <2>2, Waits
  <2>4. corrupt' => removed \/ forgotten
    BY <2>1, <2>3 DEF PendingInv, PointerInv
  <2>5. PointerInv'
    BY <2>1, <2>2, <2>3 DEF PendingInv, PointerInv
  <2>6. Searches' = Searches /\ \A i \in Searches : waiting'[i] = waiting[i]
    BY <2>1, <2>2 DEF Searches
  <2>7. SearchInv'
    BY <2>1, <2>6 DEF PendingInv, SearchInv
  <2> QED
    BY <2>1, <2>4, <2>5, <2>7
       DEF PendingInv, PendingUpdateIsWhatPlays, PendingUpdateRaises, CorruptHasACause
<1>10. CASE CancelUpdate
  BY <1>10, SameStack DEF CancelUpdate, PendingInv, PendingUpdateIsWhatPlays,
               PendingUpdateRaises, SearchInv, PointerInv, CorruptHasACause
<1>11. ASSUME NEW t \in Title \cup {NoTitle}, Play(t) PROVE PendingInv'
  BY <1>0, <1>11, PendingFrame DEF Play
<1>12. CASE ToggleRecognition
  BY <1>0, <1>12, PendingFrame DEF ToggleRecognition
<1>13. ASSUME NEW s \in SUBSET Title, ReloadSmartTitles(s) PROVE PendingInv'
  BY <1>0, <1>13, PendingFrame DEF ReloadSmartTitles
<1>14. ASSUME NEW a \in Entry, OpenPanel(a) PROVE PendingInv'
  <2>1. panel'.entry = a /\ a # NoEntry
    BY <1>14, RecognitionAssumption DEF OpenPanel
  <2> QED
    BY <1>14, <2>1, SameStack DEF OpenPanel, PendingInv, PendingUpdateIsWhatPlays,
                       PendingUpdateRaises, SearchInv, PointerInv, CorruptHasACause
<1>15. ASSUME NEW a \in Entry, DeleteEntry(a) PROVE PendingInv'
  <2>1. /\ UNCHANGED <<currently_watching, cw_episode, watch_timer, waiting,
                       corrupt, settled, reentered, forgotten, touched>>
        /\ cw_anime' = (IF a = cw_anime THEN NoEntry ELSE cw_anime)
        /\ panel' = (IF a = panel.entry THEN [panel EXCEPT !.entry = NoEntry] ELSE panel)
        /\ removed' = (removed \/ a = panel.entry
                         \/ (a = cw_anime /\ (watch_timer \/ IsWaiting(Updating))))
        /\ local' = [local EXCEPT ![a] = Deleted]
    BY <1>15 DEF DeleteEntry
  <2>2. cw_anime' # NoEntry => cw_anime' = cw_anime /\ local'[cw_anime] = local[cw_anime]
    BY <2>1 DEF TypeOK
  <2>3. PointerInv'
    BY <2>1, SameStack DEF PendingInv, PointerInv, TypeOK
  <2>4. PendingUpdateIsWhatPlays'
    BY <2>1 DEF PendingInv, PendingUpdateIsWhatPlays
  <2>5. PendingUpdateRaises'
    BY <2>1, <2>2 DEF PendingInv, PendingUpdateRaises
  <2> QED
    BY <1>1, <2>1, <2>3, <2>4, <2>5, SameStack DEF PendingInv, SearchInv, CorruptHasACause
<1>16. NoPanel.open = FALSE
  BY DEF NoPanel
<1>17. CASE IdleAccept
  <2>1. /\ UNCHANGED <<watchVars, local, settled, reentered, removed, forgotten, touched>>
        /\ panel.open /\ panel' = NoPanel
        /\ (panel.entry # NoEntry => corrupt' = corrupt)
    BY <1>17 DEF IdleAccept
  <2>2. corrupt' => removed \/ reentered
    BY <1>1, <2>1 DEF PendingInv, PointerInv
  <2> QED
    BY <1>16, <2>1, <2>2, SameStack
       DEF PendingInv, PendingUpdateIsWhatPlays, PendingUpdateRaises, SearchInv,
           PointerInv, CorruptHasACause
<1>18. CASE Edits
  <2>1. PICK a \in anime_list, d \in Data, f \in SUBSET Field : EditStep(a, d, f)
    BY <1>18 DEF Edits
  <2>2. /\ UNCHANGED <<watchVars, corrupt, settled, reentered, removed, forgotten>>
        /\ panel' = panel \/ panel' = NoPanel
        /\ local' = [local EXCEPT ![a] = d]
        /\ touched' = (touched \/ (a = cw_anime /\ "progress" \in f))
        /\ (d.progress # local[a].progress => "progress" \in f)
    BY <2>1 DEF EditStep, Edit
  <2>3. cw_anime # NoEntry /\ ~touched'
            => local'[cw_anime].progress = local[cw_anime].progress
    BY <2>2 DEF TypeOK
  <2>4. PendingUpdateRaises'
    BY <2>2, <2>3 DEF PendingInv, PendingUpdateRaises
  <2> QED
    BY <1>16, <2>2, <2>4, SameStack DEF PendingInv, PendingUpdateIsWhatPlays, SearchInv,
                             PointerInv, CorruptHasACause
<1> QED
  BY <1>2, <1>3, <1>4, <1>5, <1>6, <1>7, <1>8, <1>9, <1>10, <1>11, <1>12, <1>13,
     <1>14, <1>15, <1>17, <1>18, <1>20, Steps

LEMMA StutterPending == TypeOK /\ PendingInv /\ UNCHANGED vars => PendingInv'
BY SameStack DEF vars, watchVars, listVars, ghostVars, PendingInv, PendingUpdateIsWhatPlays,
       PendingUpdateRaises, SearchInv, PointerInv, CorruptHasACause

LEMMA PendingInvariant == Spec => [](TypeOK /\ PendingInv)
<1>1. Init => TypeOK /\ PendingInv
  BY InitType, InitPending
<1>2. TypeOK /\ PendingInv /\ [Next]_vars => TypeOK' /\ PendingInv'
  BY StepType, StepPending, StutterPending
<1> QED
  BY <1>1, <1>2, PTL DEF Spec

(* While no two watch() calls were mixed up, a pending update is for the    *)
(* title that plays or played last, and the first one for this showing.     *)
THEOREM UpdatesWhatPlays == Spec => []PendingUpdateIsWhatPlays
<1>1. PendingInv => PendingUpdateIsWhatPlays
  BY DEF PendingInv
<1> QED
  BY <1>1, PendingInvariant, PTL

(* A pending update raises the progress unless somebody changed it since.   *)
THEOREM UpdatesRaise == Spec => []PendingUpdateRaises
<1>1. PendingInv => PendingUpdateRaises
  BY DEF PendingInv
<1> QED
  BY <1>1, PendingInvariant, PTL

(* Only a deletion under a pending update, one that waits for its answer or *)
(* an open panel, a search that begins while an update waits, or two        *)
(* watch() calls mixed up make the program use a null or deleted Anime.     *)
THEOREM InvalidUseHasACause == Spec => []CorruptHasACause
<1>1. PendingInv => CorruptHasACause
  BY DEF PendingInv
<1> QED
  BY <1>1, PendingInvariant, PTL

-----------------------------------------------------------------------------
(* The program and the server.  What makes agreement inductive: while one   *)
(* request about an unsuspected entry is under way it is the only one, and  *)
(* it turns the server's entry into the local one; and what a download      *)
(* still has to copy is what the server has, unless the entry is outdated.  *)
EntryAgrees(a) ==
    /\ a \notin InFlight => local[a] = server[a]
    /\ \A r \in requests :
          r.entry = a => /\ Answer(r, server[a]) = local[a]
                         /\ \A q \in requests : q.entry = a => q = r

AgreeInv ==
    /\ \A a \in anime_list \ suspect : EntryAgrees(a)
    /\ \A a \in fetch.todo \ fetch.outdated :
          a \notin InFlight /\ fetch.answer[a] = server[a]

LEMMA InitAgree == Init => AgreeInv
BY DEF Init, NoFetch, AgreeInv

LEMMA SameData ==
    ASSUME NEW d \in Data, NEW e \in Data, d.progress = e.progress, d.status = e.status
    PROVE  d = e
BY DEF Data

(* A request for an entry that is in agreement and about which none is      *)
(* under way keeps it so, if it names the fields that change.               *)
LEMMA SendKeepsAgreement ==
    ASSUME TypeOK, AgreeInv, server' = server, anime_list' = anime_list,
           NEW a \in anime_list, NEW d \in Data, NEW f \in SUBSET Field, NEW b \in BOOLEAN,
           NEW told \in Data, Send(Put(a, told, f), b),
           local' = [local EXCEPT ![a] = d],
           ~b => told = d,
           d.progress # local[a].progress => "progress" \in f,
           d.status # local[a].status => "status" \in f
    PROVE  AgreeInv'
<1> DEFINE r == Put(a, told, f)
<1>1. /\ r.entry = a /\ r.progress = told.progress /\ r.status = told.status
      /\ r.fields = f /\ r.status # "deleted"
  BY DeletedIsNoData DEF Put
<1> HIDE DEF r
<1>2. /\ requests' = requests \cup {r}
      /\ suspect' = IF b \/ a \in InFlight THEN suspect \cup {a} ELSE suspect
      /\ fetch' = IF fetch.todo = {} THEN fetch
                  ELSE [fetch EXCEPT !.outdated = @ \cup {a}]
  BY <1>1 DEF Send, r
<1>3. a \in Entry /\ local[a] \in Data /\ anime_list \subseteq Entry
  BY DEF TypeOK
<1>4. InFlight' = InFlight \cup {a}
  BY <1>1, <1>2 DEF InFlight
<1>5. ASSUME NEW c \in anime_list' \ suspect' PROVE EntryAgrees(c)'
  <2>1. c \in anime_list \ suspect
    BY <1>2, <1>5
  <2>2. EntryAgrees(c)
    BY <2>1 DEF AgreeInv
  <2>3. CASE c # a
    <3>1. local'[c] = local[c]
      BY <1>3, <2>1, <2>3 DEF TypeOK
    <3>2. \A q \in requests' : q.entry = c => q \in requests
      BY <1>1, <1>2, <2>3
    <3> QED
      BY <1>2, <1>4, <2>2, <2>3, <3>1, <3>2 DEF EntryAgrees, Answer
  <2>4. CASE c = a
    <3>1. ~b /\ a \notin InFlight
      BY <1>2, <1>5, <2>4
    <3>2. server[a] = local[a] /\ told = d /\ local'[a] = d
      BY <1>3, <2>2, <2>4, <3>1 DEF EntryAgrees, TypeOK
    <3>3. Answer(r, server[a]) \in Data
          /\ Answer(r, server[a]).progress = d.progress
          /\ Answer(r, server[a]).status = d.status
      <4>1. server[a].status # "deleted"
        BY <1>3, <3>2, DeletedIsNoData
      <4>2. Answer(r, server[a]) =
              [progress |-> IF "progress" \in f THEN d.progress ELSE local[a].progress,
               status   |-> IF "status" \in f THEN d.status ELSE local[a].status]
        BY <1>1, <3>2, <4>1 DEF Answer
      <4> QED
        BY <1>3, <4>2 DEF Data
    <3>4. Answer(r, server[a]) = d
      BY <3>3, SameData
    <3>5. \A q \in requests' : q.entry = a => q = r
      BY <1>2, <3>1 DEF InFlight
    <3>6. a \in InFlight'
      BY <1>4
    <3>7. \A q \in requests' : q.entry = a =>
             Answer(q, server'[a]) = local'[a] /\ \A p \in requests' : p.entry = a => p = q
      BY <3>2, <3>4, <3>5
    <3> QED
      BY <2>4, <3>6, <3>7 DEF EntryAgrees, Answer
  <2> QED
    BY <2>3, <2>4
<1>6. ASSUME NEW c \in fetch'.todo \ fetch'.outdated
      PROVE  c \notin InFlight' /\ fetch'.answer[c] = server'[c]
  <2>1. fetch.todo # {} /\ c # a /\ c \in fetch.todo \ fetch.outdated
        /\ fetch'.answer = fetch.answer
    BY <1>2, <1>6 DEF TypeOK
  <2> QED
    BY <1>4, <2>1 DEF AgreeInv
<1> QED
  BY <1>5, <1>6 DEF AgreeInv

(* A step that changes neither the requests nor the two copies.             *)
LEMMA AgreeFrame ==
    ASSUME AgreeInv, UNCHANGED <<anime_list, local, server, requests, fetch, suspect>>
    PROVE  AgreeInv'
BY DEF AgreeInv, EntryAgrees, InFlight, Answer

LEMMA StepAgree == TypeOK /\ AgreeInv /\ [Next]_vars => AgreeInv'
<1> SUFFICES ASSUME TypeOK, AgreeInv, [Next]_vars PROVE AgreeInv'
  OBVIOUS
<1> USE DEF watchVars, listVars, fetchVars, ghostVars
<1>1. CASE UNCHANGED vars
  BY <1>1, AgreeFrame DEF vars
<1>2. ASSUME NEW r \in requests, Deliver(r) PROVE AgreeInv'
  <2>1. /\ server' = [server EXCEPT ![r.entry] = Answer(r, server[r.entry])]
        /\ requests' = requests \ {r}
        /\ UNCHANGED <<anime_list, local, fetch, suspect>>
        /\ r.entry \in Entry
    BY <1>2 DEF Deliver, TypeOK, Request
  <2>2. ASSUME NEW a \in anime_list \ suspect PROVE EntryAgrees(a)'
    <3>1. EntryAgrees(a) /\ a \in Entry
      BY DEF AgreeInv, TypeOK
    <3>2. CASE r.entry = a
      <4>1. server'[a] = local[a]
        BY <2>1, <3>1, <3>2 DEF EntryAgrees, TypeOK
      <4>2. \A q \in requests' : q.entry # a
        BY <2>1, <3>1, <3>2 DEF EntryAgrees
      <4> QED
        BY <2>1, <4>1, <4>2 DEF EntryAgrees
    <3>3. CASE r.entry # a
      <4>1. server'[a] = server[a]
        BY <2>1, <3>1, <3>3 DEF TypeOK
      <4>2. a \in InFlight' <=> a \in InFlight
        BY <2>1, <3>3 DEF InFlight
      <4> QED
        BY <2>1, <3>1, <4>1, <4>2 DEF EntryAgrees, Answer
    <3> QED
      BY <3>2, <3>3
  <2>3. ASSUME NEW a \in fetch.todo \ fetch.outdated
        PROVE  a \notin InFlight' /\ fetch.answer[a] = server'[a]
    <3>1. a \notin InFlight /\ fetch.answer[a] = server[a] /\ a \in Entry
      BY DEF AgreeInv, TypeOK
    <3>2. r.entry # a
      BY <3>1 DEF InFlight
    <3> QED
      BY <2>1, <3>1, <3>2 DEF InFlight, TypeOK
  <2> QED
    BY <2>1, <2>2, <2>3 DEF AgreeInv
<1>3. ASSUME NEW r \in requests, Lose(r) PROVE AgreeInv'
  <2>1. /\ requests' = requests \ {r} /\ suspect' = suspect \cup {r.entry}
        /\ UNCHANGED <<anime_list, local, server, fetch>>
    BY <1>3 DEF Lose
  <2>2. ASSUME NEW a \in anime_list \ suspect' PROVE EntryAgrees(a)'
    <3>1. EntryAgrees(a) /\ r.entry # a
      BY <2>1, <2>2 DEF AgreeInv
    <3>2. a \in InFlight' <=> a \in InFlight
      BY <2>1, <3>1 DEF InFlight
    <3> QED
      BY <2>1, <3>1, <3>2 DEF EntryAgrees, Answer
  <2>3. InFlight' \subseteq InFlight
    BY <2>1 DEF InFlight
  <2> QED
    BY <2>1, <2>2, <2>3 DEF AgreeInv
<1>4. CASE FetchAnswered
  <2>1. /\ UNCHANGED <<anime_list, local, server, requests, suspect>>
        /\ fetch'.outdated = InFlight /\ fetch'.answer = server
    BY <1>4 DEF FetchAnswered
  <2>2. InFlight' = InFlight
    BY <2>1 DEF InFlight
  <2>3. \A a \in anime_list \ suspect : EntryAgrees(a)'
    BY <2>1, <2>2 DEF AgreeInv, EntryAgrees, Answer
  <2> QED
    BY <2>1, <2>2, <2>3 DEF AgreeInv
<1>5. ASSUME NEW a \in Entry, CopyEntry(a) PROVE AgreeInv'
  <2>1. /\ local' = [local EXCEPT ![a] = fetch.answer[a]]
        /\ anime_list' = anime_list \cup {a}
        /\ fetch' = (IF fetch.todo = {a} THEN NoFetch ELSE [fetch EXCEPT !.todo = @ \ {a}])
        /\ suspect' = (IF a \in fetch.outdated THEN suspect \cup {a} ELSE suspect \ {a})
        /\ UNCHANGED <<server, requests>> /\ a \in fetch.todo
    BY <1>5 DEF CopyEntry
  <2>2. InFlight' = InFlight
    BY <2>1 DEF InFlight
  <2>3. ASSUME NEW c \in anime_list' \ suspect' PROVE EntryAgrees(c)'
    <3>1. CASE c = a
      <4>1. a \notin InFlight /\ fetch.answer[a] = server[a]
        BY <2>1, <2>3, <3>1 DEF AgreeInv
      <4>2. local'[a] = server[a]
        BY <2>1, <4>1 DEF TypeOK
      <4> QED
        BY <2>1, <2>2, <3>1, <4>1, <4>2 DEF EntryAgrees, InFlight
    <3>2. CASE c # a
      <4>1. c \in anime_list \ suspect /\ c \in Entry
        BY <2>1, <2>3, <3>2 DEF TypeOK
      <4>2. EntryAgrees(c) /\ local'[c] = local[c]
        BY <2>1, <3>2, <4>1 DEF AgreeInv, TypeOK
      <4> QED
        BY <2>1, <2>2, <4>2 DEF EntryAgrees, Answer
    <3> QED
      BY <3>1, <3>2
  <2>4. \A c \in fetch'.todo \ fetch'.outdated :
           c \in fetch.todo \ fetch.outdated /\ fetch'.answer = fetch.answer
    BY <2>1 DEF NoFetch, TypeOK
  <2>5. \A c \in fetch'.todo \ fetch'.outdated :
           c \notin InFlight' /\ fetch'.answer[c] = server'[c]
    BY <2>1, <2>2, <2>4 DEF AgreeInv
  <2> QED
    BY <2>3, <2>5 DEF AgreeInv
<1>6. CASE WatchNothing \/ WatchKnown \/ WatchUnknown
  BY <1>6, AgreeFrame DEF WatchNothing, WatchKnown, WatchUnknown, NewTitle
<1>7. CASE SearchReturns \/ UpdateReturns
  BY <1>7, AgreeFrame DEF SearchReturns, UpdateReturns
<1>8. CASE UpdateEpisode
  <2>1. CASE cw_anime = NoEntry
    BY <1>8, <2>1, AgreeFrame DEF UpdateEpisode
  <2>2. CASE cw_anime # NoEntry
    <3> DEFINE done == cw_episode = Episodes[cw_anime] /\ Episodes[cw_anime] # 0
               now == [progress |-> cw_episode,
                       status |-> IF done THEN "completed" ELSE local[cw_anime].status]
               sent == IF done THEN "completed" ELSE "watching"
               told == [now EXCEPT !.status = sent]
    <3>1. cw_anime \in anime_list /\ local[cw_anime] \in Data
      BY <2>2 DEF TypeOK
    <3>2. now \in Data /\ told \in Data /\ (sent # now.status) \in BOOLEAN
      BY <3>1 DEF Data, Status, TypeOK
    <3>3. sent = now.status => told = now
      OBVIOUS
    <3>4. /\ local' = [local EXCEPT ![cw_anime] = now]
          /\ Send(Put(cw_anime, told, Field), sent # now.status)
          /\ server' = server /\ anime_list' = anime_list
      BY <1>8, <2>2 DEF UpdateEpisode
    <3>5. Field \in SUBSET Field /\ "progress" \in Field /\ "status" \in Field
      BY DEF Field
    <3> HIDE DEF now, told, sent
    <3> QED
      BY <3>1, <3>2, <3>3, <3>4, <3>5, SendKeepsAgreement
  <2> QED
    BY <2>1, <2>2
<1>9. ASSUME NEW t \in Title \cup {NoTitle}, Play(t) PROVE AgreeInv'
  BY <1>9, AgreeFrame DEF Play
<1>10. CASE CancelUpdate \/ ToggleRecognition
  BY <1>10, AgreeFrame DEF CancelUpdate, ToggleRecognition
<1>11. ASSUME NEW s \in SUBSET Title, ReloadSmartTitles(s) PROVE AgreeInv'
  BY <1>11, AgreeFrame DEF ReloadSmartTitles
<1>12. ASSUME NEW a \in Entry, OpenPanel(a) PROVE AgreeInv'
  BY <1>12, AgreeFrame DEF OpenPanel
<1>13. ASSUME NEW a \in Entry, DeleteEntry(a) PROVE AgreeInv'
  <2> DEFINE r == Put(a, Deleted, {})
  <2>1. r.entry = a
    BY DEF Put
  <2> HIDE DEF r
  <2>2. /\ anime_list' = anime_list \ {a}
        /\ local' = [local EXCEPT ![a] = Deleted]
        /\ requests' = requests \cup {r}
        /\ suspect \subseteq suspect'
        /\ fetch' = (IF fetch.todo = {} THEN fetch
                     ELSE [fetch EXCEPT !.outdated = @ \cup {a}])
        /\ server' = server
    BY <1>13, <2>1 DEF DeleteEntry, Send, r
  <2>3. InFlight' = InFlight \cup {a}
    BY <2>1, <2>2 DEF InFlight
  <2>4. ASSUME NEW c \in anime_list' \ suspect' PROVE EntryAgrees(c)'
    <3>1. c # a /\ c \in anime_list \ suspect
      BY <2>2, <2>4
    <3>2. EntryAgrees(c) /\ local'[c] = local[c]
      BY <2>2, <3>1 DEF AgreeInv, TypeOK
    <3>3. \A q \in requests' : q.entry = c => q \in requests
      BY <2>1, <2>2, <3>1
    <3> QED
      BY <2>2, <2>3, <3>1, <3>2, <3>3 DEF EntryAgrees, Answer
  <2>5. ASSUME NEW c \in fetch'.todo \ fetch'.outdated
        PROVE  c \notin InFlight' /\ fetch'.answer[c] = server'[c]
    <3>1. c # a /\ c \in fetch.todo \ fetch.outdated /\ fetch'.answer = fetch.answer
      BY <2>2, <2>5 DEF TypeOK
    <3> QED
      BY <2>2, <2>3, <3>1 DEF AgreeInv
  <2> QED
    BY <2>4, <2>5 DEF AgreeInv
<1>14. CASE IdleAccept
  BY <1>14, AgreeFrame DEF IdleAccept
<1>15. CASE Edits
  <2>1. PICK a \in anime_list, d \in Data, f \in SUBSET Field : EditStep(a, d, f)
    BY <1>15 DEF Edits
  <2>2. /\ server' = server /\ anime_list' = anime_list
        /\ local' = [local EXCEPT ![a] = d] /\ Send(Put(a, d, f), FALSE)
        /\ (d.progress # local[a].progress => "progress" \in f)
        /\ (d.status # local[a].status => "status" \in f)
    BY <2>1 DEF EditStep, Edit
  <2> QED
    BY <2>2, SendKeepsAgreement
<1> QED
  BY <1>1, <1>2, <1>3, <1>4, <1>5, <1>6, <1>7, <1>8, <1>9, <1>10, <1>11, <1>12,
     <1>13, <1>14, <1>15, Steps

LEMMA AgreeInvariant == Spec => [](TypeOK /\ AgreeInv)
<1>1. Init => TypeOK /\ AgreeInv
  BY InitType, InitAgree
<1>2. TypeOK /\ AgreeInv /\ [Next]_vars => TypeOK' /\ AgreeInv'
  BY StepType, StepAgree
<1> QED
  BY <1>1, <1>2, PTL DEF Spec

(* The program and the server agree about every entry that no lost,         *)
(* overtaken or crossed request made suspect and none is under way for.     *)
THEOREM ServerAgreement == Spec => []ListAgreesWithServer
<1>1. AgreeInv => ListAgreesWithServer
  BY DEF AgreeInv, EntryAgrees, ListAgreesWithServer
<1> QED
  BY <1>1, AgreeInvariant, PTL

-----------------------------------------------------------------------------
(* Downloads.  Only CopyEntry takes an entry off what is still to be copied. *)
LEMMA SendKeepsTodo ==
    ASSUME TypeOK, NEW r, NEW b, Send(r, b) PROVE fetch'.todo = fetch.todo
BY DEF Send, TypeOK

LEMMA OthersKeepTodo ==
    ASSUME TypeOK, [Next]_vars, ~\E a \in Entry : CopyEntry(a)
    PROVE  fetch'.todo = fetch.todo \/ fetch.todo = {}
<1>1. CASE UNCHANGED vars
  BY <1>1 DEF vars, fetchVars
<1>2. CASE \E r \in requests : Deliver(r) \/ Lose(r)
  BY <1>2 DEF Deliver, Lose, fetchVars
<1>3. CASE FetchAnswered
  BY <1>3 DEF FetchAnswered
<1>4. CASE WatchNothing \/ WatchKnown \/ WatchUnknown
  BY <1>4 DEF WatchNothing, WatchKnown, WatchUnknown, NewTitle, fetchVars
<1>5. CASE SearchReturns \/ UpdateReturns
  BY <1>5 DEF SearchReturns, UpdateReturns, fetchVars
<1>6. CASE UpdateEpisode
  BY <1>6, SendKeepsTodo DEF UpdateEpisode
<1>7. CASE \/ \E t \in Title \cup {NoTitle} : Play(t)
           \/ CancelUpdate \/ ToggleRecognition
           \/ \E s \in SUBSET Title : ReloadSmartTitles(s)
           \/ \E a \in Entry : OpenPanel(a)
           \/ IdleAccept
  BY <1>7 DEF Play, CancelUpdate, ToggleRecognition, ReloadSmartTitles, OpenPanel,
              IdleAccept, fetchVars
<1>8. CASE \E a \in Entry : DeleteEntry(a)
  BY <1>8, SendKeepsTodo DEF DeleteEntry
<1>9. CASE Edits
  BY <1>9, SendKeepsTodo DEF Edits, EditStep, Edit
<1> QED
  BY <1>1, <1>2, <1>3, <1>4, <1>5, <1>6, <1>7, <1>8, <1>9, Steps

(* A download leaves an entry alone that was in agreement with the server   *)
(* and that nothing changed since it was answered.                          *)
THEOREM DownloadsRepair == Spec => DownloadOnlyRepairs
<1>1. ASSUME TypeOK, AgreeInv, [Next]_vars, NEW a \in anime_list \cap fetch.todo,
             a \notin fetch'.todo, local'[a] # local[a]
      PROVE  a \in suspect \cup fetch.outdated
  <2>1. PICK b \in Entry : CopyEntry(b)
    BY <1>1, OthersKeepTodo
  <2>2. /\ local' = [local EXCEPT ![b] = fetch.answer[b]]
        /\ a \in Entry
    BY <1>1, <2>1 DEF CopyEntry, TypeOK
  <2>3. b = a
    BY <1>1, <2>2 DEF TypeOK
  <2>4. local'[a] = fetch.answer[a]
    BY <1>1, <2>2, <2>3 DEF TypeOK
  <2>5. a \notin suspect \cup fetch.outdated => local[a] = fetch.answer[a]
    BY <1>1 DEF AgreeInv, EntryAgrees
  <2> QED
    BY <1>1, <2>4, <2>5
<1>2. TypeOK /\ AgreeInv /\ [Next]_vars
      => [\A a \in anime_list \cap fetch.todo :
             a \notin fetch'.todo /\ local'[a] # local[a]
                 => a \in suspect \cup fetch.outdated]_vars
  BY <1>1
<1> QED
  BY <1>2, AgreeInvariant, PTL DEF Spec, DownloadOnlyRepairs

=============================================================================
