--------------------------- MODULE TorrentsProofs ---------------------------
(***************************************************************************)
(* Theorems about Torrents: the countdown of the torrents' refresh and the *)
(* context menu of the table; the rules survive, a torrent is downloaded   *)
(* once and is downloaded at all, and what makes a refresh or a menu fail. *)
(***************************************************************************)
EXTENDS Torrents, SequenceTheorems, FiniteSetTheorems, TLAPS

(* Each event loop is one of a refresh or of a menu.                        *)
RefreshLoop == [op : {"refresh"}, tick : BOOLEAN, answered : BOOLEAN,
                feed : Feeds \cup {<<>>}]
MenuLoop(l) == [op : {"menu"}, row : {l.row}, file : {l.file}, stale : BOOLEAN,
                open : BOOLEAN]
IsLoop(l) == l \in RefreshLoop \/ l \in MenuLoop(l)

LoopsOK ==
    /\ \E X : loops \in Seq(X)
    /\ \A i \in 1..Len(loops) : IsLoop(loops[i])

(* What the countdown relies on: a refresh that eventTick has started, of   *)
(* which there is one at most, finds the countdown above zero when it       *)
(* returns and counts it down once more, since nothing counts meanwhile.    *)
OneTick ==
    \A i, j \in 1..Len(loops) : IsTick(loops[i]) /\ IsTick(loops[j]) => i = j
TickAboveZero ==
    \A i \in 1..Len(loops) : IsTick(loops[i]) => torrent_refresh_time > 0 \/ zero

CountdownInv ==
    /\ LoopsOK
    /\ torrent_refresh_time \in Int
    /\ settings \in [interval : Interval, download : BOOLEAN]
    /\ OneTick
    /\ TickAboveZero
    /\ CountdownStopsOnlyAtZero

LEMMA CountdownInit == Init => CountdownInv
<1>1. SUFFICES ASSUME Init PROVE CountdownInv
  OBVIOUS
<1>2. loops = <<>>
  BY <1>1 DEF Init
<1>3. loops \in Seq({})
  BY <1>2
<1>4. Len(loops) = 0
  BY <1>2
<1>5. LoopsOK /\ OneTick /\ TickAboveZero
  BY <1>3, <1>4 DEF LoopsOK, OneTick, TickAboveZero
<1>6. /\ torrent_refresh_time \in Int
      /\ settings \in [interval : Interval, download : BOOLEAN]
      /\ CountdownStopsOnlyAtZero
  BY <1>1 DEF Init, CountdownStopsOnlyAtZero
<1>7. QED
  BY <1>5, <1>6 DEF CountdownInv

(* Steps that leave the countdown alone and bring no tick into the loops.   *)
LEMMA LoopsOnly ==
    ASSUME CountdownInv,
           LoopsOK',
           UNCHANGED timeVars,
           settings' \in [interval : Interval, download : BOOLEAN],
           \A i \in 1..Len(loops)' : IsTick(loops'[i]) =>
              i \in 1..Len(loops) /\ IsTick(loops[i])
    PROVE  CountdownInv'
<1>1. OneTick' /\ TickAboveZero'
  BY DEF OneTick, TickAboveZero, CountdownInv, timeVars
<1>2. torrent_refresh_time' \in Int /\ CountdownStopsOnlyAtZero'
  BY DEF CountdownInv, timeVars, CountdownStopsOnlyAtZero
<1>3. QED
  BY <1>1, <1>2 DEF CountdownInv

(* A loop is entered.                                                       *)
LEMMA Enters ==
    ASSUME LoopsOK, NEW l, IsLoop(l), loops' = Append(loops, l)
    PROVE  /\ LoopsOK'
           /\ Len(loops) \in Nat
           /\ Len(loops)' = Len(loops) + 1
           /\ loops'[Len(loops)'] = l
           /\ \A i \in 1..Len(loops) : loops'[i] = loops[i]
<1>1. PICK X : loops \in Seq(X)
  BY DEF LoopsOK
<1>2. loops \in Seq(X \cup {l})
  <2>1. X \subseteq X \cup {l}
    OBVIOUS
  <2>2. QED
    BY <1>1, <2>1
<1>3. /\ loops' \in Seq(X \cup {l})
      /\ Len(loops') = Len(loops) + 1
      /\ loops'[Len(loops) + 1] = l
      /\ \A i \in 1..Len(loops) : loops'[i] = loops[i]
      /\ Len(loops) \in Nat
  BY <1>2, AppendProperties
<1>4. \A i \in 1..Len(loops') : IsLoop(loops'[i])
  BY <1>3 DEF LoopsOK
<1>5. QED
  BY <1>3, <1>4 DEF LoopsOK

(* The innermost loop returns.                                              *)
LEMMA Leaves ==
    ASSUME LoopsOK, loops # <<>>
    PROVE  /\ Len(loops) \in Nat \ {0}
           /\ Len(Outer) = Len(loops) - 1
           /\ \E X : Outer \in Seq(X)
           /\ \A i \in 1..Len(Outer) : Outer[i] = loops[i]
<1>1. PICK X : loops \in Seq(X)
  BY DEF LoopsOK
<1>2. Len(loops) \in Nat \ {0} /\ \A i \in 1..Len(loops) : loops[i] \in X
  BY <1>1
<1>3. \A i \in 1..Len(loops) - 1 : loops[i] \in X
  BY <1>2
<1>4. Len(loops) - 1 \in Int /\ 1 \in Int
  BY <1>2
<1>5. /\ SubSeq(loops, 1, Len(loops) - 1) \in Seq(X)
      /\ Len(SubSeq(loops, 1, Len(loops) - 1)) =
           IF 1 <= Len(loops) - 1 THEN Len(loops) - 1 - 1 + 1 ELSE 0
      /\ \A i \in 1..Len(loops) - 1 - 1 + 1 :
           SubSeq(loops, 1, Len(loops) - 1)[i] = loops[1 + i - 1]
  BY <1>3, <1>4, SubSeqProperties
<1>6. Len(Outer) = Len(loops) - 1
  <2> DEFINE k == Len(loops)
             m == Len(SubSeq(loops, 1, Len(loops) - 1))
  <2>1. k \in Nat \ {0} /\ m = IF 1 <= k - 1 THEN k - 1 - 1 + 1 ELSE 0
    BY <1>2, <1>5
  <2> HIDE DEF k, m
  <2>2. m = k - 1
    BY <2>1
  <2>3. QED
    BY <2>2 DEF k, m, Outer
<1>7. \A i \in 1..Len(Outer) : Outer[i] = loops[i]
  <2>1. \A i \in 1..Len(loops) - 1 : 1 + i - 1 = i
    OBVIOUS
  <2>2. Len(loops) - 1 - 1 + 1 = Len(loops) - 1
    BY <1>2
  <2>3. \A i \in 1..Len(loops) - 1 : SubSeq(loops, 1, Len(loops) - 1)[i] = loops[i]
    BY <1>5, <2>1, <2>2
  <2>4. QED
    BY <1>6, <2>3 DEF Outer
<1>8. QED
  BY <1>2, <1>5, <1>6, <1>7 DEF Outer

(* A loop changes, and stays a tick or none.                                *)
LEMMA Changes ==
    ASSUME CountdownInv,
           NEW i \in 1..Len(loops), NEW l, IsLoop(l),
           IsTick(l) => IsTick(loops[i]),
           loops' = [loops EXCEPT ![i] = l],
           UNCHANGED <<timeVars, settings>>
    PROVE  CountdownInv'
<1>1. PICK X : loops \in Seq(X)
  BY DEF CountdownInv, LoopsOK
<1>3. /\ Len(loops) \in Nat
      /\ \A j \in 1..Len(loops) : loops[j] \in X
      /\ loops = [j \in 1..Len(loops) |-> loops[j]]
      /\ DOMAIN loops = 1..Len(loops)
  BY <1>1
<1>2. loops' = [j \in 1..Len(loops) |-> IF j = i THEN l ELSE loops[j]]
  BY <1>3
<1>4. loops' \in Seq(X \cup {l}) /\ Len(loops') = Len(loops)
  <2>1. loops' \in [1..Len(loops) -> X \cup {l}]
    BY <1>2, <1>3
  <2>2. QED
    BY <1>3, <2>1
<1>5. \A j \in 1..Len(loops') : loops'[j] = IF j = i THEN l ELSE loops[j]
  BY <1>2, <1>4
<1>6. LoopsOK'
  BY <1>4, <1>5 DEF LoopsOK, CountdownInv
<1>7. settings' \in [interval : Interval, download : BOOLEAN]
  BY DEF CountdownInv
<1>8. \A j \in 1..Len(loops)' : IsTick(loops'[j]) => j \in 1..Len(loops) /\ IsTick(loops[j])
  BY <1>4, <1>5
<1>9. QED
  BY <1>6, <1>7, <1>8, LoopsOnly

LEMMA StartRefreshStep ==
    ASSUME CountdownInv, NEW tick \in BOOLEAN, StartRefresh(tick),
           tick => \A i \in 1..Len(loops) : ~IsTick(loops[i])
    PROVE  CountdownInv'
<1> DEFINE l == Refresh(tick)
<1>1. IsLoop(l) /\ (IsTick(l) <=> tick)
  BY DEF IsLoop, RefreshLoop, Refresh, IsTick
<1>2. loops' = Append(loops, l)
  BY DEF StartRefresh
<1>3. /\ LoopsOK'
      /\ Len(loops) \in Nat
      /\ Len(loops)' = Len(loops) + 1
      /\ loops'[Len(loops)'] = l
      /\ \A i \in 1..Len(loops) : loops'[i] = loops[i]
  BY <1>1, <1>2, Enters DEF CountdownInv
<1> HIDE DEF l
<1>4. /\ settings' = settings
      /\ torrent_refresh_time' = settings.interval
      /\ zero' = (settings.interval = 0)
  BY DEF StartRefresh
<1>5. settings.interval \in Nat
  BY TorrentsAssumption DEF CountdownInv
<1>6. \A i \in 1..Len(loops)' : i \in 1..Len(loops) \/ i = Len(loops) + 1
  BY <1>3
<1>7. OneTick'
  BY <1>1, <1>3, <1>6 DEF OneTick, CountdownInv
<1>8. TickAboveZero'
  <2>1. CASE settings.interval = 0
    <3>1. zero'
      BY <1>4, <2>1
    <3>2. QED
      BY <3>1 DEF TickAboveZero
  <2>2. CASE settings.interval # 0
    <3>1. torrent_refresh_time' > 0
      BY <1>4, <1>5, <2>2
    <3>2. QED
      BY <3>1 DEF TickAboveZero
  <2>3. QED
    BY <2>1, <2>2
<1>9. torrent_refresh_time' \in Int /\ CountdownStopsOnlyAtZero'
  BY <1>4, <1>5 DEF CountdownStopsOnlyAtZero
<1>10. QED
  BY <1>3, <1>4, <1>7, <1>8, <1>9 DEF CountdownInv

LEMMA RefreshReturnsStep ==
    ASSUME CountdownInv, RefreshReturns
    PROVE  CountdownInv'
<1> DEFINE n == Len(loops)
<1>1. loops # <<>> /\ Innermost.op = "refresh"
  BY DEF RefreshReturns, FeedIsThere
<1>2. /\ n \in Nat \ {0}
      /\ Len(Outer) = n - 1
      /\ \E X : Outer \in Seq(X)
      /\ \A i \in 1..Len(Outer) : Outer[i] = loops[i]
  BY <1>1, Leaves DEF CountdownInv
<1>3. /\ loops' = MadeStale(Outer)
      /\ torrent_refresh_time' = torrent_refresh_time - (IF Innermost.tick THEN 1 ELSE 0)
      /\ zero' = zero /\ settings' = settings
  BY DEF RefreshReturns
<1>4. \A i \in 1..n : IsLoop(loops[i])
  BY DEF CountdownInv, LoopsOK
<1> HIDE DEF n
<1> DEFINE stale(l) == IF l.op = "menu" THEN [l EXCEPT !.stale = TRUE] ELSE l
<1>5. DOMAIN Outer = 1..n - 1
  BY <1>2
<1>6. loops' = [i \in 1..n - 1 |-> stale(loops[i])]
  BY <1>2, <1>3, <1>5 DEF MadeStale
<1>7. ASSUME NEW l, IsLoop(l) PROVE IsLoop(stale(l)) /\ (IsTick(stale(l)) <=> IsTick(l))
  <2>1. CASE l \in RefreshLoop
    BY <2>1, <1>7 DEF RefreshLoop, IsTick
  <2>2. CASE l \in MenuLoop(l)
    <3>1. l.op = "menu" /\ stale(l) = [l EXCEPT !.stale = TRUE]
      BY <2>2 DEF MenuLoop
    <3>2. stale(l) \in MenuLoop(l) /\ stale(l).op = "menu"
      BY <2>2, <3>1 DEF MenuLoop
    <3>3. stale(l).row = l.row /\ stale(l).file = l.file
      BY <2>2, <3>1 DEF MenuLoop
    <3>4. MenuLoop(stale(l)) = MenuLoop(l)
      BY <3>3 DEF MenuLoop
    <3>5. QED
      BY <3>1, <3>2, <3>4 DEF IsLoop, IsTick
  <2>3. QED
    BY <1>7, <2>1, <2>2 DEF IsLoop
<1>8. /\ loops' \in Seq({stale(loops[i]) : i \in 1..n - 1})
      /\ Len(loops') = n - 1
  <2>1. n - 1 \in Nat
    BY <1>2
  <2>2. \A i \in 1..n - 1 : stale(loops[i]) \in {stale(loops[k]) : k \in 1..n - 1}
    OBVIOUS
  <2> DEFINE S == {stale(loops[i]) : i \in 1..n - 1}
  <2> HIDE DEF stale
  <2>3. loops' \in [1..n - 1 -> S]
    BY <1>6, <2>2
  <2> HIDE DEF S
  <2>4. loops' \in Seq(S) /\ Len(loops') = n - 1
    BY <2>1, <2>3
  <2>5. QED
    BY <2>4 DEF S
<1>9. \A i \in 1..n - 1 : IsLoop(loops'[i]) /\ (IsTick(loops'[i]) <=> IsTick(loops[i]))
  <2>1. TAKE i \in 1..n - 1
  <2>2. i \in 1..n
    BY <1>2
  <2>3. IsLoop(loops[i])
    BY <1>4, <2>2
  <2>4. loops'[i] = stale(loops[i])
    BY <1>6
  <2> HIDE DEF stale
  <2>5. QED
    BY <1>7, <2>3, <2>4
<1> HIDE DEF stale
<1>10. LoopsOK'
  BY <1>8, <1>9 DEF LoopsOK
<1>11. torrent_refresh_time \in Int
  BY DEF CountdownInv
<1>12. CASE Innermost.tick
  <2>1. IsTick(loops[n])
    BY <1>1, <1>12 DEF IsTick, Innermost, n
  <2>2. n \in 1..n
    BY <1>2
  <2>3. torrent_refresh_time > 0 \/ zero
    BY <2>1, <2>2 DEF CountdownInv, TickAboveZero, n
  <2>4. \A i \in 1..n - 1 : ~IsTick(loops[i])
    BY <1>2, <2>1, <2>2 DEF CountdownInv, OneTick, n
  <2>5. \A i \in 1..n - 1 : ~IsTick(loops'[i])
    BY <1>9, <2>4
  <2>6. OneTick' /\ TickAboveZero'
    BY <1>8, <2>5 DEF OneTick, TickAboveZero
  <2>7. torrent_refresh_time' \in Int /\ CountdownStopsOnlyAtZero'
    BY <1>3, <1>11, <1>12, <2>3 DEF CountdownStopsOnlyAtZero, CountdownInv
  <2>8. QED
    BY <1>3, <1>10, <2>6, <2>7 DEF CountdownInv
<1>13. CASE ~Innermost.tick
  <2>1. UNCHANGED timeVars
    BY <1>3, <1>11, <1>13 DEF timeVars
  <2>2. \A i \in 1..Len(loops)' : IsTick(loops'[i]) =>
           i \in 1..Len(loops) /\ IsTick(loops[i])
    BY <1>2, <1>8, <1>9 DEF n
  <2>3. settings' \in [interval : Interval, download : BOOLEAN]
    BY <1>3 DEF CountdownInv
  <2>4. QED
    BY <1>10, <2>1, <2>2, <2>3, LoopsOnly
<1>14. QED
  BY <1>12, <1>13

(* A menu is opened.                                                        *)
LEMMA MenuStep ==
    ASSUME CountdownInv, NEW row, torrentContextMenu(row)
    PROVE  CountdownInv'
<1> DEFINE l == Menu(row)
<1>1. IsLoop(l) /\ ~IsTick(l)
  <2>1. l.op = "menu" /\ l.row = row /\ l.file = torrentTable[row]
    BY DEF Menu
  <2>2. l \in [op : {"menu"}, row : {row}, file : {torrentTable[row]},
                stale : BOOLEAN, open : BOOLEAN]
    BY DEF Menu
  <2>3. l \in MenuLoop(l)
    BY <2>1, <2>2 DEF MenuLoop
  <2>4. QED
    BY <2>1, <2>3 DEF IsLoop, IsTick
<1>2. loops' = Append(loops, l) /\ UNCHANGED <<timeVars, settings>>
  BY DEF torrentContextMenu
<1>3. /\ LoopsOK'
      /\ Len(loops) \in Nat
      /\ Len(loops)' = Len(loops) + 1
      /\ loops'[Len(loops)'] = l
      /\ \A i \in 1..Len(loops) : loops'[i] = loops[i]
  BY <1>1, <1>2, Enters DEF CountdownInv
<1> HIDE DEF l
<1>4. \A i \in 1..Len(loops)' : IsTick(loops'[i]) => i \in 1..Len(loops) /\ IsTick(loops[i])
  <2>1. \A i \in 1..Len(loops)' : i \in 1..Len(loops) \/ i = Len(loops)'
    BY <1>3
  <2>2. QED
    BY <1>1, <1>3, <2>1
<1>5. settings' \in [interval : Interval, download : BOOLEAN]
  BY <1>2 DEF CountdownInv
<1>6. QED
  BY <1>2, <1>3, <1>4, <1>5, LoopsOnly

(* An entry of the menu is picked, or none is.                              *)
LEMMA CloseStep ==
    ASSUME CountdownInv, NEW i \in DOMAIN loops, MenuIsOpen(i),
           loops' = [loops EXCEPT ![i].open = FALSE],
           UNCHANGED <<timeVars, settings>>
    PROVE  CountdownInv'
<1> DEFINE l == [loops[i] EXCEPT !.open = FALSE]
<1>1. i \in 1..Len(loops)
  BY DEF CountdownInv, LoopsOK
<1>2. loops[i].op = "menu" /\ IsLoop(loops[i])
  BY <1>1 DEF MenuIsOpen, CountdownInv, LoopsOK
<1>3. loops[i] \in MenuLoop(loops[i])
  BY <1>2 DEF IsLoop, RefreshLoop
<1>4. l \in MenuLoop(loops[i]) /\ l.op = "menu" /\ l.row = loops[i].row /\ l.file = loops[i].file
  BY <1>3 DEF MenuLoop
<1>5. l \in MenuLoop(l)
  BY <1>4 DEF MenuLoop
<1>6. IsLoop(l) /\ ~IsTick(l)
  BY <1>4, <1>5 DEF IsLoop, IsTick
<1>7. loops' = [loops EXCEPT ![i] = l]
  OBVIOUS
<1> HIDE DEF l
<1>8. QED
  BY <1>1, <1>6, <1>7, Changes

LEMMA FeedArrivesStep ==
    ASSUME CountdownInv, NEW i \in DOMAIN loops, NEW feed \in Feeds, FeedArrives(i, feed)
    PROVE  CountdownInv'
<1> DEFINE l == [loops[i] EXCEPT !.answered = TRUE, !.feed = feed]
<1>1. i \in 1..Len(loops)
  BY DEF CountdownInv, LoopsOK
<1>2. loops[i].op = "refresh" /\ IsLoop(loops[i])
  BY <1>1 DEF FeedArrives, CountdownInv, LoopsOK
<1>3. loops[i] \in RefreshLoop
  BY <1>2 DEF IsLoop, MenuLoop
<1>4. l \in RefreshLoop /\ l.tick = loops[i].tick
  BY <1>3 DEF RefreshLoop
<1>5. IsLoop(l) /\ (IsTick(l) => IsTick(loops[i]))
  BY <1>2, <1>4 DEF IsLoop, IsTick
<1>6. loops' = [loops EXCEPT ![i] = l]
  BY DEF FeedArrives
<1>7. UNCHANGED <<timeVars, settings>>
  BY DEF FeedArrives
<1> HIDE DEF l
<1>8. QED
  BY <1>1, <1>5, <1>6, <1>7, Changes

LEMMA MenuReturnsStep ==
    ASSUME CountdownInv, MenuReturns
    PROVE  CountdownInv'
<1>1. loops # <<>> /\ loops' = Outer /\ UNCHANGED <<timeVars, settings>>
  BY DEF MenuReturns
<1>2. /\ Len(loops) \in Nat \ {0}
      /\ Len(Outer) = Len(loops) - 1
      /\ \E X : Outer \in Seq(X)
      /\ \A i \in 1..Len(Outer) : Outer[i] = loops[i]
  BY <1>1, Leaves DEF CountdownInv
<1>3. \A i \in 1..Len(loops)' : i \in 1..Len(loops) /\ loops'[i] = loops[i]
  BY <1>1, <1>2
<1>4. LoopsOK'
  BY <1>1, <1>2, <1>3 DEF LoopsOK, CountdownInv
<1>5. settings' \in [interval : Interval, download : BOOLEAN]
  BY <1>1 DEF CountdownInv
<1>6. QED
  BY <1>1, <1>3, <1>4, <1>5, LoopsOnly

(* The program has ended: the loops are gone and the countdown is at zero.  *)
LEMMA EndsStep ==
    ASSUME CountdownInv, Ends, settings' \in [interval : Interval, download : BOOLEAN]
    PROVE  CountdownInv'
<1>1. /\ loops' = <<>> /\ torrent_refresh_time' = 0
      /\ settings' \in [interval : Interval, download : BOOLEAN]
  BY DEF Ends, CountdownInv
<1>2. loops' \in Seq({}) /\ Len(loops') = 0
  BY <1>1
<1>3. LoopsOK' /\ OneTick' /\ TickAboveZero'
  BY <1>2 DEF LoopsOK, OneTick, TickAboveZero
<1>4. QED
  BY <1>1, <1>3 DEF CountdownInv, CountdownStopsOnlyAtZero

LEMMA EventTickStep ==
    ASSUME CountdownInv, eventTick
    PROVE  CountdownInv'
<1>1. \A i \in 1..Len(loops) : ~IsTick(loops[i])
  BY DEF eventTick, CountdownInv, LoopsOK
<1>2. CASE torrent_refresh_time = 0
  <2>1. StartRefresh(TRUE)
    BY <1>2 DEF eventTick
  <2>2. QED
    BY <1>1, <2>1, StartRefreshStep
<1>3. CASE torrent_refresh_time # 0
  <2>1. CountDown
    BY <1>3 DEF eventTick
  <2>2. /\ torrent_refresh_time \in Int /\ torrent_refresh_time >= 0
        /\ torrent_refresh_time' = torrent_refresh_time - 1
        /\ UNCHANGED <<loops, zero, settings>>
    BY <2>1 DEF CountDown, eventTick, CountdownInv
  <2>3. torrent_refresh_time' \in Int /\ torrent_refresh_time' >= 0
    BY <1>3, <2>2
  <2>4. LoopsOK' /\ OneTick'
    BY <2>2 DEF LoopsOK, OneTick, CountdownInv
  <2>5. TickAboveZero'
    BY <1>1, <2>2 DEF TickAboveZero
  <2>6. QED
    BY <2>2, <2>3, <2>4, <2>5 DEF CountdownInv, CountdownStopsOnlyAtZero
<1>4. QED
  BY <1>2, <1>3

(* A step that changes neither the loops nor the countdown.                 *)
LEMMA OtherStep ==
    ASSUME CountdownInv, UNCHANGED <<loops, timeVars>>,
           settings' \in [interval : Interval, download : BOOLEAN]
    PROVE  CountdownInv'
<1>1. LoopsOK'
  BY DEF CountdownInv, LoopsOK
<1>2. QED
  BY <1>1, LoopsOnly

LEMMA CountdownNext == CountdownInv /\ [Next]_vars => CountdownInv'
<1> SUFFICES ASSUME CountdownInv, [Next]_vars PROVE CountdownInv'
  OBVIOUS
<1>1. CASE Start
  <2>1. UNCHANGED <<loops, timeVars, settings>>
    BY <1>1 DEF Start
  <2>2. QED
    BY <2>1, OtherStep DEF CountdownInv
<1>2. CASE RefreshReturns
  BY <1>2, RefreshReturnsStep
<1>3. CASE eventTick
  BY <1>3, EventTickStep
<1>4. CASE MenuReturns
  BY <1>4, MenuReturnsStep
<1>5. CASE \E i \in DOMAIN loops, feed \in Feeds : FeedArrives(i, feed)
  BY <1>5, FeedArrivesStep
<1>6. CASE Click
  <2>1. StartRefresh(FALSE)
    BY <1>6 DEF Click
  <2>2. QED
    BY <2>1, StartRefreshStep
<1>7. CASE \E row \in 1..Len(torrentTable) : torrentContextMenu(row)
  BY <1>7, MenuStep
<1>8. CASE \E i \in DOMAIN loops : Pick(i) \/ Dismiss(i)
  <2>1. PICK i \in DOMAIN loops : Pick(i) \/ Dismiss(i)
    BY <1>8
  <2>2. /\ MenuIsOpen(i) /\ loops' = [loops EXCEPT ![i].open = FALSE]
        /\ UNCHANGED <<timeVars, settings>>
    BY <2>1 DEF Pick, Dismiss
  <2>3. QED
    BY <2>1, <2>2, CloseStep
<1>9. CASE \E S \in SUBSET Rule : SaveSettings(S)
  <2>1. UNCHANGED <<loops, timeVars>> /\ settings' \in [interval : Interval, download : BOOLEAN]
    BY <1>9 DEF SaveSettings
  <2>2. QED
    BY <2>1, OtherStep
<1>10. CASE End
  BY <1>10, EndsStep DEF End, CountdownInv
<1>11. CASE EndInMigration
  BY <1>11, EndsStep DEF EndInMigration, CountdownInv
<1>12. CASE \E n \in 0..Len(Innermost.feed) - 1 : EndInDownload(n)
  BY <1>12, EndsStep DEF EndInDownload, CountdownInv
<1>12a. CASE \E S \in SUBSET Rule : EndInSave(S)
  BY <1>12a, EndsStep DEF EndInSave
<1>12b. CASE accessGranted
  <2>1. UNCHANGED <<loops, timeVars, settings>>
    BY <1>12b DEF accessGranted
  <2>2. QED
    BY <2>1, OtherStep DEF CountdownInv
<1>13. CASE UNCHANGED vars
  <2>1. UNCHANGED <<loops, timeVars, settings>>
    BY <1>13 DEF vars
  <2>2. QED
    BY <2>1, OtherStep DEF CountdownInv
<1>14. QED
  BY <1>1, <1>2, <1>3, <1>4, <1>5, <1>6, <1>7, <1>8, <1>9, <1>10, <1>11, <1>12,
     <1>12a, <1>12b, <1>13
  DEF Next, Program, User

(* However the refreshes of the timer and the button overlap, and whatever  *)
(* interval the user chooses meanwhile, eventTick passes zero without a     *)
(* refresh only after an interval of zero.                                  *)
THEOREM CountdownSafe == Spec => []CountdownStopsOnlyAtZero
<1>1. CountdownInv => CountdownStopsOnlyAtZero
  BY DEF CountdownInv
<1>2. QED
  BY <1>1, CountdownInit, CountdownNext, PTL DEF Spec

(* What the menu relies on: until a refresh has replaced the table, the row *)
(* of an open menu has the torrent it had.                                  *)
MenuFits(l) ==
    l.op = "menu" =>
        \/ l.stale
        \/ l.row \in 1..Len(torrentTable) /\ torrentTable[l.row] = l.file
MenusFit == \A i \in 1..Len(loops) : MenuFits(loops[i])
MenuInv == MenusFit /\ MenuActsOnItsTorrent

LEMMA MenuInit == Init => MenuInv
<1>1. SUFFICES ASSUME Init PROVE MenuInv
  OBVIOUS
<1>2. Len(loops) = 0 /\ misread = FALSE
  BY <1>1 DEF Init
<1>3. QED
  BY <1>2 DEF MenuInv, MenusFit, MenuActsOnItsTorrent

(* The table stays, and each loop is one that was there or fits.            *)
LEMMA TableStays ==
    ASSUME MenuInv,
           UNCHANGED <<torrentTable, menuVars>>,
           \A i \in 1..Len(loops)' :
              MenuFits(loops'[i]) \/ (i \in 1..Len(loops) /\ loops'[i] = loops[i])
    PROVE  MenuInv'
<1>1. MenuActsOnItsTorrent'
  BY DEF MenuInv, MenuActsOnItsTorrent, menuVars
<1>2. MenusFit'
  BY DEF MenuInv, MenusFit, MenuFits
<1>3. QED
  BY <1>1, <1>2 DEF MenuInv

LEMMA EnteredFits ==
    ASSUME LoopsOK, MenuInv, NEW l, IsLoop(l), MenuFits(l),
           loops' = Append(loops, l),
           UNCHANGED <<torrentTable, menuVars>>
    PROVE  MenuInv'
<1>1. /\ Len(loops) \in Nat
      /\ Len(loops)' = Len(loops) + 1
      /\ loops'[Len(loops)'] = l
      /\ \A i \in 1..Len(loops) : loops'[i] = loops[i]
  BY Enters
<1>2. \A i \in 1..Len(loops)' : i \in 1..Len(loops) \/ i = Len(loops)'
  BY <1>1
<1>3. \A i \in 1..Len(loops)' :
         MenuFits(loops'[i]) \/ (i \in 1..Len(loops) /\ loops'[i] = loops[i])
  BY <1>1, <1>2
<1>4. QED
  BY <1>3, TableStays

LEMMA RefreshFits ==
    ASSUME LoopsOK, MenuInv, NEW tick \in BOOLEAN, StartRefresh(tick)
    PROVE  MenuInv'
<1>1. IsLoop(Refresh(tick)) /\ MenuFits(Refresh(tick))
  BY DEF IsLoop, RefreshLoop, Refresh, MenuFits
<1>2. loops' = Append(loops, Refresh(tick)) /\ UNCHANGED <<torrentTable, menuVars>>
  BY DEF StartRefresh
<1>3. QED
  BY <1>1, <1>2, EnteredFits

LEMMA MenuOpensFits ==
    ASSUME LoopsOK, MenuInv, NEW row, torrentContextMenu(row)
    PROVE  MenuInv'
<1> DEFINE l == Menu(row)
<1>1. l.op = "menu" /\ l.row = row /\ l.file = torrentTable[row]
  BY DEF Menu
<1>2. l \in [op : {"menu"}, row : {row}, file : {torrentTable[row]},
              stale : BOOLEAN, open : BOOLEAN]
  BY DEF Menu
<1>3. IsLoop(l) /\ MenuFits(l)
  <2>1. row \in 1..Len(torrentTable)
    BY DEF torrentContextMenu
  <2>2. IsLoop(l)
    BY <1>1, <1>2 DEF IsLoop, MenuLoop
  <2> HIDE DEF l
  <2>3. MenuFits(l)
    BY <1>1, <2>1 DEF MenuFits
  <2>4. QED
    BY <2>2, <2>3
<1>4. loops' = Append(loops, l) /\ UNCHANGED <<torrentTable, menuVars>>
  BY DEF torrentContextMenu
<1> HIDE DEF l
<1>5. QED
  BY <1>3, <1>4, EnteredFits

(* A loop changes and fits as before.                                       *)
LEMMA ChangedFits ==
    ASSUME LoopsOK, MenusFit, NEW i \in 1..Len(loops), NEW l,
           MenuFits(loops[i]) => MenuFits(l),
           loops' = [loops EXCEPT ![i] = l],
           UNCHANGED torrentTable
    PROVE  MenusFit'
<1>1. PICK X : loops \in Seq(X)
  BY DEF LoopsOK
<1>2. Len(loops) \in Nat /\ DOMAIN loops = 1..Len(loops)
  BY <1>1
<1>3. loops' = [j \in 1..Len(loops) |-> IF j = i THEN l ELSE loops[j]]
  BY <1>2
<1>4. Len(loops') = Len(loops)
  BY <1>2, <1>3
<1>5. MenuFits(l)
  BY DEF MenusFit
<1>6. \A j \in 1..Len(loops') : loops'[j] = l \/ MenuFits(loops'[j])
  BY <1>3, <1>4 DEF MenusFit
<1>7. \A j \in 1..Len(loops') : MenuFits(loops'[j])
  BY <1>5, <1>6
<1>8. QED
  BY <1>7 DEF MenusFit, MenuFits

LEMMA PickFits ==
    ASSUME LoopsOK, MenuInv, NEW i \in DOMAIN loops, Pick(i)
    PROVE  MenuInv'
<1> DEFINE l == [loops[i] EXCEPT !.open = FALSE]
<1>1. i \in 1..Len(loops)
  BY DEF LoopsOK
<1>2. loops[i].op = "menu" /\ IsLoop(loops[i]) /\ MenuFits(loops[i])
  BY <1>1 DEF Pick, MenuIsOpen, LoopsOK, MenuInv, MenusFit
<1>3. loops[i] \in MenuLoop(loops[i])
  BY <1>2 DEF IsLoop, RefreshLoop
<1>4. MenuFits(l)
  BY <1>2, <1>3 DEF MenuLoop, MenuFits
<1>5. loops' = [loops EXCEPT ![i] = l] /\ UNCHANGED torrentTable
  BY DEF Pick
<1>6. MenusFit'
  <2> HIDE DEF l
  <2>1. QED
    BY <1>1, <1>4, <1>5, ChangedFits DEF MenuInv
<1>7. /\ misread' = (misread \/ (loops[i].row <= Len(torrentTable)
                                 /\ torrentTable[loops[i].row] # loops[i].file))
      /\ replaced' = (replaced \/ loops[i].stale)
  BY DEF Pick
<1>8. MenuActsOnItsTorrent'
  BY <1>2, <1>7 DEF MenuFits, MenuInv, MenuActsOnItsTorrent
<1>9. QED
  BY <1>6, <1>8 DEF MenuInv

LEMMA MenuNext == LoopsOK /\ MenuInv /\ [Next]_vars => MenuInv'
<1> SUFFICES ASSUME LoopsOK, MenuInv, [Next]_vars PROVE MenuInv'
  OBVIOUS
<1>1. CASE UNCHANGED <<torrentTable, loops, menuVars>>
  BY <1>1, TableStays
<1>2. CASE RefreshReturns
  <2>1. loops # <<>> /\ loops' = MadeStale(Outer) /\ UNCHANGED menuVars
    BY <1>2 DEF RefreshReturns, FeedIsThere
  <2>2. /\ Len(loops) \in Nat \ {0}
        /\ Len(Outer) = Len(loops) - 1
        /\ \E X : Outer \in Seq(X)
        /\ \A i \in 1..Len(Outer) : Outer[i] = loops[i]
    BY <2>1, Leaves
  <2>3. DOMAIN Outer = 1..Len(loops) - 1 /\ Len(loops) - 1 \in Nat
    BY <2>2
  <2>4. loops' = [i \in 1..Len(loops) - 1 |->
           IF Outer[i].op = "menu" THEN [Outer[i] EXCEPT !.stale = TRUE] ELSE Outer[i]]
    BY <2>1, <2>3 DEF MadeStale
  <2>5. Len(loops') = Len(loops) - 1
    BY <2>3, <2>4
  <2>6. \A i \in 1..Len(loops') : IsLoop(Outer[i])
    BY <2>2, <2>5 DEF LoopsOK
  <2>7. \A i \in 1..Len(loops') : loops'[i].op = "menu" => loops'[i].stale
    <3>1. TAKE i \in 1..Len(loops')
    <3>2. CASE Outer[i].op = "menu"
      <4>1. Outer[i] \in MenuLoop(Outer[i])
        BY <2>6, <3>1, <3>2 DEF IsLoop, RefreshLoop
      <4>2. loops'[i] = [Outer[i] EXCEPT !.stale = TRUE]
        BY <2>4, <2>5, <3>1, <3>2
      <4>3. QED
        BY <4>1, <4>2 DEF MenuLoop
    <3>3. CASE Outer[i].op # "menu"
      BY <2>4, <2>5, <3>1, <3>3
    <3>4. QED
      BY <3>2, <3>3
  <2>8. MenusFit'
    BY <2>7 DEF MenusFit, MenuFits
  <2>9. MenuActsOnItsTorrent'
    BY <2>1 DEF MenuInv, MenuActsOnItsTorrent, menuVars
  <2>10. QED
    BY <2>8, <2>9 DEF MenuInv
<1>3. CASE eventTick
  <2>1. CASE torrent_refresh_time = 0
    <3>1. StartRefresh(TRUE)
      BY <1>3, <2>1 DEF eventTick
    <3>2. QED
      BY <3>1, RefreshFits
  <2>2. CASE torrent_refresh_time # 0
    BY <1>3, <1>1, <2>2 DEF eventTick, CountDown
  <2>3. QED
    BY <2>1, <2>2
<1>4. CASE MenuReturns
  <2>1. loops # <<>> /\ loops' = Outer /\ UNCHANGED <<torrentTable, menuVars>>
    BY <1>4 DEF MenuReturns
  <2>2. \A i \in 1..Len(loops)' : i \in 1..Len(loops) /\ loops'[i] = loops[i]
    BY <2>1, Leaves
  <2>3. QED
    BY <2>1, <2>2, TableStays
<1>5. CASE \E i \in DOMAIN loops, feed \in Feeds : FeedArrives(i, feed)
  <2>1. PICK i \in DOMAIN loops, feed \in Feeds : FeedArrives(i, feed)
    BY <1>5
  <2>2. i \in 1..Len(loops)
    BY DEF LoopsOK
  <2>3. loops[i].op = "refresh" /\ IsLoop(loops[i])
    BY <2>1, <2>2 DEF FeedArrives, LoopsOK
  <2>4. loops[i] \in RefreshLoop
    BY <2>3 DEF IsLoop, MenuLoop
  <2> DEFINE l == [loops[i] EXCEPT !.answered = TRUE, !.feed = feed]
  <2>5. MenuFits(l)
    BY <2>4 DEF RefreshLoop, MenuFits
  <2>6. loops' = [loops EXCEPT ![i] = l] /\ UNCHANGED <<torrentTable, menuVars>>
    BY <2>1 DEF FeedArrives
  <2> HIDE DEF l
  <2>7. MenusFit'
    BY <2>2, <2>5, <2>6, ChangedFits DEF MenuInv
  <2>8. QED
    BY <2>6, <2>7 DEF MenuInv, MenuActsOnItsTorrent, menuVars
<1>6. CASE Click
  <2>1. StartRefresh(FALSE)
    BY <1>6 DEF Click
  <2>2. QED
    BY <2>1, RefreshFits
<1>7. CASE \E row \in 1..Len(torrentTable) : torrentContextMenu(row)
  BY <1>7, MenuOpensFits
<1>8. CASE \E i \in DOMAIN loops : Pick(i)
  BY <1>8, PickFits
<1>9. CASE \E i \in DOMAIN loops : Dismiss(i)
  <2>1. PICK i \in DOMAIN loops : Dismiss(i)
    BY <1>9
  <2>2. i \in 1..Len(loops)
    BY DEF LoopsOK
  <2>3. loops[i].op = "menu" /\ IsLoop(loops[i])
    BY <2>1, <2>2 DEF Dismiss, MenuIsOpen, LoopsOK
  <2>4. loops[i] \in MenuLoop(loops[i])
    BY <2>3 DEF IsLoop, RefreshLoop
  <2> DEFINE l == [loops[i] EXCEPT !.open = FALSE]
  <2>5. MenuFits(loops[i]) => MenuFits(l)
    BY <2>4 DEF MenuLoop, MenuFits
  <2>6. loops' = [loops EXCEPT ![i] = l] /\ UNCHANGED <<torrentTable, menuVars>>
    BY <2>1 DEF Dismiss
  <2> HIDE DEF l
  <2>7. MenusFit'
    BY <2>2, <2>5, <2>6, ChangedFits DEF MenuInv
  <2>8. QED
    BY <2>6, <2>7 DEF MenuInv, MenuActsOnItsTorrent, menuVars
<1>10. CASE Start \/ accessGranted \/ \E S \in SUBSET Rule : SaveSettings(S)
  BY <1>10, <1>1 DEF Start, accessGranted, SaveSettings
<1>11. CASE Ends
  <2>1. loops' = <<>> /\ UNCHANGED menuVars
    BY <1>11 DEF Ends
  <2>2. Len(loops') = 0
    BY <2>1
  <2>3. QED
    BY <2>1, <2>2 DEF MenuInv, MenusFit, MenuActsOnItsTorrent, menuVars
<1>12. CASE UNCHANGED vars
  BY <1>12, <1>1 DEF vars
<1>13. QED
  <2>1. CASE \E i \in DOMAIN loops : Pick(i) \/ Dismiss(i)
    BY <2>1, <1>8, <1>9
  <2>2. CASE \/ End \/ EndInMigration \/ \E S \in SUBSET Rule : EndInSave(S)
             \/ \E n \in 0..Len(Innermost.feed) - 1 : EndInDownload(n)
    BY <2>2, <1>11 DEF End, EndInMigration, EndInSave, EndInDownload
  <2>3. QED
    BY <1>2, <1>3, <1>4, <1>5, <1>6, <1>7, <1>10, <1>12, <2>1, <2>2 DEF Next, Program, User

(* Whatever the feeds are and however many menus are open, "Download" and   *)
(* "Create rule" act on another torrent than the one the menu was opened on *)
(* only when a refresh has returned under the menu.                         *)
THEOREM MenuSafe == Spec => []MenuActsOnItsTorrent
<1>1. CountdownInv => LoopsOK
  BY DEF CountdownInv
<1>2. MenuInv => MenuActsOnItsTorrent
  BY DEF MenuInv
<1>3. QED
  BY <1>1, <1>2, CountdownInit, CountdownNext, MenuInit, MenuNext, PTL DEF Spec

-----------------------------------------------------------------------------
(* The files with the rules.                                                *)

(* A rule that is on its way into rules.json has not expired.               *)
StoreOK == Stored(rules_json, rule_dir) /\ lost \in BOOLEAN
Kept == owned \subseteq rules_json.rules \cup Taken \/ lost
RulesInv == StoreOK /\ Kept

LEMMA Merging ==
    ASSUME NEW S \in SUBSET Rule, NEW D \in SUBSET Rule, NEW M \in Merges(S, D)
    PROVE  /\ M \subseteq Rule
           /\ D = {} => M = S
           /\ Distinct(D) => D \subseteq M
<1>1. PICK N \in SUBSET D : /\ Distinct(N) /\ Names(N) = Names(D)
                            /\ M = {r \in S : Name[r] \notin Names(D)} \cup N
  BY DEF Merges
<1>2. M \subseteq Rule
  BY <1>1
<1>3. D = {} => M = S
  BY <1>1 DEF Names
<1>4. ASSUME Distinct(D), NEW r \in D PROVE r \in M
  <2>1. PICK q \in N : Name[q] = Name[r]
    BY <1>1 DEF Names
  <2>2. q = r
    BY <1>1, <1>4, <2>1 DEF Distinct
  <2>3. QED
    BY <1>1, <2>1, <2>2
<1>5. QED
  BY <1>2, <1>3, <1>4

LEMMA InForceRules ==
    ASSUME NEW json \in RulesFile, rule_dir \in RulesDir, NEW io, NEW M \in InForce(json, io)
    PROVE  /\ Taken \in SUBSET Rule /\ M \in SUBSET Rule
           /\ Taken = {} /\ io # "unopened" => M = json.rules
           /\ Distinct(Taken) => Taken \subseteq M
<1> DEFINE S == IF io = "unopened" THEN {} ELSE json.rules
<1>1. S \in SUBSET Rule /\ Taken \in SUBSET Rule
  BY DEF RulesFile, RulesDir, Taken
<1>2. M \in Merges(S, Taken)
  BY DEF InForce
<1> HIDE DEF S
<1>3. M \subseteq Rule /\ (Taken = {} => M = S) /\ (Distinct(Taken) => Taken \subseteq M)
  BY <1>1, <1>2, Merging
<1>4. QED
  BY <1>1, <1>3 DEF S

(* The rules of the file json and of the directory are merged; others may   *)
(* have been lost before.                                                   *)
LEMMA Reloading ==
    ASSUME StoreOK,
           NEW json \in RulesFile, json.text # "object" => json.rules = {},
           NEW io \in Outcomes, NEW M \in InForce(json, io),
           NEW before \in BOOLEAN,
           reloadRules(json, M, io),
           lost' = (lost \/ before \/ Loses(json, io))
    PROVE  /\ StoreOK'
           /\ json.rules \cup Taken \subseteq (rules_json.rules \cup Taken)' \/ lost'
           /\ lost \/ before => lost'
           /\ io = "done" => rules_json'.rules \subseteq M
<1> USE DEF Stored, RulesFile, RulesDir
<1>1. rule_dir \in RulesDir /\ rule_dir.exists \in BOOLEAN /\ lost \in BOOLEAN
  BY DEF StoreOK
<1>2. /\ Taken \in SUBSET Rule /\ M \in SUBSET Rule
      /\ Taken = {} /\ io # "unopened" => M = json.rules
      /\ Distinct(Taken) => Taken \subseteq M
  BY <1>1, InForceRules
<1>3. /\ rule_dir' = [exists |-> rule_dir.exists /\ rule_dir.rules \cap Stuck # {},
                      rules |-> rule_dir.rules \cap Stuck]
      /\ rules_json' \in Written(json, M, io)
  BY DEF reloadRules
<1>4. /\ rule_dir' \in RulesDir
      /\ ~rule_dir'.exists => rule_dir'.rules = {}
  <2>1. CASE ~rule_dir.exists
    BY <1>1, <1>3, <2>1 DEF StoreOK
  <2>2. CASE rule_dir.exists
    BY <1>1, <1>3, <2>2
  <2>3. QED
    BY <2>1, <2>2
<1>5. /\ lost' \in BOOLEAN /\ (lost \/ before => lost')
      /\ Loses(json, io) => lost'
  BY <1>1 DEF Loses
<1>6. CASE ~rule_dir.exists
  <2>1. Taken = {}
    BY <1>6 DEF StoreOK, Taken
  <2>2. rules_json' = json
    BY <1>3, <1>6 DEF Written
  <2>3. QED
    BY <1>2, <1>4, <1>5, <2>1, <2>2 DEF StoreOK
<1>7. CASE rule_dir.exists /\ io = "unopened"
  <2>1. rules_json' = json
    BY <1>3, <1>7 DEF Written
  <2>2. Loses(json, io)
    BY <1>7 DEF Loses
  <2>3. QED
    BY <1>4, <1>5, <1>7, <2>1, <2>2 DEF StoreOK
<1>8. CASE rule_dir.exists /\ io = "unwritten"
  <2>1. rules_json' = json \/ rules_json' = [text |-> "broken", rules |-> {}]
    BY <1>3, <1>8 DEF Written, Broken
  <2>2. Loses(json, io)
    BY <1>8 DEF Loses
  <2>3. rules_json' \in RulesFile /\ (rules_json'.text # "object" => rules_json'.rules = {})
    BY <2>1
  <2>4. QED
    BY <1>4, <1>5, <1>8, <2>2, <2>3 DEF StoreOK
<1>9. CASE rule_dir.exists /\ io = "done" /\ json.text = "empty"
  <2>1. rules_json' = [text |-> "object", rules |-> M]
    BY <1>3, <1>9 DEF Written
  <2>2. json.rules = {}
    BY <1>9
  <2>3. json.rules \cup Taken \subseteq rules_json'.rules \/ lost'
    BY <1>2, <1>5, <2>1, <2>2 DEF Loses
  <2>4. QED
    BY <1>2, <1>4, <1>5, <2>1, <2>3 DEF StoreOK
<1>10. CASE rule_dir.exists /\ io = "done" /\ json.text # "empty"
  <2>1. rules_json' = [text |-> "broken", rules |-> {}]
    BY <1>3, <1>10 DEF Written, Broken
  <2>2. Loses(json, io)
    BY <1>10 DEF Loses
  <2>3. QED
    BY <1>4, <1>5, <2>1, <2>2 DEF StoreOK
<1>11. io = "unopened" \/ io = "unwritten" \/ io = "done"
  BY TorrentsAssumption
<1>12. QED
  BY <1>6, <1>7, <1>8, <1>9, <1>10, <1>11

\* A step that reloads the rules, and loses something in a known way only.
LEMMA RulesStep ==
    ASSUME RulesInv, NEW json \in RulesFile, json.text # "object" => json.rules = {},
           NEW io \in Outcomes, NEW M \in InForce(json, io), NEW before \in BOOLEAN,
           reloadRules(json, M, io),
           lost' = (lost \/ before \/ Loses(json, io)),
           owned' \subseteq json.rules \cup Taken \/ lost \/ before
    PROVE  RulesInv'
<1>1. StoreOK
  BY DEF RulesInv
<1>2. /\ StoreOK'
      /\ json.rules \cup Taken \subseteq (rules_json.rules \cup Taken)' \/ lost'
      /\ lost \/ before => lost'
  BY <1>1, Reloading
<1>3. Kept'
  BY <1>2 DEF Kept
<1>4. QED
  BY <1>2, <1>3 DEF RulesInv

LEMMA RulesInit == Init => RulesInv
<1>1. SUFFICES ASSUME Init PROVE RulesInv
  OBVIOUS
<1>2. PICK old \in OldRules : /\ rules_json = old.json /\ rule_dir = old.dir
                              /\ owned = old.json.rules \cup (old.dir.rules \ Expired)
  BY <1>1 DEF Init
<1>3. Stored(rules_json, rule_dir)
  BY <1>2, TorrentsAssumption
<1>4. lost \in BOOLEAN
  BY <1>1 DEF Init
<1>5. QED
  BY <1>2, <1>3, <1>4 DEF RulesInv, StoreOK, Kept, Taken

LEMMA RulesNext == RulesInv /\ [Next]_vars => RulesInv'
<1> SUFFICES ASSUME RulesInv, [Next]_vars PROVE RulesInv'
  OBVIOUS
<1>1. /\ rules_json \in RulesFile /\ (rules_json.text # "object" => rules_json.rules = {})
      /\ rule_dir \in RulesDir /\ (~rule_dir.exists => rule_dir.rules = {})
      /\ lost \in BOOLEAN
  BY DEF RulesInv, StoreOK, Stored
<1>2. CASE UNCHANGED fileVars
  BY <1>2 DEF RulesInv, StoreOK, Kept, Taken, fileVars
<1>3. ASSUME NEW io \in Outcomes, NEW M \in InForce(rules_json, io),
             reloadRules(rules_json, M, io),
             lost' = (lost \/ Loses(rules_json, io)), UNCHANGED owned
      PROVE  RulesInv'
  <2>1. owned' \subseteq rules_json.rules \cup Taken \/ lost
    BY <1>3 DEF RulesInv, Kept
  <2>2. lost' = (lost \/ FALSE \/ Loses(rules_json, io))
    BY <1>3
  <2>3. QED
    BY <1>1, <1>3, <2>1, <2>2, RulesStep
<1>4. CASE Start
  BY <1>3, <1>4 DEF Start
<1>5. CASE RefreshReturns
  BY <1>3, <1>5 DEF RefreshReturns
<1>6. CASE \E n \in 0..Len(Innermost.feed) - 1 : EndInDownload(n)
  BY <1>3, <1>6 DEF EndInDownload
<1>7. ASSUME NEW S \in SUBSET Rule, SaveSettings(S) PROVE RulesInv'
  <2>1. PICK saved \in Outcomes, io \in Outcomes : \E json \in Saved(S, saved) :
           \E M \in InForce(json, io) :
              /\ reloadRules(json, M, io)
              /\ lost' = (lost \/ saved # "done" \/ Loses(json, io))
    BY <1>7 DEF SaveSettings
  <2>2. PICK json \in Saved(S, saved) : \E M \in InForce(json, io) :
              /\ reloadRules(json, M, io)
              /\ lost' = (lost \/ saved # "done" \/ Loses(json, io))
    BY <2>1
  <2>3. PICK M \in InForce(json, io) :
              /\ reloadRules(json, M, io)
              /\ lost' = (lost \/ saved # "done" \/ Loses(json, io))
    BY <2>2
  <2>4. saved = "done" => json.rules = S
    BY DEF Saved
  <2>5. json \in RulesFile /\ (json.text # "object" => json.rules = {})
    <3>1. CASE saved = "done"
      BY <3>1 DEF Saved, RulesFile
    <3>2. CASE saved = "unopened"
      BY <3>2, <1>1 DEF Saved
    <3>3. CASE saved = "unwritten"
      BY <3>3 DEF Saved, Emptied, Broken, RulesFile
    <3>4. QED
      BY <3>1, <3>2, <3>3, TorrentsAssumption
  <2>6. owned' = S \cup Taken
    BY <1>7 DEF SaveSettings
  <2>7. (saved # "done") \in BOOLEAN
    OBVIOUS
  <2>8. owned' \subseteq json.rules \cup Taken \/ lost \/ saved # "done"
    BY <2>4, <2>6
  <2>9. QED
    BY <2>3, <2>5, <2>7, <2>8, RulesStep
<1>8. CASE EndInMigration
  <2>1. PICK gone \in SUBSET (rule_dir.rules \ Stuck), exists \in BOOLEAN,
             started \in BOOLEAN :
             /\ exists \/ gone = rule_dir.rules
             /\ rule_dir' = [exists |-> exists, rules |-> rule_dir.rules \ gone]
             /\ rules_json' = IF started THEN Broken ELSE rules_json
             /\ lost' = (lost \/ started \/ gone \ Expired # {})
    BY <1>8 DEF EndInMigration
  <2>2. UNCHANGED owned
    BY <1>8 DEF EndInMigration
  <2>3. StoreOK'
    BY <1>1, <2>1 DEF StoreOK, Stored, RulesDir, RulesFile, Broken
  <2>4. Kept'
    <3>1. CASE ~started /\ gone \ Expired = {}
      <4>1. Taken' = Taken /\ rules_json' = rules_json /\ (lost => lost')
        BY <1>1, <2>1, <3>1 DEF Taken
      <4>2. QED
        BY <2>2, <4>1 DEF RulesInv, Kept
    <3>2. CASE started \/ gone \ Expired # {}
      BY <2>1, <3>2 DEF Kept
    <3>3. QED
      BY <3>1, <3>2
  <2>5. QED
    BY <2>3, <2>4 DEF RulesInv
<1>8a. ASSUME NEW S \in SUBSET Rule, EndInSave(S) PROVE RulesInv'
  <2>1. rules_json' \in Emptied /\ lost' = TRUE /\ UNCHANGED rule_dir
    BY <1>8a DEF EndInSave
  <2>2. QED
    BY <1>1, <2>1 DEF Emptied, Broken, RulesInv, StoreOK, Kept, Stored, RulesFile
<1>9. CASE End
  BY <1>2, <1>9 DEF End
<1>10. CASE eventTick \/ MenuReturns \/ Click \/ accessGranted
  BY <1>2, <1>10 DEF eventTick, StartRefresh, CountDown, MenuReturns, Click, accessGranted
<1>11. CASE \/ \E i \in DOMAIN loops, feed \in Feeds : FeedArrives(i, feed)
            \/ \E row \in 1..Len(torrentTable) : torrentContextMenu(row)
            \/ \E i \in DOMAIN loops : Pick(i) \/ Dismiss(i)
  BY <1>2, <1>11 DEF FeedArrives, torrentContextMenu, Pick, Dismiss
<1>12. CASE UNCHANGED vars
  BY <1>2, <1>12 DEF vars
<1>13. QED
  BY <1>4, <1>5, <1>6, <1>7, <1>8, <1>8a, <1>9, <1>10, <1>11, <1>12 DEF Next, Program, User

(* Whatever rules there are and however often the program starts, ends,     *)
(* saves, and cannot open or write rules.json: a rule the user has entered  *)
(* and that has not expired is in rules.json or still in the old directory, *)
(* unless it was lost in one of the known ways.                             *)
THEOREM RulesKept == Spec => []RulesSurvive
<1>1. RulesInv => RulesSurvive
  BY DEF RulesInv, Kept, RulesSurvive, Taken
<1>2. QED
  BY <1>1, RulesInit, RulesNext, PTL DEF Spec

-----------------------------------------------------------------------------
(* The downloads.                                                           *)

(* A torrent that was downloaded, and noted, is in the history.             *)
OnceInv ==
    /\ downloads \in [File -> Nat]
    /\ settings \in [interval : Interval, download : BOOLEAN]
    /\ \A f \in File \ (Unwritable \cup interrupted) :
          downloads[f] <= 1 /\ (downloads[f] = 1 => f \in history)

LEMMA PartsAreCounted ==
    ASSUME NEW S, IsFiniteSet(S), NEW T \in SUBSET S
    PROVE  IsFiniteSet(T) /\ Cardinality(T) \in Nat
<1>1. IsFiniteSet(T)
  BY FS_Subset
<1>2. QED
  BY <1>1, FS_CardinalityType

LEMMA CallsAreCounted ==
    ASSUME NEW f, NEW D \in SUBSET Rule, NEW M \in SUBSET Rule
    PROVE  Calls(f, D, M) \in Nat
<1> DEFINE A == {r \in D : f \in Matches[r]}
           B == {r \in Basic(M) : f \in Matches[r]}
<1>1. A \in SUBSET Rule /\ B \in SUBSET Rule
  BY DEF Basic
<1>2. Calls(f, D, M) = Cardinality(A) + Cardinality(B)
  BY DEF Calls
<1>3. IsFiniteSet(Rule)
  BY TorrentsAssumption
<1> HIDE DEF A, B
<1>4. Cardinality(A) \in Nat /\ Cardinality(B) \in Nat
  BY <1>1, <1>3, PartsAreCounted
<1>5. QED
  BY <1>2, <1>4

LEMMA RowsAreCounted ==
    ASSUME NEW n \in Nat, NEW table, NEW f
    PROVE  /\ IsFiniteSet({j \in 1..n : table[j] = f})
           /\ Cardinality({j \in 1..n : table[j] = f}) \in Nat
<1> DEFINE S == {j \in 1..n : table[j] = f}
<1>1. IsFiniteSet(1..n)
  BY FS_Interval
<1>2. S \in SUBSET (1..n)
  OBVIOUS
<1> HIDE DEF S
<1>3. IsFiniteSet(S) /\ Cardinality(S) \in Nat
  BY <1>1, <1>2, PartsAreCounted
<1>4. QED
  BY <1>3 DEF S

LEMMA GetsOnce ==
    ASSUME NEW n \in Nat, NEW table, NEW f, NEW D \in SUBSET Rule, NEW M \in SUBSET Rule
    PROVE  /\ Got(f, table, n, D, M) \in Nat
           /\ f \notin Unwritable => Got(f, table, n, D, M) <= 1
           /\ Got(f, table, n, D, M) > 0 => f \notin history
<1> DEFINE rows == Cardinality({j \in 1..n : table[j] = f})
           c == Calls(f, D, M)
<1>1. rows \in Nat /\ c \in Nat
  BY RowsAreCounted, CallsAreCounted
<1>2. rows * c \in Nat
  BY <1>1
<1>3. Got(f, table, n, D, M) = IF ~settings.download \/ f \in history THEN 0
                               ELSE IF f \in Unwritable THEN rows * c ELSE Least(rows * c, 1)
  BY DEF Got
<1> HIDE DEF rows, c
<1> DEFINE calls == rows * c
<1>4. calls \in Nat
  BY <1>2
<1> HIDE DEF calls
<1>5. Least(calls, 1) \in 0..1
  BY <1>4 DEF Least
<1>6. Got(f, table, n, D, M) = IF ~settings.download \/ f \in history THEN 0
                               ELSE IF f \in Unwritable THEN calls ELSE Least(calls, 1)
  BY <1>3 DEF calls
<1>7. QED
  BY <1>4, <1>5, <1>6

\* got[f] is how often f is downloaded.
LEMMA Getting ==
    ASSUME OnceInv, NEW got \in [File -> Nat],
           \A f \in File : got[f] > 0 => f \notin history,
           \A f \in File \ (Unwritable \cup interrupted') :
              got[f] <= 1 /\ (got[f] > 0 => f \in history'),
           history \subseteq history', interrupted \subseteq interrupted',
           downloads' = [f \in File |-> Least(downloads[f] + got[f], 2)],
           settings' = settings
    PROVE  OnceInv'
<1>1. downloads \in [File -> Nat]
  BY DEF OnceInv
<1>2. downloads' \in [File -> Nat]
  BY <1>1 DEF Least
<1>3. ASSUME NEW f \in File \ (Unwritable \cup interrupted')
      PROVE  downloads'[f] <= 1 /\ (downloads'[f] = 1 => f \in history')
  <2>1. /\ downloads[f] \in Nat /\ got[f] \in Nat
        /\ downloads[f] <= 1 /\ (downloads[f] = 1 => f \in history)
    BY <1>1, <1>3 DEF OnceInv
  <2>2. downloads'[f] = Least(downloads[f] + got[f], 2)
    OBVIOUS
  <2>3. CASE got[f] = 0
    BY <2>1, <2>2, <2>3 DEF Least
  <2>4. CASE got[f] > 0
    <3>1. got[f] = 1 /\ downloads[f] = 0 /\ f \in history'
      BY <1>3, <2>1, <2>4
    <3>2. QED
      BY <2>2, <3>1 DEF Least
  <2>5. QED
    BY <2>1, <2>3, <2>4
<1>4. QED
  BY <1>2, <1>3 DEF OnceInv

LEMMA MatchingOnce ==
    ASSUME OnceInv, NEW n \in Nat, NEW table, NEW D \in SUBSET Rule, NEW M \in SUBSET Rule,
           MatchRows(table, n, D, M), UNCHANGED <<interrupted, settings>>
    PROVE  OnceInv'
<1> DEFINE got == [f \in File |-> Got(f, table, n, D, M)]
<1>1. \A f \in File : got[f] = Got(f, table, n, D, M)
  OBVIOUS
<1>2. /\ history' = history \cup {f \in File : got[f] > 0 /\ f \notin Unwritable}
      /\ downloads' = [f \in File |-> Least(downloads[f] + got[f], 2)]
  BY DEF MatchRows
<1>3. got = [f \in File |-> got[f]]
  OBVIOUS
<1> HIDE DEF got
<1>4. ASSUME NEW f \in File
      PROVE  /\ got[f] \in Nat
             /\ f \notin Unwritable => got[f] <= 1
             /\ got[f] > 0 => f \notin history
  BY <1>1, GetsOnce
<1>5. got \in [File -> Nat]
  BY <1>3, <1>4
<1>6. \A f \in File \ (Unwritable \cup interrupted') :
         got[f] <= 1 /\ (got[f] > 0 => f \in history')
  BY <1>2, <1>4
<1>7. history \subseteq history' /\ interrupted \subseteq interrupted'
  BY <1>2
<1>8. QED
  BY <1>2, <1>4, <1>5, <1>6, <1>7, Getting

LEMMA EndingOnce ==
    ASSUME OnceInv, StoreOK, NEW n \in Nat, EndInDownload(n)
    PROVE  OnceInv'
<1>1. PICK io, M :
        LET D == Taken
            table == Usable(Innermost.feed)
            f == table[n + 1]
            got(g) == Got(g, table, IF g = f THEN n + 1 ELSE n, D, M)
        IN
        /\ M \in InForce(rules_json, io)
        /\ history' = history \cup {g \in File \ (Unwritable \cup {f}) : got(g) > 0}
        /\ downloads' = [g \in File |-> Least(downloads[g] + got(g), 2)]
        /\ interrupted' = interrupted \cup {f}
  BY DEF EndInDownload
<1> DEFINE D == Taken
           table == Usable(Innermost.feed)
           f == table[n + 1]
           rows(g) == IF g = f THEN n + 1 ELSE n
           got == [g \in File |-> Got(g, table, rows(g), D, M)]
<1>2. \A g \in File : got[g] = Got(g, table, rows(g), D, M)
  OBVIOUS
<1>3. got = [g \in File |-> got[g]]
  OBVIOUS
<1>4. /\ history' = history \cup {g \in File \ (Unwritable \cup {f}) : got[g] > 0}
      /\ downloads' = [g \in File |-> Least(downloads[g] + got[g], 2)]
      /\ interrupted' = interrupted \cup {f}
  BY <1>1
<1>5. settings' = settings
  BY DEF EndInDownload
<1>6. D \in SUBSET Rule /\ M \in SUBSET Rule
  BY <1>1, InForceRules DEF StoreOK, Stored
<1>7. \A g : rows(g) \in Nat
  OBVIOUS
<1> HIDE DEF got, D, table, f, rows
<1>8. ASSUME NEW g \in File
      PROVE  /\ got[g] \in Nat
             /\ g \notin Unwritable => got[g] <= 1
             /\ got[g] > 0 => g \notin history
  <2>1. rows(g) \in Nat
    BY <1>7
  <2>2. QED
    BY <1>2, <1>6, <2>1, GetsOnce
<1>9. got \in [File -> Nat]
  BY <1>3, <1>8
<1>10. \A g \in File \ (Unwritable \cup interrupted') :
          got[g] <= 1 /\ (got[g] > 0 => g \in history')
  BY <1>4, <1>8
<1>11. history \subseteq history' /\ interrupted \subseteq interrupted'
  BY <1>4
<1>12. QED
  BY <1>4, <1>5, <1>8, <1>9, <1>10, <1>11, Getting

(* How many rows of the table are filled.                                   *)
LEMMA Offset ==
    ASSUME NEW X, NEW feed \in Seq(X)
    PROVE  offset(feed) \in Nat /\ offset(feed) <= Len(feed)
<1> DEFINE S == {j \in DOMAIN feed : feed[j] = Unusable}
<1>1. DOMAIN feed = 1..Len(feed) /\ Len(feed) \in Nat
  OBVIOUS
<1>2. IsFiniteSet(1..Len(feed)) /\ Cardinality(1..Len(feed)) = Len(feed)
  BY <1>1, FS_Interval
<1>3. S \subseteq 1..Len(feed)
  BY <1>1
<1> HIDE DEF S
<1>4. IsFiniteSet(S) /\ Cardinality(S) <= Cardinality(1..Len(feed))
  BY <1>2, <1>3, FS_Subset
<1>5. Cardinality(S) \in Nat
  BY <1>4, FS_CardinalityType
<1>6. QED
  BY <1>2, <1>4, <1>5 DEF offset, S

LEMMA TheFeed ==
    ASSUME LoopsOK, FeedIsThere
    PROVE  /\ Innermost.feed \in Seq(File \cup {Unusable})
           /\ Len(Innermost.feed) \in Nat
           /\ offset(Innermost.feed) \in Nat
           /\ Len(Innermost.feed) - offset(Innermost.feed) \in Nat
<1>1. loops # <<>> /\ Innermost.op = "refresh"
  BY DEF FeedIsThere
<1>2. Len(loops) \in Nat \ {0}
  BY <1>1, Leaves
<1>3. Len(loops) \in 1..Len(loops)
  BY <1>2
<1>4. IsLoop(Innermost)
  BY <1>3 DEF LoopsOK, Innermost
<1>5. Innermost \in RefreshLoop
  BY <1>1, <1>4 DEF IsLoop, MenuLoop
<1>6. Innermost.feed \in Feeds \cup {<<>>}
  BY <1>5 DEF RefreshLoop
<1>7. Innermost.feed \in Seq(File \cup {Unusable})
  <2>1. Feeds \subseteq Seq(File \cup {Unusable})
    BY TorrentsAssumption
  <2>2. <<>> \in Seq(File \cup {Unusable})
    OBVIOUS
  <2>3. QED
    BY <1>6, <2>1, <2>2
<1>8. Len(Innermost.feed) \in Nat
  BY <1>7
<1>9. offset(Innermost.feed) \in Nat /\ offset(Innermost.feed) <= Len(Innermost.feed)
  BY <1>7, Offset
<1>10. QED
  BY <1>7, <1>8, <1>9

LEMMA OnceInit == Init => OnceInv
  BY DEF Init, OnceInv

LEMMA OnceNext == LoopsOK /\ StoreOK /\ OnceInv /\ [Next]_vars => OnceInv'
<1> SUFFICES ASSUME LoopsOK, StoreOK, OnceInv, [Next]_vars PROVE OnceInv'
  OBVIOUS
<1>1. CASE /\ UNCHANGED <<downloads, history, interrupted>>
           /\ settings' \in [interval : Interval, download : BOOLEAN]
  BY <1>1 DEF OnceInv
<1>2. CASE UNCHANGED <<downloads, history, interrupted, settings>>
  BY <1>2 DEF OnceInv
<1>3. CASE RefreshReturns
  <2> DEFINE usable == Len(Innermost.feed) - offset(Innermost.feed)
  <2>1. PICK io, M, n :
             /\ M \in InForce(rules_json, io)
             /\ n \in {usable, Least(usable, 1)}
             /\ MatchRows(Filled(Innermost.feed), n, Taken, M)
    BY <1>3 DEF RefreshReturns
  <2>2. usable \in Nat
    BY <1>3, TheFeed DEF RefreshReturns
  <2> HIDE DEF usable
  <2>3. n \in Nat
    BY <2>1, <2>2 DEF Least
  <2>4. Taken \in SUBSET Rule /\ M \in SUBSET Rule
    BY <2>1, InForceRules DEF StoreOK, Stored
  <2>5. UNCHANGED <<interrupted, settings>>
    BY <1>3 DEF RefreshReturns
  <2>6. QED
    BY <2>1, <2>3, <2>4, <2>5, MatchingOnce
<1>4. CASE FeedIsThere /\ \E n \in 0..Len(Innermost.feed) - 1 : EndInDownload(n)
  <2>1. PICK n \in 0..Len(Innermost.feed) - 1 : EndInDownload(n)
    BY <1>4
  <2>2. n \in Nat
    OBVIOUS
  <2>3. QED
    BY <2>1, <2>2, EndingOnce
<1>5. CASE Start \/ eventTick \/ MenuReturns \/ Click \/ accessGranted
  BY <1>2, <1>5 DEF Start, eventTick, StartRefresh, CountDown, MenuReturns, Click,
                    accessGranted, matchVars
<1>6. CASE End \/ EndInMigration
  BY <1>2, <1>6 DEF End, EndInMigration
<1>6a. CASE \E S \in SUBSET Rule : EndInSave(S)
  BY <1>1, <1>6a DEF EndInSave
<1>7. CASE \E S \in SUBSET Rule : SaveSettings(S)
  BY <1>1, <1>7 DEF SaveSettings
<1>8. CASE \/ \E i \in DOMAIN loops, feed \in Feeds : FeedArrives(i, feed)
           \/ \E row \in 1..Len(torrentTable) : torrentContextMenu(row)
           \/ \E i \in DOMAIN loops : Pick(i) \/ Dismiss(i)
  BY <1>2, <1>8 DEF FeedArrives, torrentContextMenu, Pick, Dismiss, matchVars
<1>9. CASE UNCHANGED vars
  BY <1>2, <1>9 DEF vars, matchVars
<1>10. QED
  BY <1>3, <1>4, <1>5, <1>6, <1>6a, <1>7, <1>8, <1>9 DEF Next, Program, User

(* However refreshes overlap, rules are listed twice and the program starts *)
(* and ends, the rules download a torrent once, unless the history cannot   *)
(* have it or the program ended between the download and its note.          *)
THEOREM OneDownload == Spec => []DownloadedOnce
<1>1. OnceInv => DownloadedOnce
  BY DEF OnceInv, DownloadedOnce
<1>2. CountdownInv => LoopsOK
  BY DEF CountdownInv
<1>3. RulesInv => StoreOK
  BY DEF RulesInv
<1>4. QED
  BY <1>1, <1>2, <1>3, CountdownInit, CountdownNext, RulesInit, RulesNext, OnceInit, OnceNext,
     PTL DEF Spec

-----------------------------------------------------------------------------
(* The table after a refresh.                                               *)
TableOK == \E X : torrentTable \in Seq(X)

LEMMA FilledRows ==
    ASSUME TableOK, NEW X, NEW feed \in Seq(X)
    PROVE  /\ \E Y : Filled(feed) \in Seq(Y)
           /\ Len(Filled(feed)) = IF Len(feed) > Len(torrentTable)
                                 THEN Len(feed) - offset(feed)
                                 ELSE Len(torrentTable) - offset(feed)
<1> DEFINE cell(j) == IF j <= Len(Usable(feed)) THEN Usable(feed)[j] ELSE Blank
           rows == IF Len(feed) > Len(torrentTable) THEN Len(feed) ELSE Len(torrentTable)
           k == rows - offset(feed)
<1>1. Len(feed) \in Nat /\ Len(torrentTable) \in Nat
  BY DEF TableOK
<1>2. offset(feed) \in Nat /\ offset(feed) <= Len(feed)
  BY Offset
<1>3. k \in Nat
  BY <1>1, <1>2
<1>4. Filled(feed) = [j \in 1..k |-> cell(j)]
  BY DEF Filled
<1>5. k = IF Len(feed) > Len(torrentTable) THEN Len(feed) - offset(feed)
                                           ELSE Len(torrentTable) - offset(feed)
  OBVIOUS
<1> HIDE DEF cell, k
<1> DEFINE Y == {cell(j) : j \in 1..k}
<1>6. Filled(feed) \in [1..k -> Y]
  BY <1>4
<1> HIDE DEF Y
<1>7. Filled(feed) \in Seq(Y) /\ Len(Filled(feed)) = k
  BY <1>3, <1>6
<1>8. QED
  BY <1>5, <1>7

\* A refresh whose table got longer than the usable items had too few items.
LEMMA RefreshFills ==
    ASSUME LoopsOK, TableOK, RefreshReturns
    PROVE  /\ TableOK'
           /\ ~shrunk' => Len(Filled(Innermost.feed))
                            = Len(Innermost.feed) - offset(Innermost.feed)
<1>1. /\ Innermost.feed \in Seq(File \cup {Unusable})
      /\ Len(Innermost.feed) \in Nat /\ offset(Innermost.feed) \in Nat
  BY TheFeed DEF RefreshReturns
<1>2. Len(torrentTable) \in Nat
  BY DEF TableOK
<1>3. /\ torrentTable' = Filled(Innermost.feed)
      /\ shrunk' = (shrunk \/ Len(Innermost.feed) < Len(torrentTable))
  BY DEF RefreshReturns
<1>4. /\ \E Y : Filled(Innermost.feed) \in Seq(Y)
      /\ Len(Filled(Innermost.feed)) =
           IF Len(Innermost.feed) > Len(torrentTable)
           THEN Len(Innermost.feed) - offset(Innermost.feed)
           ELSE Len(torrentTable) - offset(Innermost.feed)
  BY <1>1, FilledRows
<1>5. TableOK'
  BY <1>3, <1>4 DEF TableOK
<1>6. ~shrunk' => Len(Filled(Innermost.feed))
                    = Len(Innermost.feed) - offset(Innermost.feed)
  <2>1. ~shrunk' => ~(Len(Innermost.feed) < Len(torrentTable))
    BY <1>3
  <2> DEFINE n == Len(Innermost.feed)
             m == Len(torrentTable)
             t == Len(Filled(Innermost.feed))
             o == offset(Innermost.feed)
  <2>2. /\ n \in Nat /\ m \in Nat
        /\ ~shrunk' => ~(n < m)
        /\ t = IF n > m THEN n - o ELSE m - o
    BY <1>1, <1>2, <1>4, <2>1
  <2> HIDE DEF n, m, t, o
  <2>3. ~shrunk' => t = n - o
    BY <2>2
  <2>4. QED
    BY <2>3 DEF n, m, t, o
<1>7. QED
  BY <1>5, <1>6

LEMMA TableInit == Init => TableOK
<1>1. Init => torrentTable \in Seq({})
  BY DEF Init
<1>2. QED
  BY <1>1 DEF TableOK

LEMMA TableNext == LoopsOK /\ TableOK /\ [Next]_vars => TableOK'
<1> SUFFICES ASSUME LoopsOK, TableOK, [Next]_vars PROVE TableOK'
  OBVIOUS
<1>1. CASE RefreshReturns
  BY <1>1, RefreshFills
<1>2. CASE UNCHANGED torrentTable
  BY <1>2 DEF TableOK
<1>3. CASE Ends
  <2>1. torrentTable' \in Seq({})
    BY <1>3 DEF Ends
  <2>2. QED
    BY <2>1 DEF TableOK
<1>4. CASE Start \/ eventTick \/ MenuReturns \/ Click \/ accessGranted
  BY <1>2, <1>4 DEF Start, eventTick, StartRefresh, CountDown, MenuReturns, Click,
                    accessGranted
<1>5. CASE \/ End \/ EndInMigration \/ \E S \in SUBSET Rule : EndInSave(S)
           \/ \E n \in 0..Len(Innermost.feed) - 1 : EndInDownload(n)
  BY <1>3, <1>5 DEF End, EndInMigration, EndInSave, EndInDownload
<1>6. CASE \/ \E i \in DOMAIN loops, feed \in Feeds : FeedArrives(i, feed)
           \/ \E row \in 1..Len(torrentTable) : torrentContextMenu(row)
           \/ \E i \in DOMAIN loops : Pick(i) \/ Dismiss(i)
           \/ \E S \in SUBSET Rule : SaveSettings(S)
  BY <1>2, <1>6 DEF FeedArrives, torrentContextMenu, Pick, Dismiss, SaveSettings
<1>7. CASE UNCHANGED vars
  BY <1>2, <1>7 DEF vars
<1>8. QED
  BY <1>1, <1>4, <1>5, <1>6, <1>7 DEF Next, Program, User

-----------------------------------------------------------------------------
(* What makes a refresh or a menu fail.                                     *)

LEMMA FailNext ==
    LoopsOK /\ TableOK /\ MenuInv /\ FailsOnlyAsKnown /\ [Next]_vars => FailsOnlyAsKnown'
<1> SUFFICES ASSUME LoopsOK, TableOK, MenuInv, FailsOnlyAsKnown, [Next]_vars
             PROVE  FailsOnlyAsKnown'
  OBVIOUS
<1>1. CASE UNCHANGED vars
  BY <1>1 DEF FailsOnlyAsKnown, vars, causeVars, menuVars
<1>2. CASE ~corrupt /\ UNCHANGED corrupt
  BY <1>2 DEF FailsOnlyAsKnown
<1>3. CASE RefreshReturns
  <2> DEFINE usable == Len(Innermost.feed) - offset(Innermost.feed)
  <2>1. PICK io, M :
            LET bad == Filled(Innermost.feed) # <<>> /\ Overrun(Taken, M) IN
            /\ overrun' = (overrun \/ bad)
            /\ corrupt' = (bad \/ Len(Filled(Innermost.feed)) > usable)
    BY <1>3 DEF RefreshReturns
  <2>2. ~shrunk' => Len(Filled(Innermost.feed)) = usable
    BY <1>3, RefreshFills
  <2>3. usable \in Nat
    BY <1>3, TheFeed DEF RefreshReturns
  <2> HIDE DEF usable
  <2>4. ~shrunk' => ~(Len(Filled(Innermost.feed)) > usable)
    BY <2>2, <2>3
  <2>5. QED
    BY <2>1, <2>4 DEF FailsOnlyAsKnown
<1>4. ASSUME NEW i \in DOMAIN loops, Pick(i) PROVE FailsOnlyAsKnown'
  <2>1. i \in 1..Len(loops)
    BY DEF LoopsOK
  <2>2. loops[i].op = "menu" /\ MenuFits(loops[i])
    BY <1>4, <2>1 DEF Pick, MenuIsOpen, MenuInv, MenusFit
  <2>3. Len(torrentTable) \in Nat
    BY DEF TableOK
  <2>4. loops[i].stale \/ loops[i].row <= Len(torrentTable)
    BY <2>2, <2>3 DEF MenuFits
  <2>5. /\ corrupt' = ~(loops[i].row <= Len(torrentTable))
        /\ replaced' = (replaced \/ loops[i].stale)
    BY <1>4 DEF Pick
  <2>6. QED
    BY <2>4, <2>5 DEF FailsOnlyAsKnown
<1>5. CASE ~corrupt /\ (Start \/ eventTick \/ MenuReturns \/ Click \/ accessGranted)
  BY <1>2, <1>5 DEF Start, eventTick, StartRefresh, CountDown, MenuReturns, Click,
                    accessGranted
<1>6. CASE /\ ~corrupt
           /\ \/ End \/ EndInMigration \/ \E S \in SUBSET Rule : EndInSave(S)
              \/ \E n \in 0..Len(Innermost.feed) - 1 : EndInDownload(n)
  BY <1>2, <1>6 DEF End, EndInMigration, EndInSave, EndInDownload, Ends
<1>7. CASE /\ ~corrupt
           /\ \/ \E i \in DOMAIN loops, feed \in Feeds : FeedArrives(i, feed)
              \/ \E row \in 1..Len(torrentTable) : torrentContextMenu(row)
              \/ \E i \in DOMAIN loops : Dismiss(i)
              \/ \E S \in SUBSET Rule : SaveSettings(S)
  BY <1>2, <1>7 DEF FeedArrives, torrentContextMenu, Dismiss, SaveSettings
<1>8. QED
  BY <1>1, <1>3, <1>4, <1>5, <1>6, <1>7 DEF Next, Program, User

(* Whatever the feeds and the rules are: a cell or a rule that is not there *)
(* is used only after a feed with fewer items than the table has rows, with *)
(* more advanced than basic rules, or in a menu older than the table.       *)
THEOREM FailuresAreKnown == Spec => []FailsOnlyAsKnown
<1>1. Init => FailsOnlyAsKnown
  BY DEF Init, FailsOnlyAsKnown
<1>2. CountdownInv => LoopsOK
  BY DEF CountdownInv
<1>3. QED
  BY <1>1, <1>2, CountdownInit, CountdownNext, TableInit, TableNext, MenuInit, MenuNext,
     FailNext, PTL DEF Spec

-----------------------------------------------------------------------------
(* The rules are applied.                                                   *)
AppliedInv == BasicRulesApply /\ (~up => ~settled)

\* A row that a basic rule matches is downloaded or has been.
LEMMA MatchedRow ==
    ASSUME StoreOK, settings.download, NEW table, NEW n \in Nat, NEW j \in 1..n,
           NEW D \in SUBSET Rule, NEW M \in SUBSET Rule,
           NEW r \in Basic(M), table[j] \in Matches[r],
           MatchRows(table, n, D, M)
    PROVE  table[j] \in history' \cup Unwritable
<1> DEFINE f == table[j]
           Rows == {i \in 1..n : table[i] = f}
           A == {q \in D : f \in Matches[q]}
           B == {q \in Basic(M) : f \in Matches[q]}
           calls == Cardinality(Rows) * (Cardinality(A) + Cardinality(B))
<1>1. f \in File
  BY TorrentsAssumption DEF Basic
<1>2. j \in Rows /\ r \in B
  OBVIOUS
<1>3. A \in SUBSET Rule /\ B \in SUBSET Rule /\ Rows \in SUBSET (1..n)
  BY DEF Basic
<1>4. IsFiniteSet(Rule) /\ IsFiniteSet(1..n)
  BY TorrentsAssumption, FS_Interval
<1>5. Got(f, table, n, D, M) = IF ~settings.download \/ f \in history THEN 0
                               ELSE IF f \in Unwritable THEN calls ELSE Least(calls, 1)
  BY DEF Got, Calls
<1>6. history' = history \cup {g \in File : Got(g, table, n, D, M) > 0 /\ g \notin Unwritable}
  BY DEF MatchRows
<1> HIDE DEF f, Rows, A, B
<1>7. /\ IsFiniteSet(A) /\ Cardinality(A) \in Nat
      /\ IsFiniteSet(B) /\ Cardinality(B) \in Nat
      /\ IsFiniteSet(Rows) /\ Cardinality(Rows) \in Nat
  BY <1>3, <1>4, PartsAreCounted
<1>8. Cardinality(Rows) # 0 /\ Cardinality(B) # 0
  BY <1>2, <1>7, FS_EmptySet
<1>9. calls \in Nat /\ calls >= 1
  BY <1>7, <1>8
<1> HIDE DEF calls
<1>10. f \notin history \cup Unwritable => Got(f, table, n, D, M) = 1
  BY <1>5, <1>9 DEF Least
<1>11. f \in history' \cup Unwritable
  BY <1>1, <1>6, <1>10
<1>12. QED
  BY <1>11 DEF f

LEMMA RefreshApplies ==
    ASSUME LoopsOK, TableOK, StoreOK, RefreshReturns, settled', ~corrupt'
    PROVE  BasicRulesApply'
<1> DEFINE table == Filled(Innermost.feed)
           usable == Len(Innermost.feed) - offset(Innermost.feed)
           D == Taken
<1>1. PICK io, M :
          LET bad == table # <<>> /\ Overrun(D, M) IN
          /\ io \in Outcomes /\ M \in InForce(rules_json, io)
          /\ reloadRules(rules_json, M, io)
          /\ lost' = (lost \/ Loses(rules_json, io))
          /\ settled' = (settings.download /\ io = "done")
          /\ MatchRows(table, IF bad THEN Least(usable, 1) ELSE usable, D, M)
          /\ corrupt' = (bad \/ Len(table) > usable)
  BY DEF RefreshReturns
<1>2. torrentTable' = table /\ settings.download
  BY DEF RefreshReturns
<1>3. usable \in Nat
  BY TheFeed DEF RefreshReturns
<1>4. TableOK'
  BY RefreshFills
<1>5. /\ rules_json \in RulesFile /\ (rules_json.text # "object" => rules_json.rules = {})
      /\ rule_dir \in RulesDir
  BY DEF StoreOK, Stored
<1>6. M \in SUBSET Rule /\ D \in SUBSET Rule
  BY <1>1, <1>5, InForceRules
<1>7. rules_json'.rules \subseteq M
  <2>1. lost' = (lost \/ FALSE \/ Loses(rules_json, io)) /\ io = "done"
    BY <1>1
  <2>2. QED
    BY <1>1, <1>5, <2>1, Reloading
<1> HIDE DEF table, usable
<1>8. MatchRows(table, usable, D, M) /\ ~(Len(table) > usable)
  BY <1>1
<1>9. DOMAIN table = 1..Len(table) /\ Len(table) \in Nat
  BY <1>2, <1>4 DEF TableOK
<1>10. DOMAIN table \subseteq 1..usable
  BY <1>3, <1>8, <1>9
<1>11. Basic(rules_json.rules)' \subseteq Basic(M)
  BY <1>7 DEF Basic
<1> HIDE DEF D
<1>12. ASSUME NEW j \in DOMAIN table, NEW r \in Basic(M), table[j] \in Matches[r]
       PROVE  table[j] \in history' \cup Unwritable
  BY <1>2, <1>3, <1>5, <1>6, <1>8, <1>10, <1>12, MatchedRow
<1>13. QED
  BY <1>2, <1>11, <1>12 DEF BasicRulesApply, Applied

LEMMA AppliedNext ==
    LoopsOK /\ TableOK /\ StoreOK /\ AppliedInv /\ [Next]_vars => AppliedInv'
<1> SUFFICES ASSUME LoopsOK, TableOK, StoreOK, AppliedInv, [Next]_vars PROVE AppliedInv'
  OBVIOUS
<1>1. CASE /\ UNCHANGED <<torrentTable, rules_json, history, settled>>
           /\ ~corrupt \/ UNCHANGED corrupt
           /\ UNCHANGED up
  BY <1>1 DEF AppliedInv, BasicRulesApply, Applied, Basic
<1>2. CASE ~settled'
  BY <1>2 DEF AppliedInv, BasicRulesApply, Applied
<1>3. CASE RefreshReturns
  <2>1. BasicRulesApply'
    BY <1>2, <1>3, RefreshApplies DEF BasicRulesApply, Applied
  <2>2. up'
    BY <1>3 DEF RefreshReturns, FeedIsThere
  <2>3. QED
    BY <2>1, <2>2 DEF AppliedInv
<1>4. CASE Start
  <2>1. ~settled'
    BY <1>4 DEF AppliedInv, Start, matchVars
  <2>2. QED
    BY <1>2, <2>1
<1>5. CASE \/ End \/ EndInMigration \/ \E S \in SUBSET Rule : EndInSave(S)
           \/ \E n \in 0..Len(Innermost.feed) - 1 : EndInDownload(n)
  BY <1>2, <1>5 DEF End, EndInMigration, EndInSave, EndInDownload, Ends
<1>6. CASE \E S \in SUBSET Rule : SaveSettings(S)
  BY <1>2, <1>6 DEF SaveSettings
<1>7. CASE eventTick \/ MenuReturns \/ Click \/ accessGranted
  BY <1>1, <1>7 DEF eventTick, StartRefresh, CountDown, MenuReturns, Click, accessGranted,
                    matchVars, fileVars
<1>8. CASE \/ \E i \in DOMAIN loops, feed \in Feeds : FeedArrives(i, feed)
           \/ \E row \in 1..Len(torrentTable) : torrentContextMenu(row)
           \/ \E i \in DOMAIN loops : Dismiss(i)
  BY <1>1, <1>8 DEF FeedArrives, torrentContextMenu, Dismiss, matchVars, fileVars
<1>9. CASE ~corrupt /\ \E i \in DOMAIN loops : Pick(i)
  BY <1>1, <1>9 DEF Pick, matchVars, fileVars
<1>10. CASE UNCHANGED vars
  BY <1>1, <1>10 DEF vars, matchVars, fileVars
<1>11. QED
  BY <1>3, <1>4, <1>5, <1>6, <1>7, <1>8, <1>9, <1>10 DEF Next, Program, User

(* Whatever the feeds and the rules are: once the rules were applied to the *)
(* table and nothing failed, every torrent in it that a basic rule of       *)
(* rules.json names is downloaded.                                          *)
THEOREM RulesAreApplied == Spec => []BasicRulesApply
<1>1. Init => AppliedInv
  BY DEF Init, AppliedInv, BasicRulesApply, Applied
<1>2. CountdownInv => LoopsOK
  BY DEF CountdownInv
<1>3. RulesInv => StoreOK
  BY DEF RulesInv
<1>4. AppliedInv => BasicRulesApply
  BY DEF AppliedInv
<1>5. QED
  BY <1>1, <1>2, <1>3, <1>4, CountdownInit, CountdownNext, RulesInit, RulesNext,
     TableInit, TableNext, AppliedNext, PTL DEF Spec

=============================================================================
