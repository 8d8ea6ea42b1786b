--------------------------- MODULE BrowserProofs ---------------------------
(***************************************************************************)
(* AskedIsShown for every season, every number of clicks and changes, and  *)
(* whatever else the loader is asked.                                      *)
(***************************************************************************)
EXTENDS Browser, SequenceTheorems, TLAPS

LoadRec == [n : Load, boxes : Boxes, genres : Genres,
            pc : {"get", "next", "asked", "waits"}, results : Seq(Result),
            i : Nat \ {0}, anime : Anime \cup {NoEntry}, quit : BOOLEAN]
CardRec == [load : Load, boxes : Boxes, at : Nat \ {0}]

TypeOK ==
    /\ boxes \in Boxes /\ genres \in Genres
    /\ layout2 \in Seq(CardRec)
    /\ loads \in Seq(LoadRec)
    /\ needLoad \in SUBSET Anime /\ needCover \in SUBSET Anime
    /\ waiting \in Seq(Request) /\ serving \in SUBSET Request
    /\ broken \in BOOLEAN /\ box \in BOOLEAN
    /\ missed \in BOOLEAN /\ kept \in BOOLEAN
    /\ choices \in Nat /\ others \in Nat /\ clicks \in 0..MaxLoads
    /\ due \in Seq(Result)

\* The later a click, the further in is its load.
StackInv ==
    /\ \A j \in DOMAIN loads : loads[j].n <= clicks
    /\ \A j, k \in DOMAIN loads : j < k => loads[j].n < loads[k].n

OfLastClick == loads # <<>> /\ Innermost.n = clicks

\* While the load of the last click runs, the page has its cards and no other.
LastInv ==
    OfLastClick =>
        /\ Len(layout2) = Innermost.i - 1
        /\ \A c \in DOMAIN layout2 : layout2[c].load = clicks /\ layout2[c].at = c
        /\ Innermost.pc # "get" => Innermost.results = due
        /\ kept => Innermost.boxes = boxes

\* When it has returned, they stay in front of what overtaken loads add.
ShownInv == kept /\ clicks > 0 /\ ~OfLastClick => InOrder /\ Complete

CardInv ==
    \A j \in DOMAIN loads, c \in DOMAIN layout2 :
        layout2[c].load = loads[j].n => layout2[c].boxes = loads[j].boxes

\* An overtaken load for other boxes that still runs has no card yet.
LateInv ==
    kept =>
        /\ \A j \in DOMAIN loads, c \in DOMAIN layout2 :
              loads[j].n # clicks /\ loads[j].boxes # boxes
                  => layout2[c].load # loads[j].n
        /\ OneLateCard

Inv == StackInv /\ LastInv /\ ShownInv /\ CardInv /\ LateInv

-----------------------------------------------------------------------------
(* The stack of loads.                                                      *)

LEMMA OuterLoads ==
    ASSUME TypeOK, loads # <<>>
    PROVE  /\ Outer \in Seq(LoadRec)
           /\ Len(Outer) = Len(loads) - 1
           /\ \A j \in 1..Len(loads) - 1 : Outer[j] = loads[j]
<1>1. loads \in Seq(LoadRec) /\ Len(loads) \in Nat \ {0}
  BY DEF TypeOK
<1>2. \A j \in 1..Len(loads) - 1 : loads[j] \in LoadRec
  BY <1>1
<1>3. 1 \in Int /\ Len(loads) - 1 \in Int
  BY <1>1
<1>4. /\ SubSeq(loads, 1, Len(loads) - 1) \in Seq(LoadRec)
      /\ Len(SubSeq(loads, 1, Len(loads) - 1)) =
             IF 1 <= Len(loads) - 1 THEN Len(loads) - 1 - 1 + 1 ELSE 0
      /\ \A j \in 1..Len(loads) - 1 - 1 + 1 :
             SubSeq(loads, 1, Len(loads) - 1)[j] = loads[1 + j - 1]
  BY <1>2, <1>3, SubSeqProperties
<1>5. \A j \in 1..Len(loads) - 1 : j \in 1..Len(loads) - 1 - 1 + 1 /\ 1 + j - 1 = j
  BY <1>1
<1>6. Len(SubSeq(loads, 1, Len(loads) - 1)) = Len(loads) - 1
  <2> DEFINE m == Len(loads)
             o == Len(SubSeq(loads, 1, Len(loads) - 1))
  <2>1. m \in Nat \ {0} /\ o = IF 1 <= m - 1 THEN m - 1 - 1 + 1 ELSE 0
    BY <1>1, <1>4
  <2> HIDE DEF m, o
  <2>2. o = m - 1
    BY <2>1
  <2> QED BY <2>2 DEF m, o
<1>7. \A j \in 1..Len(loads) - 1 : SubSeq(loads, 1, Len(loads) - 1)[j] = loads[j]
  <2> TAKE j \in 1..Len(loads) - 1
  <2>1. SubSeq(loads, 1, Len(loads) - 1)[j] = loads[1 + j - 1]
    BY <1>4, <1>5
  <2> QED BY <1>5, <2>1
<1> QED BY <1>4, <1>6, <1>7 DEF Outer

LEMMA Going ==
    ASSUME TypeOK, loads # <<>>, NEW l \in LoadRec, Goes(l)
    PROVE  /\ loads' \in Seq(LoadRec)
           /\ Len(loads') = Len(loads)
           /\ loads'[Len(loads)] = l
           /\ \A j \in 1..Len(loads) - 1 : loads'[j] = loads[j]
<1>1. loads' = Append(Outer, l)
  BY DEF Goes
<1>2. Len(loads) \in Nat \ {0}
  BY DEF TypeOK
<1> QED BY <1>1, <1>2, OuterLoads

LEMMA Ending ==
    ASSUME TypeOK, loads # <<>>, loads' = Outer
    PROVE  /\ loads' \in Seq(LoadRec)
           /\ Len(loads') = Len(loads) - 1
           /\ \A j \in 1..Len(loads) - 1 : loads'[j] = loads[j]
BY OuterLoads

LEMMA InnermostType ==
    ASSUME TypeOK, loads # <<>>
    PROVE  /\ Len(loads) \in Nat \ {0} /\ Len(loads) \in DOMAIN loads
           /\ Innermost \in LoadRec
BY DEF TypeOK, Innermost

\* A load that goes on with other results, a later card or another Anime.
LEMMA GoingType ==
    ASSUME NEW load \in LoadRec
    PROVE  /\ \A pc \in {"get", "next", "asked", "waits"}, r \in Seq(Result) :
                 [load EXCEPT !.pc = pc, !.results = r] \in LoadRec
           /\ \A a \in Anime : [load EXCEPT !.pc = "asked", !.anime = a] \in LoadRec
           /\ [load EXCEPT !.pc = "waits", !.quit = FALSE] \in LoadRec
           /\ [load EXCEPT !.pc = "next", !.i = @ + 1] \in LoadRec
<1>1. /\ load \in [n : Load, boxes : Boxes, genres : Genres,
                   pc : {"get", "next", "asked", "waits"}, results : Seq(Result),
                   i : Nat \ {0}, anime : Anime \cup {NoEntry}, quit : BOOLEAN]
      /\ load.i + 1 \in Nat \ {0}
  BY DEF LoadRec
<1> QED BY <1>1 DEF LoadRec

LEMMA EnteredType ==
    ASSUME NEW load \in LoadRec, load.i <= Last(load)
    PROVE  Entered(load) \in Entry \cup {NoEntry}
<1>1. CASE load.i < Last(load)
  <2>1. load.results[load.i] \in Result
    BY <1>1 DEF Last, LoadRec
  <2> QED BY <1>1, <2>1, BrowserAssumption DEF Entered
<1>2. CASE ~(load.i < Last(load))
  BY <1>2, BrowserAssumption DEF Entered
<1> QED BY <1>1, <1>2

-----------------------------------------------------------------------------
(* Types.                                                                   *)

LEMMA InitType == Init => TypeOK
<1> SUFFICES ASSUME Init PROVE TypeOK
  OBVIOUS
<1>1. Entry \subseteq Anime /\ 0 \in 0..MaxLoads
  BY BrowserAssumption DEF Anime
<1>2. /\ <<>> \in Seq(CardRec) /\ <<>> \in Seq(LoadRec)
      /\ <<>> \in Seq(Request) /\ <<>> \in Seq(Result)
  OBVIOUS
<1> QED BY <1>1, <1>2 DEF Init, TypeOK, Loader!Init

LEMMA AddCardType ==
    ASSUME TypeOK, loads # <<>>, AddCard(Innermost)
    PROVE  loads' \in Seq(LoadRec) /\ layout2' \in Seq(CardRec)
<1>1. Innermost \in LoadRec
  BY InnermostType
<1>2. Card(Innermost) \in CardRec
  BY <1>1 DEF Card, LoadRec, CardRec
<1>3. layout2' \in Seq(CardRec)
  BY <1>2 DEF TypeOK, AddCard
<1>4. CASE loads' = Outer
  BY <1>3, <1>4, Ending
<1>5. CASE Goes([Innermost EXCEPT !.pc = "next", !.i = @ + 1])
  BY <1>1, <1>3, <1>5, Going, GoingType
<1> QED BY <1>4, <1>5 DEF AddCard

LEMMA AsksType ==
    ASSUME TypeOK, NEW r \in Request, Asks(r)
    PROVE  waiting' \in Seq(Request) /\ UNCHANGED <<serving, broken, box>>
BY DEF Asks, TypeOK

LEMMA NextType == ASSUME TypeOK, [Next]_vars PROVE TypeOK'
<1> USE DEF choiceVars, pageVars, dataVars, loaderVars
<1>1. ASSUME NEW b \in Boxes, NEW g \in Genres, Choose(b, g) PROVE TypeOK'
  BY <1>1 DEF Choose, TypeOK
<1>2. CASE Browse
  <2>1. clicks' \in Load
    BY <1>2, BrowserAssumption DEF Browse, TypeOK, Load
  <2>2. [n |-> clicks', boxes |-> boxes, genres |-> genres, pc |-> "get",
         results |-> <<>>, i |-> 1, anime |-> NoEntry, quit |-> FALSE] \in LoadRec
    BY <2>1 DEF LoadRec, TypeOK
  <2>3. loads' \in Seq(LoadRec)
    BY <1>2, <2>2 DEF Browse, TypeOK
  <2>4. clicks' \in 0..MaxLoads
    BY <2>1, BrowserAssumption DEF Load
  <2> QED BY <1>2, <2>3, <2>4 DEF Browse, TypeOK
<1>3. CASE GetReturns
  <2>1. PICK answer \in {Results[<<Innermost.boxes, Innermost.genres>>], <<>>} :
           /\ Goes([Innermost EXCEPT !.pc = "next", !.results = answer])
           /\ due' = IF Innermost.n = clicks THEN answer ELSE due
    BY <1>3 DEF GetReturns
  <2>2. Innermost \in LoadRec /\ loads # <<>>
    BY <1>3, InnermostType DEF GetReturns
  <2>3. answer \in Seq(Result)
    <3>1. <<Innermost.boxes, Innermost.genres>> \in Boxes \X Genres
      BY <2>2 DEF LoadRec
    <3>2. Results[<<Innermost.boxes, Innermost.genres>>] \in Seq(Result)
      BY <3>1, BrowserAssumption
    <3>3. <<>> \in Seq(Result)
      OBVIOUS
    <3> QED BY <3>2, <3>3, Zenon
  <2>4. loads' \in Seq(LoadRec)
    BY <2>1, <2>2, <2>3, Going, GoingType
  <2> QED BY <1>3, <2>1, <2>3, <2>4 DEF GetReturns, TypeOK
<1>4. CASE ShowKnown
  <2>1. loads' \in Seq(LoadRec) /\ layout2' \in Seq(CardRec)
    BY <1>4, AddCardType DEF ShowKnown
  <2> QED BY <1>4, <2>1 DEF ShowKnown, TypeOK
<1>5. CASE AskLoader
  <2> DEFINE e == Entered(Innermost)
             a == IF e = NoEntry THEN Innermost.n ELSE e
  <2>1. Innermost \in LoadRec /\ loads # <<>>
    BY <1>5, InnermostType DEF AskLoader
  <2>2. e \in Entry \cup {NoEntry}
    BY <1>5, <2>1, EnteredType DEF AskLoader
  <2>3. a \in Anime
    BY <2>1, <2>2 DEF LoadRec, Anime
  <2>4. [anime |-> a, cover |-> TRUE] \in Request
    BY <2>3 DEF Request
  <2>5. /\ needLoad' = needLoad \cup ({a} \ Entry)
        /\ Asks([anime |-> a, cover |-> TRUE])
        /\ Goes([Innermost EXCEPT !.pc = "asked", !.anime = a])
    BY <1>5 DEF AskLoader
  <2>6. loads' \in Seq(LoadRec)
    BY <2>1, <2>3, <2>5, Going, GoingType
  <2>7. waiting' \in Seq(Request) /\ UNCHANGED <<serving, broken, box>>
    BY <2>4, <2>5, AsksType
  <2>8. needLoad' \in SUBSET Anime
    BY <2>3, <2>5 DEF TypeOK
  <2> QED BY <1>5, <2>6, <2>7, <2>8 DEF AskLoader, TypeOK
<1>6. CASE Connect
  <2>1. Innermost \in LoadRec /\ loads # <<>>
    BY <1>6, InnermostType DEF Connect
  <2>2. loads' \in Seq(LoadRec)
    BY <1>6, <2>1, Going, GoingType DEF Connect
  <2>3. missed' \in BOOLEAN
    BY <1>6 DEF Connect
  <2> QED BY <1>6, <2>2, <2>3 DEF Connect, TypeOK
<1>7. CASE LoopReturns
  <2>1. loads' \in Seq(LoadRec) /\ layout2' \in Seq(CardRec)
    BY <1>7, AddCardType DEF LoopReturns
  <2> QED BY <1>7, <2>1 DEF LoopReturns, TypeOK
<1>8. CASE Return
  <2>1. loads' \in Seq(LoadRec)
    BY <1>8, Ending DEF Return
  <2> QED BY <1>8, <2>1 DEF Return, TypeOK
<1>9. CASE Serve
  <2>1. waiting' \in Seq(Request) /\ serving' \in SUBSET Request
    BY <1>9 DEF Serve, Loader!Serve, TypeOK
  <2> QED BY <1>9, <2>1 DEF Serve, Loader!Serve, TypeOK
<1>10. CASE FinishReload
  <2>1. \A l \in LoadRec, q \in BOOLEAN : [l EXCEPT !.quit = q] \in LoadRec
    BY DEF LoadRec
  <2>2. PICK r \in serving :
          /\ needLoad' = needLoad \ {r.anime}
          /\ needCover' = IF r.cover THEN needCover \ {r.anime} ELSE needCover
          /\ loads' = [j \in DOMAIN loads |->
                          [loads[j] EXCEPT !.quit =
                              @ \/ (loads[j].pc = "waits" /\ loads[j].anime = r.anime)]]
    BY <1>10 DEF FinishReload
  <2>3. \A j \in DOMAIN loads : loads'[j] \in LoadRec
    <3> TAKE j \in DOMAIN loads
    <3>1. loads[j] \in LoadRec
      BY DEF TypeOK
    <3> DEFINE q == loads[j].quit \/ (loads[j].pc = "waits" /\ loads[j].anime = r.anime)
    <3>2. q \in BOOLEAN
      BY <3>1 DEF LoadRec
    <3>3. [loads[j] EXCEPT !.quit = q] \in LoadRec
      BY <2>1, <3>1, <3>2
    <3>4. loads'[j] = [loads[j] EXCEPT !.quit = q]
      BY <2>2
    <3> QED BY <3>3, <3>4
  <2>4. DOMAIN loads' = 1..Len(loads) /\ Len(loads) \in Nat
    BY <2>2 DEF TypeOK
  <2>5. loads' \in Seq(LoadRec)
    <3>1. loads' = [j \in 1..Len(loads) |-> loads'[j]]
      BY <2>2, <2>4
    <3>2. DOMAIN loads = 1..Len(loads)
      BY DEF TypeOK
    <3>3. loads' \in [1..Len(loads) -> LoadRec]
      BY <2>3, <3>1, <3>2
    <3> QED BY <2>4, <3>3
  <2>6. needLoad' \in SUBSET Anime
    BY <2>2 DEF TypeOK
  <2>7. needCover' \in SUBSET Anime
    BY <2>2 DEF TypeOK
  <2>8. serving' = {} /\ box' = FALSE /\ waiting' = waiting /\ broken' = broken
    BY <1>10 DEF FinishReload, Loader!Finish
  <2>9. UNCHANGED <<choiceVars, pageVars, others, missed>>
    BY <1>10 DEF FinishReload
  <2> QED BY <2>5, <2>6, <2>7, <2>8, <2>9 DEF TypeOK
<1>10a. CASE CoverFails
  BY <1>10a DEF CoverFails, TypeOK
<1>11. CASE Break
  <2>1. waiting' \in Seq(Request) /\ serving' = {} /\ broken' = TRUE /\ box' = FALSE
    BY <1>11 DEF Break, Loader!Break
  <2>2. UNCHANGED <<choiceVars, pageVars, loads, dataVars, others, missed>>
    BY <1>11 DEF Break
  <2> QED BY <2>1, <2>2 DEF TypeOK
<1>12. ASSUME NEW e \in Entry, Other(e) PROVE TypeOK'
  <2>1. [anime |-> e, cover |-> FALSE] \in Request
    BY DEF Request, Anime
  <2>2. waiting' \in Seq(Request) /\ UNCHANGED <<serving, broken, box>>
    BY <1>12, <2>1, AsksType DEF Other
  <2> QED BY <1>12, <2>2 DEF Other, TypeOK
<1>13. CASE UNCHANGED vars
  BY <1>13 DEF vars, TypeOK
<1> QED BY <1>1, <1>2, <1>3, <1>4, <1>5, <1>6, <1>7, <1>8, <1>9, <1>10,
           <1>10a, <1>11, <1>12, <1>13 DEF Next, Main, Finish, BoxClosed

-----------------------------------------------------------------------------
(* The page.                                                                *)

\* An empty page is in order, and nobody is late on it.
LEMMA InitInv == Init => Inv
<1> SUFFICES ASSUME Init PROVE Inv
  OBVIOUS
<1>1. loads = <<>> /\ layout2 = <<>> /\ clicks = 0
  BY DEF Init
<1>2. DOMAIN loads = {} /\ DOMAIN layout2 = {}
  BY <1>1
<1> QED BY <1>1, <1>2
        DEF Inv, StackInv, LastInv, ShownInv, CardInv, LateInv, OfLastClick, OneLateCard

\* What a step may do to the loads that the page does not notice.
Alike(l, m) == /\ l.n = m.n /\ l.boxes = m.boxes /\ l.i = m.i
               /\ l.results = m.results /\ (l.pc = "get" <=> m.pc = "get")

LEMMA Unnoticed ==
    ASSUME TypeOK, Inv, UNCHANGED <<boxes, kept, layout2, due, clicks>>,
           loads' \in Seq(LoadRec), Len(loads') = Len(loads),
           \A j \in DOMAIN loads : Alike(loads'[j], loads[j])
    PROVE  Inv'
<1>1. DOMAIN loads' = DOMAIN loads /\ Len(loads) \in Nat
  BY DEF TypeOK
<1>2. \A j \in DOMAIN loads :
         loads'[j].n = loads[j].n /\ loads'[j].boxes = loads[j].boxes
  BY DEF Alike
<1>3. StackInv'
  BY <1>1, <1>2 DEF Inv, StackInv
<1>4. loads # <<>> <=> loads' # <<>>
  BY DEF TypeOK
<1>5. loads # <<>> => Alike(Innermost', Innermost)
  BY DEF Innermost, TypeOK
<1>6. OfLastClick' <=> OfLastClick
  BY <1>4, <1>5 DEF OfLastClick, Alike
<1>7. LastInv'
  BY <1>5, <1>6 DEF Inv, LastInv, OfLastClick, Alike
<1>8. ShownInv'
  BY <1>6 DEF Inv, ShownInv, InOrder, Complete
<1>9. CardInv'
  BY <1>1, <1>2 DEF Inv, CardInv
<1>10. LateInv'
  BY <1>1, <1>2 DEF Inv, LateInv, OneLateCard
<1> QED BY <1>3, <1>7, <1>8, <1>9, <1>10 DEF Inv

\* Of the loads only the innermost can be that of the last click.
LEMMA OnlyInnermost ==
    ASSUME TypeOK, StackInv, loads # <<>>,
           NEW j \in DOMAIN loads, j # Len(loads)
    PROVE  /\ j \in 1..Len(loads) - 1
           /\ loads[j].n < Innermost.n /\ loads[j].n < clicks
           /\ loads[j].n # Innermost.n /\ loads[j].n # clicks
<1>1. j \in 1..Len(loads) - 1 /\ Len(loads) \in DOMAIN loads /\ j < Len(loads)
  BY DEF TypeOK
<1>2. loads[j] \in LoadRec /\ Innermost \in LoadRec /\ clicks \in Nat
  BY <1>1 DEF TypeOK, Innermost
<1>3. loads[j].n \in Nat /\ Innermost.n \in Nat
  BY <1>2 DEF LoadRec, Load
<1>4. loads[j].n < Innermost.n /\ Innermost.n <= clicks
  BY <1>1 DEF StackInv, Innermost
<1> QED BY <1>1, <1>2, <1>3, <1>4

\* The innermost load ends: no load of the last click is left.
LEMMA Ended ==
    ASSUME TypeOK, Inv, loads # <<>>, loads' = Outer, UNCHANGED clicks
    PROVE  /\ StackInv' /\ ~OfLastClick'
           /\ \A j \in DOMAIN loads' : /\ j \in DOMAIN loads /\ j # Len(loads)
                                       /\ loads'[j] = loads[j]
<1>1. /\ loads' \in Seq(LoadRec) /\ Len(loads') = Len(loads) - 1
      /\ \A j \in 1..Len(loads) - 1 : loads'[j] = loads[j]
  BY Ending
<1>2. Len(loads) \in Nat \ {0} /\ DOMAIN loads = 1..Len(loads)
  BY DEF TypeOK
<1>3. \A j \in DOMAIN loads' : /\ j \in DOMAIN loads /\ j # Len(loads)
                               /\ loads'[j] = loads[j]
  BY <1>1, <1>2
<1>4. StackInv'
  BY <1>3 DEF Inv, StackInv
<1>5. ~OfLastClick'
  <2> SUFFICES ASSUME loads' # <<>> PROVE Innermost'.n # clicks
    BY DEF OfLastClick
  <2>1. Len(loads') \in DOMAIN loads'
    BY <1>1
  <2>2. Innermost'.n = loads[Len(loads')].n /\ Len(loads') \in DOMAIN loads
        /\ Len(loads') # Len(loads)
    BY <1>3, <2>1 DEF Innermost
  <2> QED BY <2>2, OnlyInnermost DEF Inv
<1> QED BY <1>3, <1>4, <1>5

\* A card of the innermost load comes behind the others.
LEMMA Added ==
    ASSUME TypeOK, loads # <<>>, layout2' = Append(layout2, Card(Innermost))
    PROVE  /\ Len(layout2) \in Nat /\ Len(layout2') = Len(layout2) + 1
           /\ DOMAIN layout2 = 1..Len(layout2)
           /\ DOMAIN layout2' = 1..Len(layout2) + 1
           /\ \A c \in DOMAIN layout2 : c \in DOMAIN layout2' /\ layout2'[c] = layout2[c]
           /\ layout2'[Len(layout2) + 1] = Card(Innermost)
           /\ \A c \in DOMAIN layout2' : c # Len(layout2) + 1 => c \in DOMAIN layout2
<1>1. Card(Innermost) \in CardRec
  BY InnermostType DEF Card, LoadRec, CardRec
<1>2. layout2 \in Seq(CardRec)
  BY DEF TypeOK
<1> QED BY <1>1, <1>2

\* The load under a card, as long as it goes on or has gone.
LEMMA Carded ==
    ASSUME TypeOK, Inv, loads # <<>>, Innermost.pc # "get",
           AddCard(Innermost), UNCHANGED <<boxes, kept, due, clicks>>
    PROVE  Inv'
<1> DEFINE L == Innermost
           new == Len(layout2) + 1
           next == [L EXCEPT !.pc = "next", !.i = @ + 1]
<1>1. layout2' = Append(layout2, Card(L))
  BY DEF AddCard
<1>2. /\ Len(layout2) \in Nat /\ Len(layout2') = new
      /\ DOMAIN layout2 = 1..Len(layout2) /\ DOMAIN layout2' = 1..new
      /\ \A c \in DOMAIN layout2 : c \in DOMAIN layout2' /\ layout2'[c] = layout2[c]
      /\ layout2'[new] = Card(L)
      /\ \A c \in DOMAIN layout2' : c # new => c \in DOMAIN layout2
  BY <1>1, Added
<1>3. /\ Card(L).load = L.n /\ Card(L).boxes = L.boxes /\ Card(L).at = L.i
  BY DEF Card
<1>4. L \in LoadRec /\ L = loads[Len(loads)] /\ Len(loads) \in DOMAIN loads
  BY InnermostType DEF Innermost
<1>5. /\ L.n \in Nat /\ clicks \in Nat /\ L.n <= clicks /\ L.i \in Nat \ {0}
  BY <1>4 DEF LoadRec, Load, TypeOK, Inv, StackInv
<1>6. \A c \in DOMAIN layout2 : layout2[c].load = L.n => layout2[c].boxes = L.boxes
  BY <1>4 DEF Inv, CardInv
\* The card goes where it belongs if it is of the last click.
<1>7. L.n = clicks => /\ new = L.i
                      /\ \A c \in DOMAIN layout2' :
                            layout2'[c].load = clicks /\ layout2'[c].at = c
  <2> SUFFICES ASSUME L.n = clicks
               PROVE  /\ new = L.i
                      /\ \A c \in DOMAIN layout2' :
                            layout2'[c].load = clicks /\ layout2'[c].at = c
    OBVIOUS
  <2>1. /\ Len(layout2) = L.i - 1
        /\ \A c \in DOMAIN layout2 : layout2[c].load = clicks /\ layout2[c].at = c
    BY DEF Inv, LastInv, OfLastClick
  <2>2. new = L.i
    BY <1>2, <1>5, <2>1
  <2> QED BY <1>2, <1>3, <2>1, <2>2
\* If it is of an earlier one, the others are still where they were.
<1>8. L.n # clicks /\ kept /\ clicks > 0 => (InOrder /\ Complete)'
  <2> SUFFICES ASSUME L.n # clicks, kept, clicks > 0 PROVE InOrder' /\ Complete'
    OBVIOUS
  <2>1. InOrder /\ Complete
    BY DEF Inv, ShownInv, OfLastClick
  <2>2. layout2'[new].load # clicks
    BY <1>2, <1>3
  <2>3. InOrder'
    <3> SUFFICES ASSUME NEW c \in DOMAIN layout2', layout2'[c].load = clicks
                 PROVE  layout2'[c].at = c /\ (c > 1 => layout2'[c - 1].load = clicks)
      BY DEF InOrder
    <3>1. c \in DOMAIN layout2 /\ layout2'[c] = layout2[c]
      BY <1>2, <2>2
    <3>2. c > 1 => c - 1 \in DOMAIN layout2 /\ layout2'[c - 1] = layout2[c - 1]
      BY <1>2, <3>1
    <3> QED BY <2>1, <3>1, <3>2 DEF InOrder
  <2>4. Complete'
    BY <1>2, <2>1 DEF Complete
  <2> QED BY <2>3, <2>4
\* No card for other boxes is of a load that has one already.
<1>9. kept => OneLateCard'
  <2> SUFFICES ASSUME kept, NEW c \in DOMAIN layout2', NEW d \in DOMAIN layout2',
                      layout2'[c].load = layout2'[d].load, layout2'[c].boxes # boxes
               PROVE  c = d
    BY DEF OneLateCard
  <2>1. \A e \in DOMAIN layout2 : layout2[e].load = L.n => L.boxes = boxes
    <3>1. CASE L.n = clicks
      BY <3>1 DEF Inv, LastInv, OfLastClick
    <3>2. CASE L.n # clicks
      BY <1>4, <3>2 DEF Inv, LateInv
    <3> QED BY <3>1, <3>2
  <2>2. CASE c # new /\ d # new
    <3>1. c \in DOMAIN layout2 /\ d \in DOMAIN layout2
      BY <1>2, <2>2
    <3> QED BY <1>2, <3>1 DEF Inv, LateInv, OneLateCard
  <2>3. CASE c = new /\ d # new
    <3>1. d \in DOMAIN layout2 /\ layout2[d].load = L.n
      BY <1>2, <1>3, <2>3
    <3> QED BY <1>2, <1>3, <2>1, <2>3, <3>1
  <2>4. CASE c # new /\ d = new
    <3>1. c \in DOMAIN layout2 /\ layout2[c].load = L.n /\ layout2[c].boxes # boxes
      BY <1>2, <1>3, <2>4
    <3> QED BY <1>6, <2>1, <3>1
  <2> QED BY <2>2, <2>3, <2>4
<1>10. CASE boxes # L.boxes
  <2>1. loads' = Outer
    BY <1>10 DEF AddCard
  <2>2. /\ StackInv' /\ ~OfLastClick'
        /\ \A j \in DOMAIN loads' : /\ j \in DOMAIN loads /\ j # Len(loads)
                                    /\ loads'[j] = loads[j]
    BY <2>1, Ended
  <2>3. LastInv'
    BY <2>2 DEF LastInv
  <2>4. kept => L.n # clicks
    BY <1>10 DEF Inv, LastInv, OfLastClick
  <2>5. ShownInv'
    BY <1>8, <2>4 DEF ShownInv
  <2>6. \A j \in DOMAIN loads' : loads'[j].n # L.n
    BY <2>2, OnlyInnermost DEF Inv
  <2>7. CardInv'
    BY <1>2, <1>3, <2>2, <2>6 DEF Inv, CardInv
  <2>8. LateInv'
    BY <1>2, <1>3, <1>9, <2>2, <2>6 DEF Inv, LateInv
  <2> QED BY <2>2, <2>3, <2>5, <2>7, <2>8 DEF Inv
<1>11. CASE boxes = L.boxes
  <2>1. Goes(next)
    BY <1>11 DEF AddCard
  <2>2. next \in LoadRec
    BY <1>4, GoingType
  <2>3. next.n = L.n /\ next.boxes = L.boxes /\ next.i = L.i + 1
        /\ next.results = L.results /\ next.pc = "next"
    BY <1>4 DEF LoadRec
  <2>4. /\ loads' \in Seq(LoadRec) /\ Len(loads') = Len(loads)
        /\ loads'[Len(loads)] = next
        /\ \A j \in 1..Len(loads) - 1 : loads'[j] = loads[j]
    BY <2>1, <2>2, Going
  <2> HIDE DEF next
  <2>5. DOMAIN loads' = DOMAIN loads /\ loads' # <<>> /\ Len(loads) \in Nat \ {0}
    BY <2>4 DEF TypeOK
  <2>6. \A j \in DOMAIN loads :
           loads'[j].n = loads[j].n /\ loads'[j].boxes = loads[j].boxes
    <3> TAKE j \in DOMAIN loads
    <3>1. CASE j = Len(loads)
      BY <1>4, <2>3, <2>4, <3>1
    <3>2. CASE j # Len(loads)
      BY <2>4, <3>2, OnlyInnermost DEF Inv
    <3> QED BY <3>1, <3>2
  <2>7. StackInv'
    BY <2>5, <2>6 DEF Inv, StackInv
  <2>8. Innermost' = next
    BY <2>4 DEF Innermost
  <2>9. OfLastClick' <=> L.n = clicks
    BY <2>3, <2>5, <2>8 DEF OfLastClick
  <2>10. LastInv'
    <3> SUFFICES ASSUME L.n = clicks PROVE LastInv'
      BY <2>9 DEF LastInv
    <3>1. Len(layout2') = next.i - 1
      BY <1>2, <1>5, <1>7, <2>3
    <3>2. next.results = due
      BY <2>3 DEF Inv, LastInv, OfLastClick
    <3> QED BY <1>7, <1>11, <2>3, <2>8, <3>1, <3>2 DEF LastInv
  <2>11. ShownInv'
    BY <1>8, <2>9 DEF ShownInv
  <2>12. CardInv'
    <3> SUFFICES ASSUME NEW j \in DOMAIN loads, NEW c \in DOMAIN layout2',
                        layout2'[c].load = loads[j].n
                 PROVE  layout2'[c].boxes = loads[j].boxes
      BY <2>5, <2>6 DEF CardInv
    <3>1. CASE c # new
      BY <1>2, <3>1 DEF Inv, CardInv
    <3>2. CASE c = new /\ j = Len(loads)
      BY <1>2, <1>3, <1>4, <3>2
    <3>3. CASE c = new /\ j # Len(loads)
      BY <1>2, <1>3, <3>3, OnlyInnermost DEF Inv
    <3> QED BY <3>1, <3>2, <3>3
  <2>13. LateInv'
    <3> SUFFICES ASSUME kept, NEW j \in DOMAIN loads, NEW c \in DOMAIN layout2',
                        loads[j].n # clicks, loads[j].boxes # boxes
                 PROVE  layout2'[c].load # loads[j].n
      BY <1>9, <2>5, <2>6 DEF LateInv
    <3>1. CASE c # new
      BY <1>2, <3>1 DEF Inv, LateInv
    <3>2. CASE c = new
      <4>1. j # Len(loads)
        BY <1>4, <1>11
      <4> QED BY <1>2, <1>3, <3>2, <4>1, OnlyInnermost DEF Inv
    <3> QED BY <3>1, <3>2
  <2> QED BY <2>7, <2>10, <2>11, <2>12, <2>13 DEF Inv
<1> QED BY <1>10, <1>11

\* The results have come.
LEMMA Answered ==
    ASSUME TypeOK, Inv, GetReturns, TypeOK' PROVE Inv'
<1> DEFINE L == Innermost
<1>1. PICK answer \in {Results[<<L.boxes, L.genres>>], <<>>} :
         /\ Goes([L EXCEPT !.pc = "next", !.results = answer])
         /\ due' = IF L.n = clicks THEN answer ELSE due
  BY DEF GetReturns
<1> DEFINE next == [L EXCEPT !.pc = "next", !.results = answer]
<1>2. loads # <<>> /\ L.pc = "get"
      /\ UNCHANGED <<boxes, genres, choices, kept, layout2, clicks>>
  BY DEF GetReturns, choiceVars
<1>3. L \in LoadRec /\ L = loads[Len(loads)] /\ Len(loads) \in Nat \ {0}
      /\ Len(loads) \in DOMAIN loads
  BY <1>2, InnermostType DEF Innermost
<1>4. /\ next.n = L.n /\ next.boxes = L.boxes /\ next.i = L.i
      /\ next.results = answer
  BY <1>3 DEF LoadRec
<1>5. loads' = Append(Outer, next)
  BY <1>1 DEF Goes
<1> HIDE DEF next
<1>6. /\ Len(loads') = Len(loads) /\ DOMAIN loads' = DOMAIN loads
      /\ loads'[Len(loads)] = next /\ loads' # <<>>
      /\ \A j \in 1..Len(loads) - 1 : loads'[j] = loads[j]
  <2>1. /\ Outer \in Seq(LoadRec) /\ Len(Outer) = Len(loads) - 1
        /\ \A j \in 1..Len(loads) - 1 : Outer[j] = loads[j]
    BY <1>2, OuterLoads
  <2> QED BY <1>3, <1>5, <2>1 DEF TypeOK
<1>7. \A j \in DOMAIN loads :
         loads'[j].n = loads[j].n /\ loads'[j].boxes = loads[j].boxes
  <2> TAKE j \in DOMAIN loads
  <2>1. CASE j = Len(loads)
    BY <1>3, <1>4, <1>6, <2>1
  <2>2. CASE j # Len(loads)
    BY <1>2, <1>6, <2>2, OnlyInnermost DEF Inv
  <2> QED BY <2>1, <2>2
<1>8. Innermost' = next
  BY <1>6 DEF Innermost
<1>9. OfLastClick' <=> L.n = clicks
  BY <1>2, <1>4, <1>6, <1>8 DEF OfLastClick
<1>10. StackInv'
  BY <1>2, <1>6, <1>7 DEF Inv, StackInv
<1>11. LastInv'
  <2> SUFFICES ASSUME L.n = clicks PROVE LastInv'
    BY <1>9 DEF LastInv
  <2>1. due' = answer
    BY <1>1
  <2>2. OfLastClick
    BY <1>2 DEF OfLastClick
  <2> QED BY <1>2, <1>4, <1>8, <2>1, <2>2 DEF Inv, LastInv
<1>12. ShownInv'
  <2> SUFFICES ASSUME L.n # clicks PROVE ShownInv'
    BY <1>9 DEF ShownInv
  <2>1. due' = due /\ ~OfLastClick
    BY <1>1 DEF OfLastClick
  <2> QED BY <1>2, <2>1 DEF Inv, ShownInv, InOrder, Complete
<1>13. CardInv'
  BY <1>2, <1>6, <1>7 DEF Inv, CardInv
<1>14. LateInv'
  BY <1>2, <1>6, <1>7 DEF Inv, LateInv, OneLateCard
<1> QED BY <1>10, <1>11, <1>12, <1>13, <1>14 DEF Inv

\* Another click: an empty page, and a load further in than all others.
LEMMA Clicked ==
    ASSUME TypeOK, Inv, Browse PROVE Inv'
<1> DEFINE new == [n |-> clicks + 1, boxes |-> boxes, genres |-> genres,
                   pc |-> "get", results |-> <<>>, i |-> 1,
                   anime |-> NoEntry, quit |-> FALSE]
<1>1. /\ loads' = Append(loads, new) /\ clicks' = clicks + 1 /\ layout2' = <<>>
      /\ boxes' = boxes
  BY DEF Browse
<1>2. new.n = clicks' /\ new.boxes = boxes /\ new.i = 1 /\ new.pc = "get"
  BY <1>1
<1>a. new \in LoadRec
  <2>1. clicks + 1 \in Load
    BY BrowserAssumption DEF Browse, TypeOK, Load
  <2> QED BY <2>1 DEF LoadRec, TypeOK
<1> HIDE DEF new
<1>3. /\ Len(loads) \in Nat /\ Len(loads') = Len(loads) + 1
      /\ DOMAIN loads' = 1..Len(loads) + 1 /\ loads' # <<>>
      /\ loads'[Len(loads) + 1] = new
      /\ \A j \in DOMAIN loads : loads'[j] = loads[j]
      /\ \A j \in DOMAIN loads' : j # Len(loads) + 1 => j \in DOMAIN loads
  <2>1. loads \in Seq(LoadRec)
    BY DEF TypeOK
  <2>2. /\ Len(Append(loads, new)) = Len(loads) + 1
        /\ \A j \in 1..Len(loads) : Append(loads, new)[j] = loads[j]
        /\ Append(loads, new)[Len(loads) + 1] = new
        /\ Append(loads, new) \in Seq(LoadRec) /\ Append(loads, new) # <<>>
    BY <1>a, <2>1, AppendProperties
  <2>3. /\ Len(loads) \in Nat /\ DOMAIN loads = 1..Len(loads)
        /\ DOMAIN Append(loads, new) = 1..Len(loads) + 1
    BY <2>1, <2>2
  <2>4. \A j \in 1..Len(loads) + 1 : j # Len(loads) + 1 => j \in 1..Len(loads)
    BY <2>3
  <2> QED BY <1>1, <2>2, <2>3, <2>4
<1>4. \A j \in DOMAIN loads : loads[j].n \in Nat /\ loads[j].n <= clicks
  <2>1. \A j \in DOMAIN loads : loads[j] \in LoadRec
    BY DEF TypeOK
  <2>2. Load \subseteq Nat
    BY BrowserAssumption DEF Load
  <2> QED BY <2>1, <2>2 DEF LoadRec, Inv, StackInv
<1>5. clicks \in Nat
  BY DEF TypeOK
<1>6. StackInv'
  <2>1. \A j \in DOMAIN loads' : loads'[j].n <= clicks'
    BY <1>1, <1>2, <1>3, <1>4, <1>5
  <2>2. ASSUME NEW j \in DOMAIN loads', NEW k \in DOMAIN loads', j < k
        PROVE  loads'[j].n < loads'[k].n
    <3>1. j \in DOMAIN loads /\ loads'[j] = loads[j]
      BY <1>3, <2>2
    <3>2. CASE k = Len(loads) + 1
      BY <1>1, <1>2, <1>3, <1>4, <1>5, <3>1, <3>2
    <3>3. CASE k # Len(loads) + 1
      BY <1>3, <2>2, <3>1, <3>3 DEF Inv, StackInv
    <3> QED BY <3>2, <3>3
  <2> QED BY <2>1, <2>2 DEF StackInv
<1>7. Innermost' = new
  BY <1>3 DEF Innermost
<1>8. OfLastClick'
  BY <1>2, <1>3, <1>7 DEF OfLastClick
<1>9. Len(layout2') = 0 /\ DOMAIN layout2' = {}
  BY <1>1
<1>10. LastInv'
  BY <1>1, <1>2, <1>7, <1>9 DEF LastInv
<1> QED BY <1>6, <1>8, <1>9, <1>10 DEF Inv, ShownInv, CardInv, LateInv, OneLateCard

\* The load is through its results, or at the one that no entry is found for.
LEMMA Returned ==
    ASSUME TypeOK, Inv, Return PROVE Inv'
<1> DEFINE L == Innermost
<1>1. /\ loads # <<>> /\ L.pc = "next" /\ loads' = Outer
      /\ UNCHANGED <<boxes, kept, layout2, due, clicks>>
      /\ L.i > Last(L) \/ (L.i = Last(L) /\ Untitled = NoEntry)
  BY DEF Return, choiceVars, pageVars
<1>2. L \in LoadRec
  BY <1>1, InnermostType
<1>3. /\ StackInv' /\ ~OfLastClick'
      /\ \A j \in DOMAIN loads' : j \in DOMAIN loads /\ loads'[j] = loads[j]
  BY <1>1, Ended
<1>4. LastInv'
  BY <1>3 DEF LastInv
<1>5. ShownInv'
  <2>1. CASE OfLastClick
    <3>1. /\ Len(layout2) = L.i - 1 /\ L.results = due
          /\ \A c \in DOMAIN layout2 : layout2[c].load = clicks /\ layout2[c].at = c
      BY <1>1, <2>1 DEF Inv, LastInv
    <3>2. InOrder
      BY <3>1 DEF InOrder, TypeOK
    <3>3. /\ Len(due) \in Nat /\ Len(layout2) \in Nat
          /\ DOMAIN layout2 = 1..Len(layout2) /\ L.i \in Nat
      BY <1>2 DEF TypeOK, LoadRec
    <3>4. Len(due) + (IF Untitled = NoEntry THEN 0 ELSE 1) <= Len(layout2)
      BY <1>1, <3>1, <3>3 DEF Last
    <3>5. Complete
      BY <3>1, <3>3, <3>4 DEF Complete
    <3> QED BY <1>1, <3>2, <3>5 DEF ShownInv, InOrder, Complete
  <2>2. CASE ~OfLastClick
    BY <1>1, <2>2 DEF Inv, ShownInv, InOrder, Complete
  <2> QED BY <2>1, <2>2
<1>6. CardInv'
  BY <1>1, <1>3 DEF Inv, CardInv
<1>7. LateInv'
  BY <1>1, <1>3 DEF Inv, LateInv, OneLateCard
<1> QED BY <1>3, <1>4, <1>5, <1>6, <1>7 DEF Inv

LEMMA Chosen ==
    ASSUME TypeOK, Inv, NEW b \in Boxes, NEW g \in Genres, Choose(b, g)
    PROVE  Inv'
<1>1. /\ UNCHANGED <<layout2, due, clicks, loads>> /\ boxes' = b
      /\ kept' = (kept /\ b = boxes)
  BY DEF Choose, pageVars
<1>2. OfLastClick' <=> OfLastClick
  BY <1>1 DEF OfLastClick, Innermost
<1>3. kept' => kept /\ boxes' = boxes
  BY <1>1
<1>4. StackInv'
  BY <1>1 DEF Inv, StackInv
<1>5. LastInv'
  BY <1>1, <1>2, <1>3 DEF Inv, LastInv, Innermost
<1>6. ShownInv'
  BY <1>1, <1>2, <1>3 DEF Inv, ShownInv, InOrder, Complete
<1>7. CardInv'
  BY <1>1 DEF Inv, CardInv
<1>8. LateInv'
  BY <1>1, <1>3 DEF Inv, LateInv, OneLateCard
<1> QED BY <1>4, <1>5, <1>6, <1>7, <1>8 DEF Inv

LEMMA NextInv == ASSUME TypeOK, Inv, [Next]_vars PROVE Inv'
<1>0. TypeOK'
  BY NextType
<1>1. ASSUME NEW b \in Boxes, NEW g \in Genres, Choose(b, g) PROVE Inv'
  BY <1>1, Chosen
<1>2. CASE Browse
  BY <1>2, Clicked
<1>3. CASE GetReturns
  BY <1>0, <1>3, Answered
<1>4. CASE ShowKnown
  BY <1>4, Carded DEF ShowKnown, choiceVars
<1>5. CASE AskLoader
  <2> DEFINE a == LET e == Entered(Innermost)
                  IN IF e = NoEntry THEN Innermost.n ELSE e
             l == [Innermost EXCEPT !.pc = "asked", !.anime = a]
  <2>1. /\ loads # <<>> /\ Goes(l) /\ Innermost.pc = "next"
        /\ UNCHANGED <<boxes, kept, layout2, due, clicks>>
    BY <1>5 DEF AskLoader, choiceVars, pageVars
  <2>2. Innermost \in LoadRec /\ Innermost = loads[Len(loads)]
        /\ Len(loads) \in DOMAIN loads
    BY <2>1, InnermostType DEF Innermost
  <2>3. Alike(l, Innermost)
    BY <2>1, <2>2 DEF Alike, LoadRec
  <2>4. a \in Anime
    <3>1. Entered(Innermost) \in Entry \cup {NoEntry}
      BY <1>5, <2>2, EnteredType DEF AskLoader
    <3> QED BY <2>2, <3>1 DEF LoadRec, Anime
  <2>5. l \in LoadRec
    BY <2>2, <2>4, GoingType
  <2> HIDE DEF l
  <2>6. /\ loads' \in Seq(LoadRec) /\ Len(loads') = Len(loads)
        /\ loads'[Len(loads)] = l
        /\ \A j \in 1..Len(loads) - 1 : loads'[j] = loads[j]
    BY <2>1, <2>5, Going
  <2>7. \A j \in DOMAIN loads : Alike(loads'[j], loads[j])
    BY <2>1, <2>2, <2>3, <2>6, OnlyInnermost DEF Inv, Alike
  <2> QED BY <2>1, <2>6, <2>7, Unnoticed
<1>6. CASE Connect
  <2> DEFINE l == [Innermost EXCEPT !.pc = "waits", !.quit = FALSE]
  <2>1. /\ loads # <<>> /\ Goes(l) /\ Innermost.pc = "asked"
        /\ UNCHANGED <<boxes, kept, layout2, due, clicks>>
    BY <1>6 DEF Connect, choiceVars, pageVars
  <2>2. Innermost \in LoadRec /\ Innermost = loads[Len(loads)]
        /\ Len(loads) \in DOMAIN loads
    BY <2>1, InnermostType DEF Innermost
  <2>3. Alike(l, Innermost)
    BY <2>1, <2>2 DEF Alike, LoadRec
  <2>4. l \in LoadRec
    BY <2>2, GoingType
  <2> HIDE DEF l
  <2>5. /\ loads' \in Seq(LoadRec) /\ Len(loads') = Len(loads)
        /\ loads'[Len(loads)] = l
        /\ \A j \in 1..Len(loads) - 1 : loads'[j] = loads[j]
    BY <2>1, <2>4, Going
  <2>6. \A j \in DOMAIN loads : Alike(loads'[j], loads[j])
    BY <2>1, <2>2, <2>3, <2>5, OnlyInnermost DEF Inv, Alike
  <2> QED BY <2>1, <2>5, <2>6, Unnoticed
<1>7. CASE LoopReturns
  BY <1>7, Carded DEF LoopReturns, choiceVars
<1>8. CASE Return
  BY <1>8, Returned
<1>9. CASE FinishReload
  <2>1. PICK r \in serving :
          loads' = [j \in DOMAIN loads |->
                       [loads[j] EXCEPT !.quit =
                           @ \/ (loads[j].pc = "waits" /\ loads[j].anime = r.anime)]]
    BY <1>9 DEF FinishReload
  <2>2. \A j \in DOMAIN loads : loads[j] \in LoadRec
    BY DEF TypeOK
  <2>3. \A j \in DOMAIN loads : Alike(loads'[j], loads[j])
    BY <2>1, <2>2 DEF Alike, LoadRec
  <2>4. loads' \in Seq(LoadRec) /\ loads \in Seq(LoadRec) /\ DOMAIN loads' = DOMAIN loads
    BY <1>0, <2>1 DEF TypeOK
  <2>5. Len(loads') = Len(loads)
    BY <2>4
  <2> QED BY <1>9, <2>3, <2>4, <2>5, Unnoticed DEF FinishReload, choiceVars, pageVars
<1>10. CASE UNCHANGED <<choiceVars, pageVars, loads>>
  <2>1. /\ UNCHANGED <<boxes, kept, layout2, due, clicks>> /\ loads' = loads
        /\ loads \in Seq(LoadRec)
    BY <1>10 DEF choiceVars, pageVars, TypeOK
  <2> QED BY <2>1, Unnoticed DEF Alike
<1>11. Serve \/ CoverFails \/ Break \/ (\E e \in Entry : Other(e)) \/ UNCHANGED vars
           => UNCHANGED <<choiceVars, pageVars, loads>>
  BY DEF Serve, CoverFails, Break, Other, vars
<1> QED BY <1>1, <1>2, <1>3, <1>4, <1>5, <1>6, <1>7, <1>8, <1>9, <1>10, <1>11
        DEF Next, Main, Finish, BoxClosed

(* Every variable of the browser has its type in every reachable state, for *)
(* any results, entries, clicks and changes.                                *)
THEOREM TypeCorrect == Spec => []TypeOK
<1>1. Init => TypeOK
  BY InitType
<1>2. TypeOK /\ [Next]_vars => TypeOK'
  BY NextType
<1> QED BY <1>1, <1>2, PTL DEF Spec

(* The page of the last click is whole, in its order and in front, and an   *)
(* overtaken load leaves one card at most behind it: loadBrowserData under  *)
(* any number of clicks while it waits, for a loader that answers, breaks   *)
(* or is asked by others at any moment.                                     *)
THEOREM PageIsOfLastClick == Spec => []AskedIsShown
<1>1. Init => Inv
  BY InitInv
<1>2. TypeOK /\ Inv /\ [Next]_vars => Inv'
  BY NextInv
<1>3. TypeOK /\ Inv => AskedIsShown
  <2> SUFFICES ASSUME TypeOK, Inv, kept
               PROVE  /\ InOrder
                      /\ clicks > 0 /\ (\A j \in DOMAIN loads : loads[j].n # clicks)
                            => Complete
                      /\ OneLateCard
    BY DEF AskedIsShown
  <2>1. OneLateCard
    BY DEF Inv, LateInv
  <2>2. (\A j \in DOMAIN loads : loads[j].n # clicks) => ~OfLastClick
    BY InnermostType DEF OfLastClick, Innermost
  <2>3. clicks > 0 /\ ~OfLastClick => InOrder /\ Complete
    BY DEF Inv, ShownInv
  <2>4. OfLastClick => InOrder
    BY DEF Inv, LastInv, InOrder, TypeOK
  <2>5. clicks = 0 => InOrder
    <3>1. \A c \in DOMAIN layout2 : layout2[c].load \in Load
      <4>1. \A c \in DOMAIN layout2 : layout2[c] \in CardRec
        BY DEF TypeOK
      <4> QED BY <4>1 DEF CardRec
    <3>2. \A c \in DOMAIN layout2 : layout2[c].load # 0
      <4>1. 0 \notin Load
        BY BrowserAssumption DEF Load
      <4> QED BY <3>1, <4>1
    <3> QED BY <3>2 DEF InOrder
  <2>6. clicks = 0 \/ clicks > 0
    BY DEF TypeOK
  <2> QED BY <2>1, <2>2, <2>3, <2>4, <2>5, <2>6
<1> QED BY <1>1, <1>2, <1>3, TypeCorrect, PTL DEF Spec
=============================================================================
