------------------------- MODULE TorrentFeedProofs -------------------------
(***************************************************************************)
(* Theorems about TorrentFeed: however the network cuts a feed of any      *)
(* length into chunks, what is listed are its items in their order.        *)
(*                                                                         *)
(* What the parser computes is a recursion over the tokens of a chunk.     *)
(* That it exists (Reading), and what it computes (Chunk), is proved from  *)
(* the least number of tokens for which it would fail (Least).             *)
(***************************************************************************)
EXTENDS TorrentFeed, SequenceTheorems, WellFoundedInduction, TLAPS

\* A non-empty set of numbers has a least one.
LEMMA Least ==
    ASSUME NEW S \in SUBSET Nat, S # {}
    PROVE  \E m \in S : \A n \in S : m <= n
<1>1. IsWellFoundedOn({ss \in Nat \X Nat : ss[1] < ss[2]}, Nat)
  BY NatLessThanWellFounded DEF OpToRel
<1>2. PICK m \in S : \A n \in S : ~ (<<n, m>> \in {ss \in Nat \X Nat : ss[1] < ss[2]})
  BY <1>1, WFMin
<1>3. \A n \in S : ~ (n < m)
  BY <1>2
<1> QED BY <1>3

-----------------------------------------------------------------------------
(* The recursion of parseXml.                                               *)

\* The states of the parser before and after each of the first n tokens.
IsRead(f, s, tokens, n) ==
    f = [m \in 0..n |-> IF m = 0 THEN s ELSE Token(f[m - 1], tokens[m])]

LEMMA Reading ==
    ASSUME NEW s, NEW tokens, NEW n \in Nat
    PROVE  \E f : IsRead(f, s, tokens, n)
<1> DEFINE Bad == {m \in Nat : ~ \E f : IsRead(f, s, tokens, m)}
<1>1. SUFFICES ASSUME Bad # {} PROVE FALSE
  OBVIOUS
<1>2. PICK m \in Bad : \A k \in Bad : m <= k
  BY <1>1, Least
<1>3. CASE m = 0
  <2>1. IsRead([k \in 0..m |-> s], s, tokens, m)
    BY <1>3 DEF IsRead
  <2> QED BY <2>1
<1>4. CASE m > 0
  <2>1. m - 1 \in Nat /\ m - 1 \notin Bad
    BY <1>2, <1>4
  <2>2. PICK f : IsRead(f, s, tokens, m - 1)
    BY <2>1
  <2> DEFINE g == [k \in 0..m |-> IF k = m THEN Token(f[m - 1], tokens[m]) ELSE f[k]]
             h == [k \in 0..m |-> IF k = 0 THEN s ELSE Token(g[k - 1], tokens[k])]
  <2>3. ASSUME NEW k \in 0..m PROVE g[k] = h[k]
    <3>1. CASE k = m
      <4>1. g[k - 1] = f[k - 1]
        BY <1>4, <3>1
      <4> QED BY <1>4, <3>1, <4>1
    <3>2. CASE k # m
      <4>1. k \in 0..m - 1 /\ (k # 0 => k - 1 \in 0..m - 1)
        BY <3>2
      <4>2. f[k] = IF k = 0 THEN s ELSE Token(f[k - 1], tokens[k])
        BY <2>2, <4>1 DEF IsRead
      <4>3. g[k] = f[k] /\ (k # 0 => g[k - 1] = f[k - 1])
        BY <3>2, <4>1
      <4> QED BY <4>2, <4>3
    <3> QED BY <3>1, <3>2
  <2>4. g = h
    BY <2>3
  <2>5. IsRead(g, s, tokens, m)
    BY <2>4 DEF IsRead
  <2> QED BY <2>5
<1> QED BY <1>3, <1>4

Parser == [metItem |-> FALSE, tag |-> currentTag, title |-> titleString,
           link |-> linkString, titles |-> titles, links |-> links]

LEMMA ParsesBySteps ==
    ASSUME NEW X, NEW tokens \in Seq(X)
    PROVE  \E f : /\ f[0] = Parser
                  /\ \A m \in 1..Len(tokens) : f[m] = Token(f[m - 1], tokens[m])
                  /\ parseXml(tokens) = f[Len(tokens)]
<1> DEFINE n == Len(tokens)
           read == CHOOSE f : IsRead(f, Parser, tokens, n)
<1>1. IsRead(read, Parser, tokens, n)
  BY Reading
<1>2. parseXml(tokens) = read[n]
  BY DEF parseXml, IsRead, Parser
<1> HIDE DEF read
<1>3. read[0] = Parser
  BY <1>1 DEF IsRead
<1>4. ASSUME NEW m \in 1..n PROVE read[m] = Token(read[m - 1], tokens[m])
  BY <1>1, <1>4 DEF IsRead
<1> QED BY <1>2, <1>3, <1>4

-----------------------------------------------------------------------------
(* The feed.  Item i begins after the token Place(i, 0).                    *)

Place(i, r) == Size * i - 6 + r

LEMMA DocumentIs ==
    /\ Len(Document) = 4 + Size * Items
    /\ Document = [p \in 1..Len(Document) |-> Document[p]]
    /\ \A p \in 1..4 : Document[p] = Channel[p]
    /\ \A i \in 1..Items, r \in 0..9 : Document[Place(i, r) + 1] = Item(i)[r + 1]
<1> DEFINE tok(p) == IF p <= 4 THEN Channel[p]
                     ELSE Item((p - 5) \div Size + 1)[((p - 5) % Size) + 1]
           n == 4 + Size * Items
<1>1. Items \in Nat /\ n \in Nat
  BY FeedAssumption DEF Size
<1>2. Document = [p \in 1..n |-> tok(p)]
  BY DEF Document
<1>3. \A p \in 1..4 : tok(p) = Channel[p]
  OBVIOUS
<1>4. ASSUME NEW i \in 1..Items, NEW r \in 0..9
      PROVE  Place(i, r) + 1 \in 5..n /\ tok(Place(i, r) + 1) = Item(i)[r + 1]
  <2> DEFINE p == Place(i, r) + 1
  <2>1. p \in 5..n
    BY <1>1 DEF Place, Size
  <2>2. (p - 5) \div Size + 1 = i /\ (p - 5) % Size = r
    BY <1>1 DEF Size, Place
  <2> HIDE DEF p
  <2>3. tok(p) = Item(i)[r + 1]
    BY <2>1, <2>2
  <2> QED BY <2>1, <2>3 DEF p
<1> HIDE DEF tok
<1>5. Len(Document) = n
  BY <1>1, <1>2
<1>6. \A p \in 1..n : Document[p] = tok(p)
  BY <1>2
<1>7. 1..4 \subseteq 1..n
  BY <1>1, FeedAssumption DEF Size
<1>8. \A p \in 1..4 : Document[p] = Channel[p]
  BY <1>3, <1>6, <1>7
<1>9. Document = [p \in 1..n |-> Document[p]]
  BY <1>2
<1>10. \A i \in 1..Items, r \in 0..9 : Document[Place(i, r) + 1] = Item(i)[r + 1]
  BY <1>4, <1>6, <1>1
<1> QED BY <1>5, <1>8, <1>9, <1>10

\* Every token but those of the channel is one of an item.
LEMMA Places ==
    ASSUME NEW p \in Nat, p >= 4, p <= Len(Document)
    PROVE  \E i \in 1..Items + 1, r \in 0..9 :
               p = Place(i, r) /\ (i = Items + 1 => r = 0)
<1> DEFINE i == (p - 4) \div 10 + 1
           r == (p - 4) % 10
<1>1. Items \in Nat /\ p <= 4 + 10 * Items
  BY DocumentIs, FeedAssumption DEF Size
<1>2. i \in Int /\ r \in 0..9 /\ p - 4 = 10 * (i - 1) + r
  OBVIOUS
<1> HIDE DEF i, r
<1>3. i \in 1..Items + 1 /\ p = Place(i, r) /\ (i = Items + 1 => r = 0)
  BY <1>1, <1>2 DEF Place, Size
<1> QED BY <1>2, <1>3

-----------------------------------------------------------------------------
(* What one token does to the state of the parser.                          *)

AnyText == [item : Nat, tag : {"title", "description"}, part : Part]
Tag == {"", "item", "title", "description"}
ParserState == [metItem : BOOLEAN, tag : Tag,
                title : SUBSET AnyText, link : SUBSET AnyText,
                titles : Seq(SUBSET AnyText), links : Seq(SUBSET AnyText)]

LEMMA StartIs ==
    ASSUME NEW s \in ParserState, NEW i \in Nat, NEW tag \in {"title", "description"}
    PROVE  LET u == Token(s, Starts(i, tag)) IN
           /\ u \in ParserState
           /\ u.tag = tag /\ u.title = s.title /\ u.link = s.link
           /\ u.titles = s.titles /\ u.links = s.links
           /\ u.metItem = s.metItem
<1> DEFINE u == Token(s, Starts(i, tag))
<1>1. u = [s EXCEPT !.metItem = @ \/ tag = "item", !.tag = tag]
  BY DEF Token, StartElement, Starts
<1>2. u.tag = tag /\ u.title = s.title /\ u.link = s.link
  BY <1>1 DEF ParserState
<1>3. u.titles = s.titles /\ u.links = s.links
  BY <1>1 DEF ParserState
<1>4. u.metItem = s.metItem
  BY <1>1 DEF ParserState
<1>5. u \in ParserState
  BY <1>1 DEF ParserState, Tag
<1> QED BY <1>2, <1>3, <1>4, <1>5

LEMMA StartOfItemIs ==
    ASSUME NEW s \in ParserState, NEW i \in Nat
    PROVE  LET u == Token(s, Starts(i, "item")) IN
           /\ u \in ParserState
           /\ u.tag = "item" /\ u.title = s.title /\ u.link = s.link
           /\ u.titles = s.titles /\ u.links = s.links
           /\ u.metItem = TRUE
<1> DEFINE u == Token(s, Starts(i, "item"))
<1>1. u = [s EXCEPT !.metItem = @ \/ "item" = "item", !.tag = "item"]
  BY DEF Token, StartElement, Starts
<1>2. u.tag = "item" /\ u.title = s.title /\ u.link = s.link
  BY <1>1 DEF ParserState
<1>3. u.titles = s.titles /\ u.links = s.links
  BY <1>1 DEF ParserState
<1>4. u.metItem = TRUE
  BY <1>1 DEF ParserState
<1>5. u \in ParserState
  BY <1>1 DEF ParserState, Tag
<1> QED BY <1>2, <1>3, <1>4, <1>5

LEMMA EndIs ==
    ASSUME NEW s \in ParserState, NEW i \in Nat, NEW tag \in {"title", "description"}
    PROVE  LET u == Token(s, Ends(i, tag)) IN
           /\ u \in ParserState
           /\ u.tag = ""
           /\ u.title = s.title /\ u.link = s.link /\ u.metItem = s.metItem
           /\ u.titles = s.titles /\ u.links = s.links
<1> DEFINE u == Token(s, Ends(i, tag))
<1>1. u = [s EXCEPT !.tag = ""]
  BY DEF Token, EndElement, Ends
<1>2. u \in ParserState
  BY <1>1 DEF ParserState, Tag
<1>3. u.title = s.title /\ u.link = s.link /\ u.metItem = s.metItem /\ u.tag = ""
  BY <1>1 DEF ParserState
<1>4. u.titles = s.titles /\ u.links = s.links
  BY <1>1 DEF ParserState
<1> QED BY <1>2, <1>3, <1>4

LEMMA EndOfItemIs ==
    ASSUME NEW s \in ParserState, NEW i \in Nat
    PROVE  LET u == Token(s, Ends(i, "item")) IN
           /\ u \in ParserState
           /\ u.tag = ""
           /\ u.title = {} /\ u.link = {} /\ u.metItem = FALSE
           /\ u.titles = Append(s.titles, s.title)
           /\ u.links = Append(s.links, s.link)
<1> DEFINE u == Token(s, Ends(i, "item"))
<1>1. u = [s EXCEPT !.titles = Append(@, s.title), !.links = Append(@, s.link),
                    !.title = {}, !.link = {}, !.metItem = FALSE, !.tag = ""]
  BY DEF Token, EndElement, Ends
<1>2. u.title = {} /\ u.link = {} /\ u.metItem = FALSE /\ u.tag = ""
  BY <1>1 DEF ParserState
<1>3. u.titles = Append(s.titles, s.title) /\ u.links = Append(s.links, s.link)
  BY <1>1 DEF ParserState
<1>4. s.titles \in Seq(SUBSET AnyText) /\ s.title \in SUBSET AnyText
  BY DEF ParserState
<1>5. s.links \in Seq(SUBSET AnyText) /\ s.link \in SUBSET AnyText
  BY DEF ParserState
<1>6. Append(s.titles, s.title) \in Seq(SUBSET AnyText)
  BY <1>4
<1>7. Append(s.links, s.link) \in Seq(SUBSET AnyText)
  BY <1>5
<1> DEFINE a == Append(s.titles, s.title)
           b == Append(s.links, s.link)
<1>8. u = [s EXCEPT !.titles = a, !.links = b,
                    !.title = {}, !.link = {}, !.metItem = FALSE, !.tag = ""]
  BY <1>1
<1>9. a \in Seq(SUBSET AnyText) /\ b \in Seq(SUBSET AnyText)
  BY <1>6, <1>7
<1> HIDE DEF a, b
<1>10. u \in ParserState
  BY <1>8, <1>9 DEF ParserState, Tag
<1> QED BY <1>2, <1>3, <1>10

LEMMA TextOfTitleIs ==
    ASSUME NEW s \in ParserState, s.metItem = TRUE, s.tag = "title",
           NEW i \in Nat, NEW part \in Part
    PROVE  LET u == Token(s, Says(i, "title", part)) IN
           /\ u \in ParserState
           /\ u.tag = s.tag /\ u.metItem = s.metItem /\ u.link = s.link
           /\ u.titles = s.titles /\ u.links = s.links
           /\ u.title = s.title \cup {PartOf(i, "title", part)}
<1> DEFINE t == PartOf(i, "title", part)
           u == Token(s, Says(i, "title", part))
<1>1. u = Characters(s, Says(i, "title", part)) /\ Says(i, "title", part).text = t
  BY DEF Token, Says
<1>2. t \in AnyText
  BY DEF AnyText, PartOf
<1> HIDE DEF t
<1>3. u = [s EXCEPT !.title = @ \cup {t}]
  BY <1>1 DEF Characters
<1>4. u \in ParserState
  BY <1>2, <1>3 DEF ParserState
<1>5. /\ u.tag = s.tag /\ u.metItem = s.metItem /\ u.link = s.link
      /\ u.titles = s.titles /\ u.links = s.links
  BY <1>3 DEF ParserState
<1>6. u.title = s.title \cup {t}
  BY <1>3 DEF ParserState
<1> QED BY <1>4, <1>5, <1>6 DEF t

LEMMA TextOfLinkIs ==
    ASSUME NEW s \in ParserState, s.metItem = TRUE, s.tag = "description",
           NEW i \in Nat, NEW part \in Part
    PROVE  LET u == Token(s, Says(i, "description", part)) IN
           /\ u \in ParserState
           /\ u.tag = s.tag /\ u.metItem = s.metItem /\ u.title = s.title
           /\ u.titles = s.titles /\ u.links = s.links
           /\ u.link = s.link \cup {PartOf(i, "description", part)}
<1> DEFINE t == PartOf(i, "description", part)
           u == Token(s, Says(i, "description", part))
<1>1. u = Characters(s, Says(i, "description", part)) /\ Says(i, "description", part).text = t
  BY DEF Token, Says
<1>2. t \in AnyText
  BY DEF AnyText, PartOf
<1> HIDE DEF t
<1>3. u = [s EXCEPT !.link = @ \cup {t}]
  BY <1>1 DEF Characters
<1>4. u \in ParserState
  BY <1>2, <1>3 DEF ParserState
<1>5. /\ u.tag = s.tag /\ u.metItem = s.metItem /\ u.title = s.title
      /\ u.titles = s.titles /\ u.links = s.links
  BY <1>3 DEF ParserState
<1>6. u.link = s.link \cup {t}
  BY <1>3 DEF ParserState
<1> QED BY <1>4, <1>5, <1>6 DEF t

LEMMA TextIsIgnored ==
    ASSUME NEW s \in ParserState, s.metItem = FALSE,
           NEW i \in Nat, NEW tag \in {"title", "description"}, NEW part \in Part
    PROVE  Token(s, Says(i, tag, part)) = s
  BY DEF Token, Says, Characters

-----------------------------------------------------------------------------
(* Where the parser is after the first p tokens: in the channel or after    *)
(* the first r tokens of item i.                                            *)

TagAfter(r) == IF r = 1 THEN "item"
               ELSE IF r \in 2..4 THEN "title"
               ELSE IF r \in 6..8 THEN "description"
               ELSE ""

\* What has been read of a text whose first part is token n of the item.
ReadOf(i, tag, r, n) ==
    IF r < n THEN {}
    ELSE IF r = n THEN {PartOf(i, tag, "first")}
    ELSE Text(i, tag)

Listed(seq, tag, c) ==
    \A j \in 1..Len(seq) :
        seq[j] \subseteq Text(j, tag) /\ (j \notin c => seq[j] = Text(j, tag))

\* c: the items that are known to be incomplete.
InItem(s, i, r, c) ==
    /\ Len(s.titles) = i - 1 /\ Listed(s.titles, "title", c)
    /\ Len(s.links) = i - 1 /\ Listed(s.links, "description", c)
    /\ s.tag = TagAfter(r)
    /\ s.title \subseteq ReadOf(i, "title", r, 3)
    /\ s.link \subseteq ReadOf(i, "description", r, 7)
    /\ r # 0 /\ i \notin c =>
          /\ s.metItem = TRUE
          /\ s.title = ReadOf(i, "title", r, 3)
          /\ s.link = ReadOf(i, "description", r, 7)

InChannel(s) ==
    /\ s.metItem = FALSE
    /\ s.title = {} /\ s.link = {} /\ s.titles = <<>> /\ s.links = <<>>

Good(s, p, c) ==
    /\ s \in ParserState
    /\ \/ p \in 0..3 /\ InChannel(s)
       \/ \E i \in 1..Items + 1, r \in 0..9 : p = Place(i, r) /\ InItem(s, i, r, c)

LEMMA ItemsTokens ==
    ASSUME NEW i
    PROVE  /\ Item(i)[1] = Starts(i, "item") /\ Item(i)[2] = Starts(i, "title")
           /\ Item(i)[3] = Says(i, "title", "first") /\ Item(i)[4] = Says(i, "title", "second")
           /\ Item(i)[5] = Ends(i, "title") /\ Item(i)[6] = Starts(i, "description")
           /\ Item(i)[7] = Says(i, "description", "first")
           /\ Item(i)[8] = Says(i, "description", "second")
           /\ Item(i)[9] = Ends(i, "description") /\ Item(i)[10] = Ends(i, "item")
  BY DEF Item

LEMMA ChannelsTokens ==
    /\ Channel[1] = Starts(0, "title") /\ Channel[2] = Says(0, "title", "first")
    /\ Channel[3] = Says(0, "title", "second") /\ Channel[4] = Ends(0, "title")
  BY DEF Channel

LEMMA ChannelStep ==
    ASSUME NEW s \in ParserState, InChannel(s), NEW p \in 0..3, NEW c
    PROVE  Good(Token(s, Document[p + 1]), p + 1, c)
<1>1. Document[p + 1] = Channel[p + 1]
  BY DocumentIs
<1>2. /\ s.metItem = FALSE /\ s.title = {} /\ s.link = {} /\ s.titles = <<>>
      /\ s.links = <<>>
  BY DEF InChannel
<1> 0 \in Nat /\ "title" \in {"title", "description"}
  OBVIOUS
<1>3. CASE p = 0
  <2> DEFINE u == Token(s, Starts(0, "title"))
  <2>1. Token(s, Document[p + 1]) = u
    BY <1>1, <1>3, ChannelsTokens
  <2>2. /\ u \in ParserState /\ u.title = s.title /\ u.link = s.link
        /\ u.titles = s.titles /\ u.links = s.links
    BY StartIs
  <2>3. u.metItem = s.metItem
    BY StartIs
  <2> HIDE DEF u
  <2>4. InChannel(u)
    BY <1>2, <2>2, <2>3 DEF InChannel
  <2> QED BY <1>3, <2>1, <2>2, <2>4 DEF Good
<1>4. CASE p \in {1, 2}
  <2>1. PICK part \in Part : Document[p + 1] = Says(0, "title", part)
    BY <1>1, <1>4, ChannelsTokens DEF Part
  <2>2. Token(s, Says(0, "title", part)) = s
    BY <1>2, TextIsIgnored, Zenon
  <2> QED BY <1>4, <2>1, <2>2 DEF Good
<1>5. CASE p = 3
  <2> DEFINE u == Token(s, Ends(0, "title"))
  <2>1. Token(s, Document[p + 1]) = u
    BY <1>1, <1>5, ChannelsTokens
  <2>2. u \in ParserState /\ u.tag = ""
    BY EndIs
  <2>3. u.title = s.title /\ u.link = s.link /\ u.titles = s.titles /\ u.links = s.links
    BY EndIs
  <2> HIDE DEF u
  <2>4. u.title = {} /\ u.link = {} /\ u.titles = <<>> /\ u.links = <<>>
    BY <1>2, <2>3
  <2>5. Len(u.titles) = 0 /\ Len(u.links) = 0
    BY <2>4
  <2>6. TagAfter(0) = ""
    BY DEF TagAfter
  <2>7. u.tag = TagAfter(0)
    BY <2>2, <2>6
  <2>8. 1..Len(u.titles) = {} /\ 1..Len(u.links) = {}
    BY <2>5
  <2>9. Listed(u.titles, "title", c) /\ Listed(u.links, "description", c)
    BY <2>8 DEF Listed
  <2>10. InItem(u, 1, 0, c)
    BY <2>4, <2>5, <2>7, <2>9 DEF InItem
  <2>11. 1 \in 1..Items + 1
    BY FeedAssumption
  <2>12. p + 1 = Place(1, 0)
    BY <1>5 DEF Place, Size
  <2>13. \E i \in 1..Items + 1, r \in 0..9 : p + 1 = Place(i, r) /\ InItem(u, i, r, c)
    BY <2>10, <2>11, <2>12
  <2> QED BY <2>1, <2>2, <2>13 DEF Good
<1> QED BY <1>3, <1>4, <1>5

LEMMA Witness ==
    ASSUME NEW u \in ParserState, NEW i \in 1..Items, NEW r \in 0..8, NEW c,
           InItem(u, i, r + 1, c)
    PROVE  Good(u, Place(i, r) + 1, c)
<1>1. i \in 1..Items + 1 /\ r + 1 \in 0..9 /\ Place(i, r) + 1 = Place(i, r + 1)
  BY FeedAssumption DEF Place, Size
<1> QED BY <1>1 DEF Good

\* Nothing is read of the texts by the tokens around them.
LEMMA ReadOfStays ==
    ASSUME NEW i, NEW r \in 0..8
    PROVE  /\ r \notin {2, 3} => ReadOf(i, "title", r + 1, 3) = ReadOf(i, "title", r, 3)
           /\ r \notin {6, 7} =>
                 ReadOf(i, "description", r + 1, 7) = ReadOf(i, "description", r, 7)
  BY DEF ReadOf

\* The two parts of a text are read one after the other.
LEMMA ReadOfGrows ==
    ASSUME NEW i, NEW tag, NEW n \in {3, 7}
    PROVE  /\ ReadOf(i, tag, n, n) =
                 ReadOf(i, tag, n - 1, n) \cup {PartOf(i, tag, "first")}
           /\ ReadOf(i, tag, n + 1, n) =
                 ReadOf(i, tag, n, n) \cup {PartOf(i, tag, "second")}
  BY DEF ReadOf, Text, Part, PartOf

LEMMA StillInItem ==
    ASSUME NEW s \in ParserState, NEW u \in ParserState, NEW i \in 1..Items,
           NEW r \in {0, 1, 4, 5, 8}, NEW c, InItem(s, i, r, c),
           u.titles = s.titles, u.links = s.links, u.title = s.title, u.link = s.link,
           u.tag = TagAfter(r + 1),
           r = 0 => u.metItem = TRUE, r # 0 => u.metItem = s.metItem
    PROVE  Good(u, Place(i, r) + 1, c)
<1>1. /\ ReadOf(i, "title", r + 1, 3) = ReadOf(i, "title", r, 3)
      /\ ReadOf(i, "description", r + 1, 7) = ReadOf(i, "description", r, 7)
  BY ReadOfStays
<1>2. /\ Len(u.titles) = i - 1 /\ Listed(u.titles, "title", c)
      /\ Len(u.links) = i - 1 /\ Listed(u.links, "description", c)
      /\ u.title \subseteq ReadOf(i, "title", r + 1, 3)
      /\ u.link \subseteq ReadOf(i, "description", r + 1, 7)
  BY <1>1 DEF InItem
<1>3. ASSUME i \notin c
      PROVE  /\ u.metItem = TRUE
             /\ u.title = ReadOf(i, "title", r + 1, 3)
             /\ u.link = ReadOf(i, "description", r + 1, 7)
  <2>1. CASE r = 0
    <3>1. ReadOf(i, "title", r, 3) = {} /\ ReadOf(i, "description", r, 7) = {}
      BY <2>1 DEF ReadOf
    <3> QED BY <1>1, <1>2, <2>1, <3>1
  <2>2. CASE r # 0
    BY <1>1, <1>3, <2>2 DEF InItem
  <2> QED BY <2>1, <2>2
<1>4. InItem(u, i, r + 1, c)
  BY <1>2, <1>3 DEF InItem
<1> QED BY <1>4, Witness

LEMMA Tags ==
    /\ TagAfter(0) = "" /\ TagAfter(1) = "item" /\ TagAfter(2) = "title"
    /\ TagAfter(5) = "" /\ TagAfter(6) = "description" /\ TagAfter(9) = ""
  BY DEF TagAfter

LEMMA TextTags ==
    /\ \A r \in {2, 3, 4} : TagAfter(r) = "title"
    /\ \A r \in {6, 7, 8} : TagAfter(r) = "description"
  BY DEF TagAfter

LEMMA TitleStep ==
    ASSUME NEW s \in ParserState, NEW i \in 1..Items, NEW r \in {2, 3}, NEW c,
           InItem(s, i, r, c),
           NEW part \in Part, (r = 2 /\ part = "first") \/ (r = 3 /\ part = "second")
    PROVE  Good(Token(s, Says(i, "title", part)), Place(i, r) + 1, c)
<1> DEFINE u == Token(s, Says(i, "title", part))
           t == PartOf(i, "title", part)
<1> i \in Nat /\ r \in {2, 3, 4} /\ r + 1 \in {2, 3, 4} /\ r \in 0..8
  OBVIOUS
<1>1. s.tag = "title" /\ TagAfter(r + 1) = "title"
  BY TextTags DEF InItem
<1>2. ReadOf(i, "title", r + 1, 3) = ReadOf(i, "title", r, 3) \cup {t}
  BY ReadOfGrows
<1>3. ReadOf(i, "description", r + 1, 7) = ReadOf(i, "description", r, 7)
  BY ReadOfStays
<1>4. CASE s.metItem = TRUE
  <2>1. u \in ParserState
    BY <1>1, <1>4, TextOfTitleIs
  <2>2. u.tag = s.tag /\ u.metItem = s.metItem /\ u.link = s.link
    BY <1>1, <1>4, TextOfTitleIs
  <2>3. u.titles = s.titles /\ u.links = s.links
    BY <1>1, <1>4, TextOfTitleIs
  <2>4. ASSUME NEW x PROVE x \in u.title <=> x \in s.title \cup {t}
    BY <1>1, <1>4, TextOfTitleIs
  <2> HIDE DEF u, t
  <2>5. u.title = s.title \cup {t}
    BY <2>4
  <2>6. /\ Len(u.titles) = i - 1 /\ Listed(u.titles, "title", c)
        /\ Len(u.links) = i - 1 /\ Listed(u.links, "description", c)
    BY <2>3 DEF InItem
  <2>7. /\ u.title \subseteq ReadOf(i, "title", r + 1, 3)
        /\ u.link \subseteq ReadOf(i, "description", r + 1, 7)
    BY <1>2, <1>3, <2>2, <2>5 DEF InItem
  <2>8. ASSUME i \notin c
        PROVE  /\ u.title = ReadOf(i, "title", r + 1, 3)
               /\ u.link = ReadOf(i, "description", r + 1, 7)
    BY <1>2, <1>3, <2>2, <2>5, <2>8 DEF InItem
  <2>9. u.metItem = TRUE /\ u.tag = TagAfter(r + 1)
    BY <1>1, <1>4, <2>2
  <2>10. InItem(u, i, r + 1, c)
    BY <2>6, <2>7, <2>8, <2>9 DEF InItem
  <2>11. Good(u, Place(i, r) + 1, c)
    BY <2>1, <2>10, Witness
  <2> QED BY <2>11 DEF u
<1>5. CASE s.metItem = FALSE
  <2>1. Token(s, Says(i, "title", part)) = s
    BY <1>5, TextIsIgnored
  <2> HIDE DEF t
  <2>2. i \in c
    BY <1>5 DEF InItem
  <2>3. /\ s.title \subseteq ReadOf(i, "title", r + 1, 3)
        /\ s.link \subseteq ReadOf(i, "description", r + 1, 7)
    BY <1>2, <1>3 DEF InItem
  <2>4. InItem(s, i, r + 1, c)
    BY <1>1, <2>2, <2>3 DEF InItem
  <2>5. Good(s, Place(i, r) + 1, c)
    BY <2>4, Witness
  <2> QED BY <2>1, <2>5
<1>6. s.metItem = TRUE \/ s.metItem = FALSE
  BY DEF ParserState
<1> QED BY <1>4, <1>5, <1>6

LEMMA LinkStep ==
    ASSUME NEW s \in ParserState, NEW i \in 1..Items, NEW r \in {6, 7}, NEW c,
           InItem(s, i, r, c),
           NEW part \in Part, (r = 6 /\ part = "first") \/ (r = 7 /\ part = "second")
    PROVE  Good(Token(s, Says(i, "description", part)), Place(i, r) + 1, c)
<1> DEFINE u == Token(s, Says(i, "description", part))
           t == PartOf(i, "description", part)
<1> i \in Nat /\ r \in {6, 7, 8} /\ r + 1 \in {6, 7, 8} /\ r \in 0..8
  OBVIOUS
<1>1. s.tag = "description" /\ TagAfter(r + 1) = "description"
  BY TextTags DEF InItem
<1>2. ReadOf(i, "description", r + 1, 7) = ReadOf(i, "description", r, 7) \cup {t}
  BY ReadOfGrows
<1>3. ReadOf(i, "title", r + 1, 3) = ReadOf(i, "title", r, 3)
  BY ReadOfStays
<1>4. CASE s.metItem = TRUE
  <2>1. u \in ParserState
    BY <1>1, <1>4, TextOfLinkIs
  <2>2. u.tag = s.tag /\ u.metItem = s.metItem /\ u.title = s.title
    BY <1>1, <1>4, TextOfLinkIs
  <2>3. u.titles = s.titles /\ u.links = s.links
    BY <1>1, <1>4, TextOfLinkIs
  <2>4. ASSUME NEW x PROVE x \in u.link <=> x \in s.link \cup {t}
    BY <1>1, <1>4, TextOfLinkIs
  <2> HIDE DEF u, t
  <2>5. u.link = s.link \cup {t}
    BY <2>4
  <2>6. /\ Len(u.titles) = i - 1 /\ Listed(u.titles, "title", c)
        /\ Len(u.links) = i - 1 /\ Listed(u.links, "description", c)
    BY <2>3 DEF InItem
  <2>7. /\ u.link \subseteq ReadOf(i, "description", r + 1, 7)
        /\ u.title \subseteq ReadOf(i, "title", r + 1, 3)
    BY <1>2, <1>3, <2>2, <2>5 DEF InItem
  <2>8. ASSUME i \notin c
        PROVE  /\ u.link = ReadOf(i, "description", r + 1, 7)
               /\ u.title = ReadOf(i, "title", r + 1, 3)
    BY <1>2, <1>3, <2>2, <2>5, <2>8 DEF InItem
  <2>9. u.metItem = TRUE /\ u.tag = TagAfter(r + 1)
    BY <1>1, <1>4, <2>2
  <2>10. InItem(u, i, r + 1, c)
    BY <2>6, <2>7, <2>8, <2>9 DEF InItem
  <2>11. Good(u, Place(i, r) + 1, c)
    BY <2>1, <2>10, Witness
  <2> QED BY <2>11 DEF u
<1>5. CASE s.metItem = FALSE
  <2>1. Token(s, Says(i, "description", part)) = s
    BY <1>5, TextIsIgnored
  <2> HIDE DEF t
  <2>2. i \in c
    BY <1>5 DEF InItem
  <2>3. /\ s.link \subseteq ReadOf(i, "description", r + 1, 7)
        /\ s.title \subseteq ReadOf(i, "title", r + 1, 3)
    BY <1>2, <1>3 DEF InItem
  <2>4. InItem(s, i, r + 1, c)
    BY <1>1, <2>2, <2>3 DEF InItem
  <2>5. Good(s, Place(i, r) + 1, c)
    BY <2>4, Witness
  <2> QED BY <2>1, <2>5
<1>6. s.metItem = TRUE \/ s.metItem = FALSE
  BY DEF ParserState
<1> QED BY <1>4, <1>5, <1>6

LEMMA ListedWithOne ==
    ASSUME NEW seq \in Seq(SUBSET AnyText), NEW x \in SUBSET AnyText, NEW i \in Nat,
           Len(seq) = i - 1, NEW tag, NEW c, Listed(seq, tag, c),
           x \subseteq Text(i, tag), i \notin c => x = Text(i, tag)
    PROVE  Len(Append(seq, x)) = i /\ Listed(Append(seq, x), tag, c)
<1> DEFINE longer == Append(seq, x)
<1>1. Len(longer) = i /\ longer[i] = x /\ \A j \in 1..i - 1 : longer[j] = seq[j]
  OBVIOUS
<1> HIDE DEF longer
<1>2. ASSUME NEW j \in 1..i
      PROVE  longer[j] \subseteq Text(j, tag) /\ (j \notin c => longer[j] = Text(j, tag))
  <2>1. CASE j = i
    BY <1>1, <2>1
  <2>2. CASE j # i
    <3>1. j \in 1..Len(seq) /\ longer[j] = seq[j]
      BY <1>1, <2>2
    <3> QED BY <3>1 DEF Listed
  <2> QED BY <2>1, <2>2
<1>3. Listed(longer, tag, c)
  BY <1>1, <1>2 DEF Listed
<1> QED BY <1>1, <1>3 DEF longer

LEMMA EndOfItemStep ==
    ASSUME NEW s \in ParserState, NEW i \in 1..Items, NEW c, InItem(s, i, 9, c)
    PROVE  Good(Token(s, Ends(i, "item")), Place(i, 9) + 1, c)
<1> DEFINE u == Token(s, Ends(i, "item"))
<1> i \in Nat
  OBVIOUS
<1>1. u \in ParserState /\ u.tag = "" /\ u.title = {} /\ u.link = {}
  BY EndOfItemIs
<1>2. u.titles = Append(s.titles, s.title) /\ u.links = Append(s.links, s.link)
  BY EndOfItemIs
<1> HIDE DEF u
<1>3. /\ s.titles \in Seq(SUBSET AnyText) /\ s.links \in Seq(SUBSET AnyText)
      /\ s.title \in SUBSET AnyText /\ s.link \in SUBSET AnyText
  BY DEF ParserState
<1>4. /\ Len(s.titles) = i - 1 /\ Listed(s.titles, "title", c)
      /\ Len(s.links) = i - 1 /\ Listed(s.links, "description", c)
  BY DEF InItem
<1>5. ReadOf(i, "title", 9, 3) = Text(i, "title")
  BY DEF ReadOf
<1>6. ReadOf(i, "description", 9, 7) = Text(i, "description")
  BY DEF ReadOf
<1>7. /\ s.title \subseteq Text(i, "title")
      /\ i \notin c => s.title = Text(i, "title")
  BY <1>5 DEF InItem
<1>8. /\ s.link \subseteq Text(i, "description")
      /\ i \notin c => s.link = Text(i, "description")
  BY <1>6 DEF InItem
<1>9. Len(u.titles) = i /\ Listed(u.titles, "title", c)
  BY <1>2, <1>3, <1>4, <1>7, ListedWithOne
<1>10. Len(u.links) = i /\ Listed(u.links, "description", c)
  BY <1>2, <1>3, <1>4, <1>8, ListedWithOne
<1>11. u.tag = TagAfter(0)
  BY <1>1, Tags, Zenon
<1>12. (i + 1) - 1 = i
  OBVIOUS
<1>13. InItem(u, i + 1, 0, c)
  BY <1>1, <1>9, <1>10, <1>11, <1>12 DEF InItem
<1>14. i + 1 \in 1..Items + 1 /\ Place(i, 9) + 1 = Place(i + 1, 0)
  BY FeedAssumption DEF Place, Size
<1>15. 0 \in 0..9
  OBVIOUS
<1>16. Good(u, Place(i, 9) + 1, c)
  BY <1>1, <1>13, <1>14, <1>15, Zenon DEF Good
<1> QED BY <1>16 DEF u

LEMMA AroundStep ==
    ASSUME NEW s \in ParserState, NEW i \in 1..Items, NEW r \in {0, 1, 4, 5, 8}, NEW c,
           InItem(s, i, r, c)
    PROVE  Good(Token(s, Item(i)[r + 1]), Place(i, r) + 1, c)
<1> i \in Nat
  OBVIOUS
<1>1. CASE r = 0
  <2> DEFINE u == Token(s, Starts(i, "item"))
  <2>1. Item(i)[r + 1] = Starts(i, "item")
    BY <1>1, ItemsTokens
  <2>2. /\ u \in ParserState /\ u.title = s.title /\ u.link = s.link
        /\ u.titles = s.titles /\ u.links = s.links
    BY StartOfItemIs
  <2>3. u.metItem = TRUE /\ u.tag = "item"
    BY StartOfItemIs
  <2> HIDE DEF u
  <2>4. r + 1 = 1
    BY <1>1
  <2>5. u.tag = TagAfter(r + 1)
    BY <2>3, <2>4, Tags, Zenon
  <2>6. Good(u, Place(i, r) + 1, c)
    BY <1>1, <2>2, <2>3, <2>5, StillInItem
  <2> QED BY <2>1, <2>6 DEF u
<1>2. CASE r \in {1, 5}
  <2> DEFINE tag == IF r = 1 THEN "title" ELSE "description"
  <2>1. Item(i)[r + 1] = Starts(i, tag)
    BY <1>2, ItemsTokens
  <2>2. tag \in {"title", "description"}
    OBVIOUS
  <2>3. TagAfter(r + 1) = tag
    <3>1. CASE r = 1
      <4>1. r + 1 = 2 /\ tag = "title"
        BY <3>1
      <4> QED BY <4>1, Tags, Zenon
    <3>2. CASE r = 5
      <4>1. r + 1 = 6 /\ tag = "description"
        BY <3>2
      <4> QED BY <4>1, Tags, Zenon
    <3> QED BY <1>2, <3>1, <3>2
  <2> HIDE DEF tag
  <2> DEFINE u == Token(s, Starts(i, tag))
  <2>4. /\ u \in ParserState /\ u.title = s.title /\ u.link = s.link
        /\ u.titles = s.titles /\ u.links = s.links
    BY <2>2, StartIs
  <2>5. u.metItem = s.metItem /\ u.tag = tag
    BY <2>2, StartIs
  <2> HIDE DEF u
  <2>6. u.tag = TagAfter(r + 1)
    BY <2>3, <2>5
  <2>7. Good(u, Place(i, r) + 1, c)
    <3>1. (r = 0 => u.metItem = TRUE) /\ (r # 0 => u.metItem = s.metItem)
      <4>1. r # 0
        BY <1>2
      <4> QED BY <2>5, <4>1, Zenon
    <3> QED BY <2>4, <2>6, <3>1, StillInItem
  <2> QED BY <2>1, <2>7 DEF u
<1>3. CASE r \in {4, 8}
  <2> DEFINE tag == IF r = 4 THEN "title" ELSE "description"
  <2>1. Item(i)[r + 1] = Ends(i, tag)
    BY <1>3, ItemsTokens
  <2>2. tag \in {"title", "description"}
    OBVIOUS
  <2>3. TagAfter(r + 1) = ""
    BY <1>3 DEF TagAfter
  <2> HIDE DEF tag
  <2> DEFINE u == Token(s, Ends(i, tag))
  <2>4. /\ u \in ParserState /\ u.title = s.title /\ u.link = s.link
        /\ u.titles = s.titles /\ u.links = s.links
    BY <2>2, EndIs
  <2>5. u.metItem = s.metItem /\ u.tag = ""
    BY <2>2, EndIs
  <2> HIDE DEF u
  <2>6. u.tag = TagAfter(r + 1)
    BY <2>3, <2>5
  <2>7. Good(u, Place(i, r) + 1, c)
    <3>1. (r = 0 => u.metItem = TRUE) /\ (r # 0 => u.metItem = s.metItem)
      <4>1. r # 0
        BY <1>3
      <4> QED BY <2>5, <4>1, Zenon
    <3> QED BY <2>4, <2>6, <3>1, StillInItem
  <2> QED BY <2>1, <2>7 DEF u
<1> QED BY <1>1, <1>2, <1>3

LEMMA TokenStep ==
    ASSUME NEW s, NEW p \in Nat, p < Len(Document), NEW c, Good(s, p, c)
    PROVE  Good(Token(s, Document[p + 1]), p + 1, c)
<1>1. s \in ParserState
  BY DEF Good
<1>2. CASE p \in 0..3 /\ InChannel(s)
  BY <1>1, <1>2, ChannelStep
<1>3. CASE \E i \in 1..Items + 1, r \in 0..9 : p = Place(i, r) /\ InItem(s, i, r, c)
  <2>1. PICK i \in 1..Items + 1, r \in 0..9 : p = Place(i, r) /\ InItem(s, i, r, c)
    BY <1>3
  <2>2. i \in 1..Items
    <3>1. Size * i - 6 + r < 4 + Size * Items
      BY <2>1, DocumentIs DEF Place
    <3> QED BY <2>1, <3>1, FeedAssumption DEF Size
  <2>3. Document[p + 1] = Item(i)[r + 1]
    BY <2>1, <2>2, DocumentIs
  <2>4. CASE r \in {0, 1, 4, 5, 8}
    BY <1>1, <2>1, <2>2, <2>3, <2>4, AroundStep
  <2>5. CASE r \in {2, 3}
    <3>1. PICK part \in Part : /\ Item(i)[r + 1] = Says(i, "title", part)
                               /\ (r = 2 /\ part = "first") \/ (r = 3 /\ part = "second")
      BY <2>5, ItemsTokens DEF Part
    <3>2. Good(Token(s, Says(i, "title", part)), Place(i, r) + 1, c)
      BY <1>1, <2>1, <2>2, <2>5, <3>1, TitleStep
    <3> QED BY <2>1, <2>3, <3>1, <3>2
  <2>6. CASE r \in {6, 7}
    <3>1. PICK part \in Part : /\ Item(i)[r + 1] = Says(i, "description", part)
                               /\ (r = 6 /\ part = "first") \/ (r = 7 /\ part = "second")
      BY <2>6, ItemsTokens DEF Part
    <3>2. Good(Token(s, Says(i, "description", part)), Place(i, r) + 1, c)
      BY <1>1, <2>1, <2>2, <2>6, <3>1, LinkStep
    <3> QED BY <2>1, <2>3, <3>1, <3>2
  <2>7. CASE r = 9
    <3>1. Item(i)[r + 1] = Ends(i, "item")
      BY <2>7, ItemsTokens
    <3> QED BY <1>1, <2>1, <2>2, <2>3, <2>7, <3>1, EndOfItemStep
  <2> QED BY <2>4, <2>5, <2>6, <2>7
<1> QED BY <1>2, <1>3 DEF Good

-----------------------------------------------------------------------------
(* A chunk is read token by token; there is no first token after which the  *)
(* parser is not where it should be.                                        *)

LEMMA ParsesTheChunk ==
    ASSUME pos \in Nat, NEW n \in 1..Len(Document) - pos, Good(Parser, pos, cut)
    PROVE  Good(parseXml(SubSeq(Document, pos + 1, pos + n)), pos + n, cut)
<1> DEFINE tokens == SubSeq(Document, pos + 1, pos + n)
           X == {Document[p] : p \in 1..Len(Document)}
<1>1. Len(Document) \in Nat /\ Document \in Seq(X)
  BY DocumentIs, FeedAssumption DEF Size
<1> HIDE DEF X
<1>2. Len(tokens) = n /\ \A m \in 1..n : tokens[m] = Document[pos + m]
  BY <1>1
<1>3. tokens \in Seq(X)
  <2>1. \A k \in pos + 1..pos + n : Document[k] \in X
    BY <1>1
  <2> QED BY <2>1, SubSeqProperties
<1> HIDE DEF tokens
<1>4. PICK f : /\ f[0] = Parser
               /\ \A m \in 1..Len(tokens) : f[m] = Token(f[m - 1], tokens[m])
               /\ parseXml(tokens) = f[Len(tokens)]
  BY <1>3, ParsesBySteps
<1>5. \A m \in 1..n : f[m] = Token(f[m - 1], Document[pos + m])
  BY <1>2, <1>4
<1> DEFINE Bad == {m \in 0..n : ~ Good(f[m], pos + m, cut)}
<1>6. Bad = {}
  <2>1. SUFFICES ASSUME Bad # {} PROVE FALSE
    OBVIOUS
  <2>2. Bad \in SUBSET Nat
    OBVIOUS
  <2>3. PICK m \in Bad : \A k \in Bad : m <= k
    BY <2>1, <2>2, Least
  <2>4. m \in 1..n /\ m - 1 \in Nat /\ pos + (m - 1) \in Nat
    <3>1. m # 0
      BY <1>4, <2>3
    <3> QED BY <2>3, <3>1
  <2>5. m - 1 \notin Bad
    BY <2>3, <2>4
  <2>6. Good(f[m - 1], pos + (m - 1), cut)
    BY <2>4, <2>5
  <2>7. pos + (m - 1) < Len(Document) /\ (pos + (m - 1)) + 1 = pos + m
    BY <1>1, <2>4
  <2> HIDE DEF Bad
  <2>8. Good(Token(f[m - 1], Document[(pos + (m - 1)) + 1]), (pos + (m - 1)) + 1, cut)
    BY <2>4, <2>6, <2>7, TokenStep
  <2>9. Good(f[m], pos + m, cut)
    BY <1>5, <2>4, <2>7, <2>8
  <2> QED BY <2>3, <2>9 DEF Bad
<1>7. n \in 0..n
  OBVIOUS
<1>8. Good(f[n], pos + n, cut)
  BY <1>6, <1>7
<1> QED BY <1>2, <1>4, <1>8 DEF tokens

-----------------------------------------------------------------------------
(* The inductive invariant.                                                 *)

\* An item inside which the last chunk ended is known to be incomplete.
CutsAreKnown ==
    \A i \in 1..Items + 1, r \in 1..9 : pos = Place(i, r) => i \in cut

FeedInv ==
    /\ pos \in 0..Len(Document)
    /\ Good(Parser, pos, cut)
    /\ CutsAreKnown
    /\ done /\ ~early => reply # "pending" /\ (reply = "ok" => pos = Len(Document))
    /\ returned => done

LEMMA FeedInit == Init => FeedInv
<1> SUFFICES ASSUME Init PROVE FeedInv
  OBVIOUS
<1>1. pos = 0
  BY DEF Init
<1>2. Parser = [metItem |-> FALSE, tag |-> "", title |-> {}, link |-> {},
                titles |-> <<>>, links |-> <<>>]
  BY Zenon DEF Init, Parser
<1>3. <<>> \in Seq(SUBSET AnyText) /\ {} \in SUBSET AnyText
  OBVIOUS
<1>4. done = FALSE /\ returned = FALSE
  BY DEF Init
<1>5. Len(Document) \in Nat
  BY DocumentIs, FeedAssumption DEF Size
<1>6. Parser \in ParserState
  BY <1>2, <1>3 DEF ParserState, Tag
<1>7. InChannel(Parser)
  BY <1>2 DEF InChannel
<1>8. Good(Parser, pos, cut)
  BY <1>6, <1>7, <1>1 DEF Good
<1>9. CutsAreKnown
  BY <1>1, FeedAssumption DEF CutsAreKnown, Place, Size
<1> QED BY <1>1, <1>4, <1>5, <1>8, <1>9 DEF FeedInv

\* More items known to be incomplete: less to ask of the parser.
LEMMA GoodWithMoreCuts ==
    ASSUME NEW s \in ParserState, NEW p \in Nat, NEW c, NEW d, c \subseteq d, Good(s, p, c)
    PROVE  Good(s, p, d)
<1>1. CASE p \in 0..3 /\ InChannel(s)
  BY <1>1 DEF Good
<1>2. CASE \E i \in 1..Items + 1, r \in 0..9 : p = Place(i, r) /\ InItem(s, i, r, c)
  <2>1. PICK i \in 1..Items + 1, r \in 0..9 : p = Place(i, r) /\ InItem(s, i, r, c)
    BY <1>2
  <2>2. Listed(s.titles, "title", d) /\ Listed(s.links, "description", d)
    BY <2>1 DEF InItem, Listed
  <2>3. InItem(s, i, r, d)
    BY <2>1, <2>2 DEF InItem
  <2> QED BY <2>1, <2>3 DEF Good
<1> QED BY <1>1, <1>2 DEF Good

\* The strings of the parser are kept from one chunk to the next, but not
\* whether it is in an item.
LEMMA BetweenChunks ==
    ASSUME NEW s \in ParserState, NEW t \in ParserState, NEW p \in Nat, NEW c, Good(s, p, c),
           t.tag = s.tag, t.title = s.title, t.link = s.link,
           t.titles = s.titles, t.links = s.links, t.metItem = FALSE,
           \A i \in 1..Items + 1, r \in 1..9 : p = Place(i, r) => i \in c
    PROVE  Good(t, p, c)
<1>1. CASE p \in 0..3 /\ InChannel(s)
  BY <1>1 DEF Good, InChannel
<1>2. CASE \E i \in 1..Items + 1, r \in 0..9 : p = Place(i, r) /\ InItem(s, i, r, c)
  <2>1. PICK i \in 1..Items + 1, r \in 0..9 : p = Place(i, r) /\ InItem(s, i, r, c)
    BY <1>2
  <2>2. InItem(t, i, r, c)
    BY <2>1 DEF InItem
  <2> QED BY <2>1, <2>2 DEF Good
<1> QED BY <1>1, <1>2 DEF Good

\* The last token of a chunk tells whether it ended inside an item.
LEMMA LastToken ==
    ASSUME NEW i \in 1..Items, NEW r \in 1..9
    PROVE  LET last == Document[Place(i, r)]
           IN  last.item = i /\ ~ (last.type = "end" /\ last.name = "item")
<1> DEFINE last == Item(i)[r]
<1>1. Place(i, r - 1) + 1 = Place(i, r) /\ r - 1 \in 0..9 /\ (r - 1) + 1 = r
  BY FeedAssumption DEF Place, Size
<1>2. Document[Place(i, r)] = last
  BY <1>1, DocumentIs
<1>3. last.item = i /\ ~ (last.type = "end" /\ last.name = "item")
  <2>1. CASE r \in {1, 2, 6}
    <3>1. PICK tag \in Tag : last = Starts(i, tag)
      BY <2>1, ItemsTokens DEF Tag
    <3> QED BY <3>1 DEF Starts
  <2>2. CASE r \in {3, 4, 7, 8}
    <3>1. PICK tag \in Tag, part \in Part : last = Says(i, tag, part)
      BY <2>2, ItemsTokens DEF Tag, Part
    <3> QED BY <3>1 DEF Says
  <2>3. CASE r \in {5, 9}
    <3>1. PICK tag \in {"title", "description"} : last = Ends(i, tag)
      BY <2>3, ItemsTokens
    <3> QED BY <3>1 DEF Ends
  <2> QED BY <2>1, <2>2, <2>3
<1> QED BY <1>2, <1>3

LEMMA ReadyReadKeeps ==
    ASSUME FeedInv, NEW n \in 1..Len(Document) - pos, ReadyRead(n)
    PROVE  FeedInv'
<1> DEFINE s == parseXml(SubSeq(Document, pos + 1, pos + n))
           last == Document[pos + n]
<1>1. Len(Document) \in Nat /\ pos \in Nat /\ pos + n \in 1..Len(Document)
  BY DocumentIs, FeedAssumption DEF Size, FeedInv
<1>2. Good(s, pos + n, cut)
  BY <1>1, ParsesTheChunk DEF FeedInv
<1> HIDE DEF s
<1>3. /\ reply = "ok" /\ pos' = pos + n /\ currentTag' = s.tag /\ titleString' = s.title
      /\ linkString' = s.link /\ titles' = s.titles /\ links' = s.links
      /\ reply' = reply /\ done' = done /\ returned' = returned /\ early' = early
  BY DEF ReadyRead, s
<1>4. cut' = IF last.item = 0 \/ (last.type = "end" /\ last.name = "item")
             THEN cut ELSE cut \cup {last.item}
  BY DEF ReadyRead
<1>5. CutsAreKnown'
  <2> SUFFICES ASSUME NEW i \in 1..Items + 1, NEW r \in 1..9, pos + n = Place(i, r)
               PROVE  i \in cut'
    BY <1>3 DEF CutsAreKnown
  <2>1. i \in 1..Items
    <3>1. Size * i - 6 + r <= 4 + Size * Items
      BY <1>1, DocumentIs DEF Place
    <3> QED BY <3>1, FeedAssumption DEF Size
  <2>2. last.item = i /\ ~ (last.type = "end" /\ last.name = "item")
    BY <2>1, LastToken
  <2> HIDE DEF last
  <2>3. cut' = cut \cup {i}
    BY <1>4, <2>1, <2>2
  <2> QED BY <2>3
<1>6. cut \subseteq cut'
  BY <1>4
<1>7. s \in ParserState
  BY <1>2 DEF Good
<1>8. Good(s, pos', cut')
  BY <1>1, <1>2, <1>3, <1>6, <1>7, GoodWithMoreCuts
<1>9. Parser' = [metItem |-> FALSE, tag |-> s.tag, title |-> s.title, link |-> s.link,
                 titles |-> s.titles, links |-> s.links]
  BY <1>3 DEF Parser
<1>10. Parser' \in ParserState
  BY <1>7, <1>9 DEF ParserState
<1>11. /\ Parser'.tag = s.tag /\ Parser'.title = s.title /\ Parser'.link = s.link
       /\ Parser'.titles = s.titles /\ Parser'.links = s.links
  BY <1>9
<1>12. Parser'.metItem = FALSE
  BY <1>9
<1>13. pos' \in 0..Len(Document) /\ pos' \in Nat
  BY <1>1, <1>3
<1>14. Good(Parser', pos', cut')
  BY <1>5, <1>7, <1>8, <1>10, <1>11, <1>12, <1>13, BetweenChunks DEF CutsAreKnown
<1>15. done' /\ ~early' => reply' # "pending" /\ (reply' = "ok" => pos' = Len(Document))
  BY <1>1, <1>3 DEF FeedInv
<1>16. returned' => done'
  BY <1>3 DEF FeedInv
<1> QED BY <1>5, <1>13, <1>14, <1>15, <1>16 DEF FeedInv

LEMMA FeedStep == FeedInv /\ [Next]_vars => FeedInv'
<1> SUFFICES ASSUME FeedInv, [Next]_vars PROVE FeedInv'
  OBVIOUS
<1>1. ASSUME UNCHANGED <<parserVars, cut>>,
             done' /\ ~early' => reply' # "pending" /\ (reply' = "ok" => pos' = Len(Document)),
             returned' => done'
      PROVE  FeedInv'
  <2>1. pos' = pos /\ Parser' = Parser /\ cut' = cut
    BY <1>1 DEF parserVars, Parser
  <2>2. Good(Parser, pos, cut)' /\ CutsAreKnown'
    BY <2>1 DEF FeedInv, CutsAreKnown
  <2> QED BY <1>1, <2>1, <2>2 DEF FeedInv
<1>2. CASE Redirect
  BY <1>1, <1>2 DEF Redirect, ghostVars, FeedInv
<1>3. ASSUME NEW status \in {"ok", "bad"}, HeadersArrive(status) PROVE FeedInv'
  BY <1>1, <1>3 DEF HeadersArrive, ghostVars, FeedInv
<1>4. ASSUME NEW n \in 1..Len(Document) - pos, ReadyRead(n) PROVE FeedInv'
  BY <1>4, ReadyReadKeeps
<1>5. CASE Error
  BY <1>1, <1>5 DEF Error, ghostVars, FeedInv
<1>6. CASE Finished
  BY <1>1, <1>6 DEF Finished, ghostVars, parserVars, FeedInv
<1>7. CASE OldFinished
  BY <1>1, <1>7 DEF OldFinished, ghostVars, FeedInv
<1>8. CASE OldDeleted
  BY <1>1, <1>8 DEF OldDeleted, ghostVars, parserVars, FeedInv
<1>9. CASE LoopReturns
  BY <1>1, <1>9 DEF LoopReturns, ghostVars, parserVars, FeedInv
<1>10. CASE UNCHANGED vars
  BY <1>1, <1>10 DEF vars, ghostVars, parserVars, FeedInv
<1> QED BY <1>2, <1>3, <1>4, <1>5, <1>6, <1>7, <1>8, <1>9, <1>10 DEF Next, Network

THEOREM FeedIsRead == Spec => []FeedInv
<1> QED BY FeedInit, FeedStep, PTL DEF Spec

\* However the network cuts the feed into chunks, what is listed are its
\* items in their order, and whole but for those inside which a chunk ended.
THEOREM Listing == Spec => []ItemsAreTheFeeds
<1>1. FeedInv => ItemsAreTheFeeds
  <2> SUFFICES ASSUME FeedInv PROVE ItemsAreTheFeeds
    OBVIOUS
  <2>1. Parser.titles = titles /\ Parser.links = links
    BY DEF Parser
  <2>2. CASE InChannel(Parser)
    <3>1. Len(titles) = 0
      BY <2>1, <2>2 DEF InChannel
    <3> QED BY <3>1 DEF ItemsAreTheFeeds
  <2>3. CASE \E i \in 1..Items + 1, r \in 0..9 : InItem(Parser, i, r, cut)
    <3>1. /\ Len(titles) = Len(links)
          /\ Listed(titles, "title", cut) /\ Listed(links, "description", cut)
      BY <2>1, <2>3 DEF InItem
    <3> QED BY <3>1 DEF Listed, ItemsAreTheFeeds
  <2> QED BY <2>2, <2>3 DEF FeedInv, Good
<1> QED BY <1>1, FeedIsRead, PTL

\* A refresh that goes on after a good reply that no redirect replaced has
\* every item of the feed.
THEOREM WholeFeed == Spec => []ReturnsWithTheFeed
<1>1. FeedInv => ReturnsWithTheFeed
  <2> SUFFICES ASSUME FeedInv, returned, ~early, reply = "ok"
               PROVE  Len(titles) = Items /\ Len(links) = Items
    BY DEF ReturnsWithTheFeed
  <2>1. Parser.titles = titles /\ Parser.links = links
    BY DEF Parser
  <2>2. pos = 4 + Size * Items
    BY DocumentIs DEF FeedInv
  <2>3. PICK i \in 1..Items + 1, r \in 0..9 : pos = Place(i, r) /\ InItem(Parser, i, r, cut)
    BY <2>2, FeedAssumption DEF FeedInv, Good, Size
  <2>4. i = Items + 1
    BY <2>2, <2>3, FeedAssumption DEF Place, Size
  <2>5. (Items + 1) - 1 = Items
    BY FeedAssumption
  <2> QED BY <2>1, <2>3, <2>4, <2>5 DEF InItem
<1> QED BY <1>1, FeedIsRead, PTL

=============================================================================
