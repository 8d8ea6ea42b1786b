----------------------------- MODULE MCTorrents -----------------------------
(***************************************************************************)
(* Torrents on small instances: basic rules b1 and b2 for a torrent each,  *)
(* another rule of b1's name, and an advanced rule v1.                     *)
(***************************************************************************)
EXTENDS Torrents

CONSTANTS f1, f2, b1, b2, same, v1

MCKind == [r \in Rule |-> IF r = v1 THEN "advanced" ELSE "basic"]
MCName == [r \in Rule |-> IF r = same THEN b1 ELSE r]
MCMatches == [r \in Rule |-> (IF r = b1 THEN {f1} ELSE {f2}) \cap File]

\* A feed may fail, have torrents in any order, without a link, or twice.
MCFeeds == {<<>>, <<f1, f2>>, <<f2, f1>>, <<Unusable, f1>>}
MCFewFeeds == {<<f1, f1, f2>>}

NoDir == [exists |-> FALSE, rules |-> {}]
Json(S) == [text |-> "object", rules |-> S]
NoJson == [text |-> "empty", rules |-> {}]

\* A user with rules, and one who comes from an older version.
UserRules == {[dir |-> NoDir, json |-> Json(S)] : S \in {S \in SUBSET Rule : Distinct(S)}}
Upgrades == {[dir |-> [exists |-> TRUE, rules |-> S], json |-> NoJson] : S \in SUBSET Rule}
\* Perhaps the older version was used once more.
Relapses == {[dir |-> [exists |-> TRUE, rules |-> S], json |-> Json(T)] :
                S \in SUBSET Rule, T \in {{b1}, {same, b2}}}
UpgradesAndRelapses == Upgrades \cup Relapses

=============================================================================
