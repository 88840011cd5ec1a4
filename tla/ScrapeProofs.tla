----------------------------- MODULE ScrapeProofs -----------------------------
(***************************************************************************)
(* Proofs about Scrape: whatever the sources publish and however their      *)
(* zones score against one another, the loops of match_zones lose no        *)
(* reading and use none twice.                                              *)
(***************************************************************************)
EXTENDS Scrape, TLAPS, FiniteSetTheorems, WellFoundedInduction

-----------------------------------------------------------------------------
Origins == {"bgtoll", "tolltracker", "kml"}

LaterStages == {"drop", "number", "snap", "align", "validate", "done"}

(* At most one reading of a source. *)
AtMostOne(source) == {{}} \cup {{i} : i \in DOMAIN scraped[source]}

Match == [bgtoll : AtMostOne("bgtoll"), tolltracker : AtMostOne("tolltracker"),
          kml : AtMostOne("kml")]

MatchesOK ==
  /\ DOMAIN scraped = Origins
  /\ matches \in Seq(Match)
  /\ turn \in Nat \ {0}

(* What is noted as used is what the matches hold. *)
UsedOK == used = [source \in Origins |->
                    UNION {matches[m][source] : m \in DOMAIN matches}]

UsedOnce ==
  \A source \in Origins : \A m, n \in DOMAIN matches :
    matches[m][source] \cap matches[n][source] # {} => m = n

(* The map is searched in the order of the matches. *)
KmlInTurn == \A m \in DOMAIN matches : m >= turn => matches[m].kml = {}

NotYet == stage \in Origins => matches = <<>> /\ turn = 1

AllUsed == stage \in LaterStages => \A source \in Origins : Unused(source) = {}

MInv == /\ MatchesOK /\ UsedOK /\ UsedOnce /\ KmlInTurn /\ NotYet /\ AllUsed

-----------------------------------------------------------------------------
(* A choice is nothing or one of the candidates that are still free. *)
LEMMA BestIsFree ==
  ASSUME NEW zone, NEW candidates, NEW taken,
         NEW best \in Best(zone, candidates, taken)
  PROVE  best = {} \/ \E i \in DOMAIN candidates \ taken : best = {i}
  BY Zenon DEF Best, BestAmong

(* A match of readings that are free can be added to the others. *)
LEMMA AppendKeeps ==
  ASSUME MInv, stage = "match", UNCHANGED <<stage, scraped>>,
         NEW match \in Match,
         \A source \in Origins : match[source] \cap used[source] = {},
         matches' = Append(matches, match),
         used' = [source \in Origins |-> used[source] \cup match[source]],
         \/ match.kml = {} /\ turn' = turn
         \/ turn \notin DOMAIN matches /\ turn' = turn + 1
  PROVE  MInv'
<1> USE DEF MInv
<1>1. /\ matches' \in Seq(Match) /\ Len(matches') = Len(matches) + 1
      /\ DOMAIN matches = 1..Len(matches) /\ Len(matches) \in Nat
      /\ DOMAIN matches' = 1..(Len(matches) + 1)
      /\ \A m \in DOMAIN matches : matches'[m] = matches[m]
      /\ matches'[Len(matches) + 1] = match
  BY DEF MatchesOK
<1>last. PICK last : /\ last \notin DOMAIN matches /\ matches'[last] = match
                     /\ DOMAIN matches' = DOMAIN matches \cup {last}
  <2>1. DOMAIN matches' = DOMAIN matches \cup {Len(matches) + 1}
    BY <1>1
  <2>2. Len(matches) + 1 \notin DOMAIN matches
    BY <1>1
  <2> QED
    BY <1>1, <2>1, <2>2, Zenon
<1>same. \A m \in DOMAIN matches : matches'[m] = matches[m]
  BY <1>1
<1>2. MatchesOK'
  <2>1. turn' \in Nat \ {0}
    BY DEF MatchesOK
  <2>2. Match' = Match
    BY DEF Match, AtMostOne
  <2> QED
    BY <1>1, <2>1, <2>2 DEF MatchesOK
<1>3. UsedOK'
  <2>1. ASSUME NEW source \in Origins
        PROVE  UNION {matches'[m][source] : m \in DOMAIN matches'}
                 = used[source] \cup match[source]
    <3>1. used[source] = UNION {matches[m][source] : m \in DOMAIN matches}
      BY Zenon DEF UsedOK
    <3>3. ASSUME NEW x \in UNION {matches'[m][source] : m \in DOMAIN matches'}
          PROVE  x \in used[source] \cup match[source]
      BY <1>last, <1>same, <3>1
    <3>4. ASSUME NEW x \in used[source] \cup match[source]
          PROVE  x \in UNION {matches'[m][source] : m \in DOMAIN matches'}
      BY <1>last, <1>same, <3>1
    <3> QED
      BY <3>3, <3>4
  <2> QED
    BY <2>1, Zenon DEF UsedOK
<1>4. UsedOnce'
  <2> SUFFICES ASSUME NEW source \in Origins, NEW m \in DOMAIN matches',
                      NEW n \in DOMAIN matches',
                      matches'[m][source] \cap matches'[n][source] # {}
               PROVE  m = n
    BY Zenon DEF UsedOnce
  <2>1. \A k \in DOMAIN matches : matches[k][source] \subseteq used[source]
    BY Zenon DEF UsedOK
  <2>2. CASE m \in DOMAIN matches /\ n \in DOMAIN matches
    BY <1>same, <2>2, Zenon DEF UsedOnce
  <2>3. CASE m \in DOMAIN matches /\ n \notin DOMAIN matches
    BY <1>last, <1>same, <2>1, <2>3
  <2>4. CASE m \notin DOMAIN matches /\ n \in DOMAIN matches
    BY <1>last, <1>same, <2>1, <2>4
  <2>5. CASE m \notin DOMAIN matches /\ n \notin DOMAIN matches
    BY <1>last, <2>5
  <2> QED
    BY <2>2, <2>3, <2>4, <2>5
<1>5. KmlInTurn'
  BY <1>1 DEF KmlInTurn, MatchesOK
<1>6. NotYet' /\ AllUsed'
  BY DEF NotYet, AllUsed, Origins, LaterStages
<1> QED
  BY <1>2, <1>3, <1>4, <1>5, <1>6

LEMMA UnionGrows ==
  ASSUME NEW D, NEW f, NEW g, NEW t \in D, f[t] = {},
         \A m \in D : m # t => g[m] = f[m]
  PROVE  UNION {g[m] : m \in D} = (UNION {f[m] : m \in D}) \cup g[t]
<1>1. ASSUME NEW x \in UNION {g[m] : m \in D}
      PROVE  x \in (UNION {f[m] : m \in D}) \cup g[t]
  <2>1. PICK m \in D : x \in g[m]
    BY <1>1
  <2> QED
    BY <2>1
<1>2. ASSUME NEW x \in (UNION {f[m] : m \in D}) \cup g[t]
      PROVE  x \in UNION {g[m] : m \in D}
  <2>1. CASE x \in g[t]
    BY <2>1
  <2>2. CASE x \in UNION {f[m] : m \in D}
    <3>1. PICK m \in D : x \in f[m]
      BY <2>2
    <3> QED
      BY <3>1
  <2> QED
    BY <2>1, <2>2
<1> QED
  BY <1>1, <1>2

(* A choice for the match whose turn it is takes the place of none. *)
LEMMA KmlKeeps ==
  ASSUME MInv, stage = "match", UNCHANGED <<stage, scraped>>,
         turn \in DOMAIN matches, turn' = turn + 1,
         NEW best \in AtMostOne("kml"), best \cap used.kml = {},
         matches' = [matches EXCEPT ![turn].kml = best],
         used' = [used EXCEPT !.kml = @ \cup best]
  PROVE  MInv'
<1> USE DEF MInv
<1>0. [matches[turn] EXCEPT !.kml = best] \in Match
  <2>1. matches[turn] \in Match
    BY DEF MatchesOK
  <2> QED
    BY <2>1 DEF Match
<1>1. /\ matches' \in Seq(Match) /\ Len(matches') = Len(matches)
      /\ DOMAIN matches = 1..Len(matches) /\ Len(matches) \in Nat
      /\ DOMAIN matches' = DOMAIN matches
      /\ \A m \in DOMAIN matches : m # turn => matches'[m] = matches[m]
  BY <1>0 DEF MatchesOK
<1>2. /\ \A source \in Origins \ {"kml"} : \A m \in DOMAIN matches :
           matches'[m][source] = matches[m][source]
      /\ matches'[turn].kml = best /\ matches[turn].kml = {}
  <2>1. matches[turn] \in Match /\ matches[turn].kml = {}
    BY DEF MatchesOK, KmlInTurn
  <2>2. matches'[turn] = [matches[turn] EXCEPT !.kml = best]
    BY DEF MatchesOK
  <2>3. /\ \A source \in Origins \ {"kml"} :
             matches'[turn][source] = matches[turn][source]
        /\ matches'[turn].kml = best
    BY <2>1, <2>2 DEF Match, Origins
  <2> QED
    BY <1>1, <2>1, <2>3, Zenon
<1>3. MatchesOK'
  <2>1. turn' \in Nat \ {0}
    BY DEF MatchesOK
  <2>2. Match' = Match
    BY DEF Match, AtMostOne
  <2> QED
    BY <1>1, <2>1, <2>2 DEF MatchesOK
<1>4. UsedOK'
  <2>1. ASSUME NEW source \in Origins
        PROVE  UNION {matches'[m][source] : m \in DOMAIN matches'}
                 = used'[source]
    <3>1. used[source] = UNION {matches[m][source] : m \in DOMAIN matches}
      BY Zenon DEF UsedOK
    <3>2. CASE source # "kml"
      <4>1. used'[source] = used[source]
        BY <3>2 DEF UsedOK
      <4> QED
        <5>1. {matches'[m][source] : m \in DOMAIN matches'}
                = {matches[m][source] : m \in DOMAIN matches}
          BY <1>1, <1>2, <3>2
        <5> QED
          BY <3>1, <4>1, <5>1, Zenon
    <3>3. CASE source = "kml"
      <4>1. used'[source] = used[source] \cup best
        BY <3>3 DEF UsedOK, Origins
      <4> DEFINE f == [m \in DOMAIN matches |-> matches[m][source]]
                 g == [m \in DOMAIN matches |-> matches'[m][source]]
      <4>2. f[turn] = {} /\ g[turn] = best
        BY <1>2, <3>3
      <4>3. \A m \in DOMAIN matches : m # turn => g[m] = f[m]
        BY <1>1
      <4>4. /\ {f[m] : m \in DOMAIN matches}
                 = {matches[m][source] : m \in DOMAIN matches}
            /\ {g[m] : m \in DOMAIN matches}
                 = {matches'[m][source] : m \in DOMAIN matches}
        OBVIOUS
      <4> HIDE DEF f, g
      <4>5. UNION {g[m] : m \in DOMAIN matches}
              = (UNION {f[m] : m \in DOMAIN matches}) \cup g[turn]
        BY <4>2, <4>3, UnionGrows
      <4> QED
        BY <1>1, <3>1, <4>1, <4>2, <4>4, <4>5, Zenon
    <3> QED
      BY <3>2, <3>3
  <2>2. used' = [source \in Origins |-> used'[source]]
    BY DEF UsedOK
  <2> QED
    BY <2>1, <2>2, Zenon DEF UsedOK
<1>5. UsedOnce'
  <2> SUFFICES ASSUME NEW source \in Origins, NEW m \in DOMAIN matches',
                      NEW n \in DOMAIN matches',
                      matches'[m][source] \cap matches'[n][source] # {}
               PROVE  m = n
    BY Zenon DEF UsedOnce
  <2>1. \A k \in DOMAIN matches : matches[k][source] \subseteq used[source]
    BY Zenon DEF UsedOK
  <2>2. CASE source # "kml" \/ (m # turn /\ n # turn)
    BY <1>1, <1>2, <2>2, Zenon DEF UsedOnce
  <2>3. CASE source = "kml" /\ (m = turn \/ n = turn)
    BY <1>1, <1>2, <2>1, <2>3
  <2> QED
    BY <2>2, <2>3
<1>6. KmlInTurn'
  BY <1>1 DEF KmlInTurn, MatchesOK
<1>7. NotYet' /\ AllUsed'
  BY DEF NotYet, AllUsed, Origins, LaterStages
<1> QED
  BY <1>3, <1>4, <1>5, <1>6, <1>7

-----------------------------------------------------------------------------
LEMMA InitMInv == Init => MInv
<1> SUFFICES ASSUME Init PROVE MInv
  OBVIOUS
<1> USE DEF Init
<1>1. MatchesOK /\ UsedOnce /\ KmlInTurn /\ NotYet /\ AllUsed
  BY DEF MatchesOK, UsedOnce, KmlInTurn, NotYet, AllUsed, Origins, LaterStages
<1>2. UsedOK
  <2>1. used = [source \in Origins |-> {}]
    <3>1. DOMAIN NoMatch = Origins /\ \A source \in Origins : NoMatch[source] = {}
      BY DEF NoMatch, Origins
    <3>2. NoMatch = [source \in DOMAIN NoMatch |-> NoMatch[source]]
      BY DEF NoMatch
    <3> QED
      BY <3>1, <3>2
  <2>2. DOMAIN matches = {}
    OBVIOUS
  <2>3. \A source \in Origins :
          UNION {matches[m][source] : m \in DOMAIN matches} = {}
    BY <2>2
  <2> QED
    BY <2>1, <2>3, Zenon DEF UsedOK
<1> QED
  BY <1>1, <1>2 DEF MInv

LEMMA ReadMInv ==
  ASSUME MInv, NEW source \in Origins, NEW result, NEW next,
         Read(source, result, next), next \in Origins \cup {"match"}
  PROVE  MInv'
<1> USE DEF MInv
<1>1. /\ matches = <<>> /\ turn = 1 /\ DOMAIN scraped' = DOMAIN scraped
      /\ UNCHANGED <<matches, used, turn>>
  BY DEF Read, NotYet
<1>2. MatchesOK' /\ UsedOnce' /\ KmlInTurn' /\ NotYet'
  BY <1>1 DEF MatchesOK, UsedOnce, KmlInTurn, NotYet
<1>3. UsedOK'
  BY <1>1, Zenon DEF UsedOK
<1>4. AllUsed'
  BY DEF AllUsed, Read, Origins, LaterStages
<1> QED
  BY <1>2, <1>3, <1>4

LEMMA AddMInv ==
  ASSUME MInv, stage = "match", UNCHANGED <<stage, scraped>>,
         NEW source \in Origins, AddUnmatched(source),
         \/ source # "kml" /\ turn' = turn
         \/ turn \notin DOMAIN matches /\ turn' = turn + 1
  PROVE  MInv'
<1>1. PICK i \in Unused(source) :
        /\ matches' = Append(matches, [NoMatch EXCEPT ![source] = {i}])
        /\ used' = [used EXCEPT ![source] = @ \cup {i}]
  BY Zenon DEF AddUnmatched
<1> DEFINE match == [NoMatch EXCEPT ![source] = {i}]
<1>2. /\ match \in Match
      /\ \A s \in Origins : match[s] = IF s = source THEN {i} ELSE {}
  <2>1. {i} \in AtMostOne(source) /\ \A s \in Origins : {} \in AtMostOne(s)
    BY <1>1 DEF AtMostOne, Unused
  <2>2. \A s \in Origins : match[s] = IF s = source THEN {i} ELSE {}
    BY DEF NoMatch, Origins
  <2>3. match = [bgtoll |-> match["bgtoll"], tolltracker |-> match["tolltracker"],
                 kml |-> match["kml"]]
    BY DEF NoMatch, Origins
  <2>4. \A s \in Origins : match[s] \in AtMostOne(s)
    BY <2>1, <2>2
  <2> HIDE DEF match
  <2> QED
    BY <2>2, <2>3, <2>4 DEF Match, Origins
<1>3. \A s \in Origins : match[s] \cap used[s] = {}
  BY <1>1, <1>2 DEF Unused
<1>4. used' = [s \in Origins |-> used[s] \cup match[s]]
  <2>1. used = [s \in Origins |-> used[s]]
    BY DEF MInv, UsedOK
  <2> HIDE DEF match
  <2> QED
    BY <1>1, <1>2, <2>1
<1>5. \/ match.kml = {} /\ turn' = turn
      \/ turn \notin DOMAIN matches /\ turn' = turn + 1
  BY <1>2 DEF Origins
<1> HIDE DEF match
<1> QED
  BY <1>1, <1>2, <1>3, <1>4, <1>5, AppendKeeps DEF match

LEMMA MatchBgTollMInv ==
  ASSUME MInv, MatchBgToll
  PROVE  MInv'
<1>0. PICK i \in Unused("bgtoll") :
        \E best \in Best(scraped.bgtoll[i], scraped.tolltracker, used.tolltracker) :
          /\ matches' = Append(matches, [bgtoll |-> {i}, tolltracker |-> best,
                                         kml |-> {}])
          /\ used' = [used EXCEPT !.bgtoll = @ \cup {i},
                                  !.tolltracker = @ \cup best]
  BY Zenon DEF MatchBgToll
<1>1. PICK best \in Best(scraped.bgtoll[i], scraped.tolltracker, used.tolltracker) :
        /\ matches' = Append(matches, [bgtoll |-> {i}, tolltracker |-> best,
                                       kml |-> {}])
        /\ used' = [used EXCEPT !.bgtoll = @ \cup {i},
                                !.tolltracker = @ \cup best]
  BY <1>0, Zenon
<1>2. stage = "match" /\ UNCHANGED <<stage, scraped>> /\ turn' = turn
  BY DEF MatchBgToll, Matching
<1> DEFINE match == [bgtoll |-> {i}, tolltracker |-> best, kml |-> {}]
<1>3. best = {} \/ \E k \in Unused("tolltracker") : best = {k}
  <2>1. \/ best = {}
        \/ \E k \in DOMAIN scraped.tolltracker \ used.tolltracker : best = {k}
    BY BestIsFree
  <2> QED
    BY <2>1 DEF Unused
<1>4. match \in Match
  <2>1. {i} \in AtMostOne("bgtoll")
    BY DEF AtMostOne, Unused
  <2>2. best \in AtMostOne("tolltracker")
    BY <1>3 DEF AtMostOne, Unused
  <2>3. {} \in AtMostOne("kml")
    BY DEF AtMostOne
  <2> QED
    BY <2>1, <2>2, <2>3 DEF Match
<1>5. \A s \in Origins : match[s] \cap used[s] = {}
  <2>1. {i} \cap used["bgtoll"] = {}
    BY DEF Unused
  <2>2. best \cap used["tolltracker"] = {}
    BY <1>3 DEF Unused
  <2> QED
    BY <2>1, <2>2 DEF Origins
<1>6. used' = [s \in Origins |-> used[s] \cup match[s]]
  <2>1. used = [s \in Origins |-> used[s]]
    BY DEF MInv, UsedOK
  <2>2. used' = [s \in Origins |-> used'[s]]
    BY <1>1, <2>1
  <2>3. \A s \in Origins : used'[s] = used[s] \cup match[s]
    <3>1. used'["bgtoll"] = used["bgtoll"] \cup {i}
      BY <1>1, <2>1 DEF Origins
    <3>2. used'["tolltracker"] = used["tolltracker"] \cup best
      BY <1>1, <2>1 DEF Origins
    <3>3. used'["kml"] = used["kml"] \cup {}
      BY <1>1, <2>1 DEF Origins
    <3> QED
      BY <3>1, <3>2, <3>3 DEF Origins
  <2> HIDE DEF match
  <2> QED
    BY <2>2, <2>3
<1>7. match.kml = {}
  OBVIOUS
<1>8. matches' = Append(matches, match)
  BY <1>1
<1> HIDE DEF match
<1> QED
  BY <1>2, <1>4, <1>5, <1>6, <1>7, <1>8, AppendKeeps

LEMMA MatchKmlMInv ==
  ASSUME MInv, MatchKml
  PROVE  MInv'
<1> DEFINE source == IF matches[turn].tolltracker # {} THEN "tolltracker"
                     ELSE "bgtoll"
<1>1. PICK best \in Best(ReadingsOf(matches[turn])[source], scraped.kml,
                      used.kml) :
        /\ matches' = [matches EXCEPT ![turn].kml = best]
        /\ used' = [used EXCEPT !.kml = @ \cup best]
  BY Zenon DEF MatchKml
<1>2. /\ stage = "match" /\ UNCHANGED <<stage, scraped>>
      /\ turn \in DOMAIN matches /\ turn' = turn + 1
  BY DEF MatchKml, Matching
<1>3. best = {} \/ \E k \in Unused("kml") : best = {k}
  <2>1. best = {} \/ \E k \in DOMAIN scraped.kml \ used.kml : best = {k}
    BY BestIsFree
  <2> QED
    BY <2>1 DEF Unused
<1>4. best \in AtMostOne("kml") /\ best \cap used.kml = {}
  BY <1>3 DEF AtMostOne, Unused
<1> QED
  BY <1>1, <1>2, <1>4, KmlKeeps

(* What comes after the matching changes neither matches nor readings. *)
LEMMA LaterMInv ==
  ASSUME MInv, UNCHANGED <<scraped, matches, used, turn>>,
         \/ stage = "match" /\ Matched /\ stage' = "drop"
         \/ stage \in LaterStages /\ stage' \in LaterStages
         \/ stage' = "failed"
         \/ stage' = stage
  PROVE  MInv'
<1> USE DEF MInv
<1>1. MatchesOK'
  BY DEF MatchesOK, Match, AtMostOne
<1>2. UsedOK' /\ UsedOnce' /\ KmlInTurn'
  BY Zenon DEF UsedOK, UsedOnce, KmlInTurn
<1>3. NotYet'
  BY DEF NotYet, Origins, LaterStages
<1>4. AllUsed'
  <2>1. \A source : Unused(source)' = Unused(source)
    BY DEF Unused
  <2>2. CASE stage = "match" /\ Matched
    BY <2>1, <2>2 DEF AllUsed, Matched, MatchesOK
  <2>3. CASE stage \in LaterStages \/ stage' = "failed" \/ stage' = stage
    BY <2>1, <2>3 DEF AllUsed, LaterStages
  <2> QED
    BY <2>2, <2>3
<1> QED
  BY <1>1, <1>2, <1>3, <1>4

LEMMA NextMInv == MInv /\ [Next]_vars => MInv'
<1> SUFFICES ASSUME MInv, [Next]_vars PROVE MInv'
  OBVIOUS
<1>1. CASE ScrapeBgToll
  BY <1>1, ReadMInv DEF ScrapeBgToll, Origins
<1>2. CASE ScrapeTollTracker
  <2>1. \E result : Read("tolltracker", result, "kml")
    BY <1>2, Zenon DEF ScrapeTollTracker
  <2> QED
    BY <2>1, ReadMInv DEF Origins
<1>3. CASE ScrapeKml
  <2>1. \E result : Read("kml", result, "match")
    BY <1>3, Zenon DEF ScrapeKml
  <2> QED
    BY <2>1, ReadMInv DEF Origins
<1>4. CASE SourceFailure
  BY <1>4, LaterMInv DEF SourceFailure
<1>5. CASE MatchBgToll
  BY <1>5, MatchBgTollMInv
<1>6. CASE AddTollTracker
  BY <1>6, AddMInv DEF AddTollTracker, Matching, Origins
<1>7. CASE MatchKml
  BY <1>7, MatchKmlMInv
<1>8. CASE AddKml
  BY <1>8, AddMInv DEF AddKml, Matching, Origins
<1>9. CASE Merge
  BY <1>9, LaterMInv DEF Merge, Rework
<1>10. CASE Drop \/ Number \/ Snapped \/ Align
  BY <1>10, LaterMInv DEF Drop, Number, Snapped, Align, Rework, LaterStages
<1>snap. CASE SnapNext
  BY <1>snap, LaterMInv DEF SnapNext
<1>11. CASE Check
  BY <1>11, LaterMInv DEF Check, LaterStages
<1>12. CASE UNCHANGED vars
  BY <1>12, LaterMInv DEF vars
<1> QED
  BY <1>1, <1>2, <1>3, <1>4, <1>5, <1>6, <1>7, <1>8, <1>9, <1>10, <1>snap,
     <1>11, <1>12
     DEF Next

(* Whatever the sources publish and however their zones compare, match_zones
   puts every reading of every source into exactly one match.              *)
THEOREM EveryReadingOnceHolds == Spec => []EveryReadingOnce
<1>1. MInv => EveryReadingOnce
  <2> SUFFICES ASSUME MInv, stage \in LaterStages, NEW source \in Origins,
                      NEW i \in DOMAIN scraped[source]
               PROVE  \E m \in DOMAIN matches :
                        /\ matches[m][source] = {i}
                        /\ \A n \in DOMAIN matches :
                             i \in matches[n][source] => n = m
    BY Zenon DEF EveryReadingOnce, LaterStages, MInv, MatchesOK
  <2>1. i \in UNION {matches[m][source] : m \in DOMAIN matches}
    <3>1. i \in used[source]
      BY DEF MInv, AllUsed, Unused
    <3> QED
      BY <3>1, Zenon DEF MInv, UsedOK
  <2>2. PICK m \in DOMAIN matches : i \in matches[m][source]
    BY <2>1
  <2>3. matches[m][source] = {i}
    <3>1. matches[m] \in Match
      BY DEF MInv, MatchesOK
    <3>2. matches[m][source] \in AtMostOne(source)
      BY <3>1 DEF Match, Origins
    <3> QED
      BY <2>2, <3>2 DEF AtMostOne
  <2>4. ASSUME NEW n \in DOMAIN matches, i \in matches[n][source]
        PROVE  n = m
    BY <2>2, <2>4 DEF MInv, UsedOnce
  <2> QED
    BY <2>3, <2>4
<1> QED
  BY <1>1, InitMInv, NextMInv, PTL DEF Spec

-----------------------------------------------------------------------------
(* Every scraper makes records with a road and limits of what it reads. *)
IsReading(zone) == {"road", "limits"} \subseteq DOMAIN zone

ReadingsOK ==
  \A source \in Origins : \A i \in DOMAIN scraped[source] :
    IsReading(scraped[source][i])

(* What "sources within one match can never disagree" means in merge_match:
   they are of one road and direction.                                     *)
OneGroup ==
  \A m \in DOMAIN matches : \A s, t \in Origins :
    \A i \in matches[m][s], k \in matches[m][t] :
      GroupKey(scraped[s][i]) = GroupKey(scraped[t][k])

Merged == stage = "drop" => zones = MergedZones

LInv == MInv /\ ReadingsOK /\ OneGroup /\ Merged

LEMMA BgTollReadings ==
  ASSUME NEW rows, NEW i \in DOMAIN BgTollZones(rows)
  PROVE  IsReading(BgTollZones(rows)[i])
  BY DEF BgTollZones, BgTollZone, IsReading

LEMMA TollTrackerReadings ==
  ASSUME NEW features, NEW lookup, NEW i \in DOMAIN TollTrackerZones(features, lookup)
  PROVE  IsReading(TollTrackerZones(features, lookup)[i])
  BY DEF TollTrackerZones, TollTrackerZone, IsReading

LEMMA KmlReadings ==
  ASSUME NEW segments, NEW cameras, NEW i \in DOMAIN KmlZones(segments, cameras)
  PROVE  IsReading(KmlZones(segments, cameras)[i])
<1>1. \A segment, from, to, line : IsReading(KmlZone(segment, from, to, line))
  BY DEF KmlZone, IsReading
<1>2. \A segment : /\ IsReading(KmlPair(segment, cameras)[1])
                   /\ IsReading(KmlPair(segment, cameras)[2])
  BY <1>1 DEF KmlPair, IsReading
<1> QED
  BY <1>2 DEF KmlZones

LEMMA SmallMin == \A S \in SUBSET (1..3) : S # {} => Min(S) \in S
<1> SUFFICES ASSUME NEW S \in SUBSET (1..3), S # {} PROVE Min(S) \in S
  OBVIOUS
<1>1. \E x \in S : \A y \in S : x <= y
  <2>1. CASE 1 \in S
    BY <2>1
  <2>2. CASE 1 \notin S /\ 2 \in S
    BY <2>2
  <2>3. CASE 1 \notin S /\ 2 \notin S
    <3>1. \A y \in S : y = 3
      BY <2>3
    <3>2. 3 \in S
      BY <3>1
    <3> QED
      BY <3>1, <3>2
  <2> QED
    BY <2>1, <2>2, <2>3
<1> QED
  BY <1>1, Zenon DEF Min

(* _pick_limit: the limit is one that a source states, if any does, and a
   possible one if any states such a limit.                                *)
LEMMA PickLimitIsOffered ==
  ASSUME NEW road, NEW vehicle \in Vehicles, NEW read,
         DOMAIN read \subseteq Origins
  PROVE  LET picked == PickLimit(road, vehicle, read)
             offered == {read[s].limits[vehicle] : s \in DOMAIN read} \ {None}
             possible == {v \in offered : LimitIsPlausible(road, vehicle, v)}
         IN /\ picked \in offered \cup {None}
            /\ possible # {} => picked \in possible
<1> DEFINE limit(i) == read[LimitOrder[i]].limits[vehicle]
           here == {i \in 1..3 : LimitOrder[i] \in DOMAIN read}
           offers == {i \in here : limit(i) # None}
           plausible == {i \in here : limit(i) # None
                                       /\ LimitIsPlausible(road, vehicle, limit(i))}
           picked == PickLimit(road, vehicle, read)
           offered == {read[s].limits[vehicle] : s \in DOMAIN read} \ {None}
<1>1. /\ DOMAIN LimitOrder = 1..3
      /\ \A s \in Origins : \E i \in 1..3 : LimitOrder[i] = s
  BY DEF LimitOrder, Origins
<1>2. Blank.limits[vehicle] = None
  BY DEF Blank
<1>3. picked = IF plausible # {} THEN limit(Min(plausible))
               ELSE IF offers # {} THEN limit(Min(offers)) ELSE None
  <2> DEFINE Plausible(zone) == zone.limits[vehicle] # None
                 /\ LimitIsPlausible(road, vehicle, zone.limits[vehicle])
             Offers(zone) == zone.limits[vehicle] # None
  <2>1. /\ plausible = {i \in DOMAIN LimitOrder : LimitOrder[i] \in DOMAIN read
                                             /\ Plausible(read[LimitOrder[i]])}
        /\ offers = {i \in DOMAIN LimitOrder : LimitOrder[i] \in DOMAIN read
                                             /\ Offers(read[LimitOrder[i]])}
    BY <1>1
  <2>2. plausible # {} => Min(plausible) \in plausible
    BY SmallMin
  <2> HIDE DEF plausible, offers
  <2>3. FirstWith(read, LimitOrder, Plausible).limits[vehicle]
          = IF plausible # {} THEN limit(Min(plausible)) ELSE None
    BY <1>2, <2>1 DEF FirstWith
  <2>4. FirstWith(read, LimitOrder, Offers).limits[vehicle]
          = IF offers # {} THEN limit(Min(offers)) ELSE None
    BY <1>2, <2>1 DEF FirstWith
  <2>5. plausible # {} => limit(Min(plausible)) # None
    BY <2>2 DEF plausible
  <2> QED
    BY <2>3, <2>4, <2>5 DEF PickLimit
<1>4. /\ plausible # {} => Min(plausible) \in plausible
      /\ offers # {} => Min(offers) \in offers
  BY SmallMin
<1>5. \A i \in offers : limit(i) \in offered
  OBVIOUS
<1>6. \A v \in offered : LimitIsPlausible(road, vehicle, v) => plausible # {}
  <2> SUFFICES ASSUME NEW v \in offered, LimitIsPlausible(road, vehicle, v)
               PROVE  plausible # {}
    OBVIOUS
  <2>1. PICK s \in DOMAIN read : v = read[s].limits[vehicle] /\ v # None
    OBVIOUS
  <2>2. PICK i \in 1..3 : LimitOrder[i] = s
    BY <1>1
  <2>3. i \in plausible
    BY <2>1, <2>2
  <2> QED
    BY <2>3
<1>7. plausible \subseteq offers
  OBVIOUS
<1>8. \A i \in plausible : LimitIsPlausible(road, vehicle, limit(i))
  OBVIOUS
<1> HIDE DEF limit, plausible, offers, picked, offered
<1>9. picked \in offered \cup {None}
  BY <1>3, <1>4, <1>5, <1>7
<1>10. ASSUME {v \in offered : LimitIsPlausible(road, vehicle, v)} # {}
       PROVE  picked \in {v \in offered : LimitIsPlausible(road, vehicle, v)}
  BY <1>3, <1>4, <1>5, <1>6, <1>7, <1>8, <1>10
<1> QED
  BY <1>9, <1>10 DEF picked, offered

LEMMA FlipKeeps ==
  ASSUME NEW zone, IsReading(zone)
  PROVE  FlipZone(zone).road = zone.road /\ FlipZone(zone).limits = zone.limits
  BY DEF FlipZone, IsReading

LEMMA OrientKeeps ==
  ASSUME NEW read, \A s \in DOMAIN read : IsReading(read[s])
  PROVE  /\ DOMAIN Oriented(read) = DOMAIN read
         /\ \A s \in DOMAIN read : /\ Oriented(read)[s].road = read[s].road
                                   /\ Oriented(read)[s].limits = read[s].limits
  BY FlipKeeps DEF Oriented, OrientTo

LEMMA FirstRoad ==
  ASSUME NEW read, DOMAIN read \subseteq Origins,
         \A s, t \in DOMAIN read : read[s].road = read[t].road,
         NEW order, DOMAIN order = 1..3,
         \A s \in Origins : \E i \in 1..3 : order[i] = s
  PROVE  /\ DOMAIN read = {} => FirstOf(read, order) = Blank
         /\ \A s \in DOMAIN read : FirstOf(read, order).road = read[s].road
<1> DEFINE having == {i \in DOMAIN order : order[i] \in DOMAIN read /\ TRUE}
<1>1. FirstOf(read, order) = IF having = {} THEN Blank ELSE read[order[Min(having)]]
  BY DEF FirstOf, FirstWith
<1>2. having # {} => Min(having) \in having
  BY SmallMin
<1>3. \A s \in DOMAIN read : having # {}
  OBVIOUS
<1> QED
  BY <1>1, <1>2, <1>3

(* What merge_match publishes as a limit, some reading of the match states. *)
LEMMA MergedLimits ==
  ASSUME NEW read, DOMAIN read \subseteq Origins,
         \A s \in DOMAIN read : IsReading(read[s]),
         \A s, t \in DOMAIN read : read[s].road = read[t].road,
         NEW vehicle \in Vehicles
  PROVE  LET zone == MergeMatch(read)
             offered == {read[s].limits[vehicle] : s \in DOMAIN read} \ {None}
             possible == {v \in offered : LimitIsPlausible(zone.road, vehicle, v)}
         IN /\ zone.limits[vehicle] \in offered \cup {None}
            /\ possible # {} => zone.limits[vehicle] \in possible
<1> DEFINE turned == Oriented(read)
           byRoad == FirstOf(turned, <<"kml", "bgtoll", "tolltracker">>).road
           byLimit == FirstOf(turned, <<"bgtoll", "tolltracker", "kml">>).road
<1>1. /\ DOMAIN turned = DOMAIN read
      /\ \A s \in DOMAIN read : /\ turned[s].road = read[s].road
                                /\ turned[s].limits = read[s].limits
  BY OrientKeeps
<1>2. byRoad = byLimit
  <2> DEFINE first == <<"kml", "bgtoll", "tolltracker">>
             second == <<"bgtoll", "tolltracker", "kml">>
  <2>1. /\ DOMAIN first = 1..3 /\ DOMAIN second = 1..3
        /\ \A s \in Origins : \E i \in 1..3 : first[i] = s
        /\ \A s \in Origins : \E i \in 1..3 : second[i] = s
    BY DEF Origins
  <2>2. \A s, t \in DOMAIN turned : turned[s].road = turned[t].road
    BY <1>1
  <2> HIDE DEF first, second, turned
  <2>3. /\ DOMAIN turned = {} => FirstOf(turned, first) = Blank
        /\ \A s \in DOMAIN turned : FirstOf(turned, first).road = turned[s].road
    BY <1>1, <2>1, <2>2, FirstRoad
  <2>4. /\ DOMAIN turned = {} => FirstOf(turned, second) = Blank
        /\ \A s \in DOMAIN turned : FirstOf(turned, second).road = turned[s].road
    BY <1>1, <2>1, <2>2, FirstRoad
  <2>5. FirstOf(turned, first).road = FirstOf(turned, second).road
    BY <2>3, <2>4
  <2> QED
    BY <2>5 DEF first, second
<1>3. MergeMatch(read).road = byRoad
  BY DEF MergeMatch
<1>4. MergeMatch(read).limits[vehicle] = PickLimit(byLimit, vehicle, turned)
  BY DEF MergeMatch
<1>5. {turned[s].limits[vehicle] : s \in DOMAIN turned}
        = {read[s].limits[vehicle] : s \in DOMAIN read}
  BY <1>1
<1> DEFINE offered == {read[s].limits[vehicle] : s \in DOMAIN read} \ {None}
           picked == PickLimit(byRoad, vehicle, turned)
<1> HIDE DEF turned, byRoad, byLimit
<1>6. LET given == {turned[s].limits[vehicle] : s \in DOMAIN turned} \ {None}
          possible == {v \in given : LimitIsPlausible(byRoad, vehicle, v)}
      IN /\ picked \in given \cup {None}
         /\ possible # {} => picked \in possible
  BY <1>1, PickLimitIsOffered
<1> QED
  BY <1>2, <1>3, <1>4, <1>5, <1>6

-----------------------------------------------------------------------------
LEMMA BestIsOfGroup ==
  ASSUME NEW zone, NEW candidates, NEW taken,
         NEW best \in Best(zone, candidates, taken), NEW k \in best
  PROVE  GroupKey(candidates[k]) = GroupKey(zone)
  BY Zenon DEF Best, BestAmong

LEMMA AppendOneGroup ==
  ASSUME MInv, OneGroup, UNCHANGED scraped,
         NEW match \in Match, matches' = Append(matches, match),
         \A s, t \in Origins : \A i \in match[s], k \in match[t] :
           GroupKey(scraped[s][i]) = GroupKey(scraped[t][k])
  PROVE  OneGroup'
<1>1. /\ DOMAIN matches' = DOMAIN matches \cup {Len(matches) + 1}
      /\ \A m \in DOMAIN matches : matches'[m] = matches[m]
      /\ matches'[Len(matches) + 1] = match
  BY DEF MInv, MatchesOK
<1> DEFINE last == Len(matches) + 1
<1> SUFFICES ASSUME NEW m \in DOMAIN matches', NEW s \in Origins,
                    NEW t \in Origins, NEW i \in matches'[m][s],
                    NEW k \in matches'[m][t]
             PROVE  GroupKey(scraped[s][i]) = GroupKey(scraped[t][k])
  BY DEF OneGroup
<1> HIDE DEF last
<1>2. CASE m \in DOMAIN matches
  BY <1>1, <1>2 DEF OneGroup
<1>3. CASE m = last
  BY <1>1, <1>3 DEF last
<1> QED
  BY <1>1, <1>2, <1>3 DEF last

LEMMA AddOneGroup ==
  ASSUME MInv, OneGroup, UNCHANGED scraped,
         NEW source \in Origins, AddUnmatched(source)
  PROVE  OneGroup'
<1>1. PICK i \in Unused(source) :
        matches' = Append(matches, [NoMatch EXCEPT ![source] = {i}])
  BY Zenon DEF AddUnmatched
<1> DEFINE match == [NoMatch EXCEPT ![source] = {i}]
<1>2. \A s \in Origins : match[s] = IF s = source THEN {i} ELSE {}
  BY DEF NoMatch, Origins
<1>3. match \in Match
  <2>1. {i} \in AtMostOne(source) /\ \A s \in Origins : {} \in AtMostOne(s)
    BY <1>1 DEF AtMostOne, Unused
  <2>2. match = [bgtoll |-> match["bgtoll"], tolltracker |-> match["tolltracker"],
                 kml |-> match["kml"]]
    BY DEF NoMatch, Origins
  <2>3. \A s \in Origins : match[s] \in AtMostOne(s)
    BY <1>2, <2>1
  <2> HIDE DEF match
  <2> QED
    BY <2>2, <2>3 DEF Match, Origins
<1>4. \A s, t \in Origins : \A j \in match[s], k \in match[t] :
        GroupKey(scraped[s][j]) = GroupKey(scraped[t][k])
  BY <1>2
<1> HIDE DEF match
<1> QED
  BY <1>1, <1>3, <1>4, AppendOneGroup DEF match

LEMMA BgTollOneGroup ==
  ASSUME MInv, OneGroup, MatchBgToll
  PROVE  OneGroup'
<1>0. PICK i \in Unused("bgtoll") :
        \E best \in Best(scraped.bgtoll[i], scraped.tolltracker, used.tolltracker) :
          matches' = Append(matches, [bgtoll |-> {i}, tolltracker |-> best,
                                      kml |-> {}])
  BY Zenon DEF MatchBgToll
<1>1. PICK best \in Best(scraped.bgtoll[i], scraped.tolltracker, used.tolltracker) :
        matches' = Append(matches, [bgtoll |-> {i}, tolltracker |-> best,
                                    kml |-> {}])
  BY <1>0, Zenon
<1> DEFINE match == [bgtoll |-> {i}, tolltracker |-> best, kml |-> {}]
<1>2. match \in Match
  <2>1. {i} \in AtMostOne("bgtoll") /\ {} \in AtMostOne("kml")
    BY DEF AtMostOne, Unused
  <2>2. \/ best = {}
        \/ \E k \in DOMAIN scraped.tolltracker \ used.tolltracker : best = {k}
    BY BestIsFree
  <2>3. best \in AtMostOne("tolltracker")
    BY <2>2 DEF AtMostOne
  <2> QED
    BY <2>1, <2>3 DEF Match
<1>3. \A k \in best : GroupKey(scraped.tolltracker[k]) = GroupKey(scraped.bgtoll[i])
  BY BestIsOfGroup
<1>4. \A s \in Origins : \A k \in match[s] :
        GroupKey(scraped[s][k]) = GroupKey(scraped["bgtoll"][i])
  BY <1>3 DEF Origins
<1>5. UNCHANGED scraped
  BY DEF MatchBgToll, Matching
<1> HIDE DEF match
<1> QED
  BY <1>1, <1>2, <1>4, <1>5, AppendOneGroup DEF match

LEMMA KmlOneGroup ==
  ASSUME MInv, OneGroup, MatchKml
  PROVE  OneGroup'
<1> DEFINE source == IF matches[turn].tolltracker # {} THEN "tolltracker"
                     ELSE "bgtoll"
           match == matches[turn]
<1>1. PICK best \in Best(ReadingsOf(match)[source], scraped.kml, used.kml) :
        matches' = [matches EXCEPT ![turn].kml = best]
  BY Zenon DEF MatchKml
<1>2. UNCHANGED scraped /\ turn \in DOMAIN matches
  BY DEF MatchKml, Matching
<1>3. match \in Match /\ DOMAIN scraped = Origins
  BY <1>2 DEF MInv, MatchesOK
<1>4. /\ DOMAIN matches' = DOMAIN matches
      /\ \A m \in DOMAIN matches : m # turn => matches'[m] = matches[m]
      /\ matches'[turn] = [match EXCEPT !.kml = best]
  BY <1>1, <1>2 DEF MInv, MatchesOK
<1>5. /\ \A s \in Origins \ {"kml"} : matches'[turn][s] = match[s]
      /\ matches'[turn]["kml"] = best
  BY <1>3, <1>4 DEF Match, Origins
<1>6. ASSUME NEW s \in Origins \ {"kml"}, NEW i \in match[s], NEW k \in best
      PROVE  GroupKey(scraped["kml"][k]) = GroupKey(scraped[s][i])
  <2>1. source \in Origins /\ match[source] # {}
    BY <1>6 DEF Origins
  <2>2. PICK j \in match[source] : ReadingsOf(match)[source] = scraped[source][j]
    BY <1>3, <2>1 DEF ReadingsOf
  <2>3. GroupKey(scraped["kml"][k]) = GroupKey(scraped[source][j])
    BY <2>2, BestIsOfGroup
  <2>4. GroupKey(scraped[s][i]) = GroupKey(scraped[source][j])
    BY <1>2, <2>1, <2>2 DEF OneGroup
  <2> QED
    BY <2>3, <2>4
<1>7. ASSUME NEW i \in best, NEW k \in best
      PROVE  GroupKey(scraped["kml"][i]) = GroupKey(scraped["kml"][k])
  BY <1>7, BestIsOfGroup
<1> HIDE DEF match, source
<1> SUFFICES ASSUME NEW m \in DOMAIN matches', NEW s \in Origins,
                    NEW t \in Origins, NEW i \in matches'[m][s],
                    NEW k \in matches'[m][t]
             PROVE  GroupKey(scraped[s][i]) = GroupKey(scraped[t][k])
  BY <1>2 DEF OneGroup
<1>8. CASE m # turn
  BY <1>4, <1>8 DEF OneGroup
<1>9. CASE m = turn
  <2>1. CASE s # "kml" /\ t # "kml"
    BY <1>2, <1>5, <1>9, <2>1 DEF OneGroup, match
  <2>2. CASE s = "kml" /\ t # "kml"
    BY <1>5, <1>6, <1>9, <2>2
  <2>3. CASE s # "kml" /\ t = "kml"
    BY <1>5, <1>6, <1>9, <2>3
  <2>4. CASE s = "kml" /\ t = "kml"
    BY <1>5, <1>7, <1>9, <2>4
  <2> QED
    BY <2>1, <2>2, <2>3, <2>4
<1> QED
  BY <1>8, <1>9

LEMMA InitLInv == Init => LInv
<1> SUFFICES ASSUME Init PROVE LInv
  OBVIOUS
<1>1. MInv
  BY InitMInv
<1>2. ReadingsOK
  <2>1. \A source \in Origins : DOMAIN scraped[source] = {}
    BY DEF Init, Origins
  <2> QED
    BY <2>1 DEF ReadingsOK
<1>3. OneGroup /\ Merged
  BY DEF Init, OneGroup, Merged
<1> QED
  BY <1>1, <1>2, <1>3 DEF LInv

LEMMA ReadLInv ==
  ASSUME LInv, NEW source \in Origins, NEW result, NEW next,
         Read(source, result, next), next \in Origins \cup {"match"},
         \A i \in DOMAIN result : IsReading(result[i])
  PROVE  LInv'
<1>1. MInv'
  BY ReadMInv DEF LInv
<1>2. ReadingsOK'
  <2>1. /\ scraped'[source] = result
        /\ \A s \in Origins : s # source => scraped'[s] = scraped[s]
    BY DEF Read, LInv, MInv, MatchesOK
  <2> QED
    BY <2>1 DEF LInv, ReadingsOK
<1>3. OneGroup'
  <2>1. DOMAIN matches = {} /\ UNCHANGED matches
    BY DEF LInv, MInv, NotYet, Read
  <2> QED
    BY <2>1 DEF OneGroup
<1>4. Merged'
  BY DEF Merged, Read, Origins
<1> QED
  BY <1>1, <1>2, <1>3, <1>4 DEF LInv

LEMMA NextLInv == LInv /\ [Next]_vars => LInv'
<1> SUFFICES ASSUME LInv, [Next]_vars PROVE LInv'
  OBVIOUS
<1> USE DEF LInv
<1>1. MInv'
  BY NextMInv
<1>2. CASE ScrapeBgToll
  BY <1>2, BgTollReadings, ReadLInv DEF ScrapeBgToll, Origins
<1>3. CASE ScrapeTollTracker
  <2>1. PICK features :
          Read("tolltracker", TollTrackerZones(features, RoadLookup(scraped.bgtoll)),
               "kml")
    BY <1>3, Zenon DEF ScrapeTollTracker
  <2> QED
    BY <2>1, TollTrackerReadings, ReadLInv DEF Origins
<1>4. CASE ScrapeKml
  <2>1. PICK segments, cameras : Read("kml", KmlZones(segments, cameras), "match")
    BY <1>4, Zenon DEF ScrapeKml
  <2> QED
    BY <2>1, KmlReadings, ReadLInv DEF Origins
<1>5. CASE Matching /\ (MatchBgToll \/ AddTollTracker \/ MatchKml \/ AddKml)
  <2>1. ReadingsOK' /\ Merged'
    BY <1>5 DEF Matching, ReadingsOK, Merged
  <2>2. UNCHANGED scraped
    BY <1>5 DEF Matching
  <2>3. CASE MatchBgToll
    BY <1>1, <2>1, <2>3, BgTollOneGroup
  <2>4. CASE AddTollTracker
    BY <1>1, <2>1, <2>2, <2>4, AddOneGroup DEF AddTollTracker, Origins
  <2>5. CASE MatchKml
    BY <1>1, <2>1, <2>5, KmlOneGroup
  <2>6. CASE AddKml
    BY <1>1, <2>1, <2>2, <2>6, AddOneGroup DEF AddKml, Origins
  <2> QED
    BY <1>5, <2>3, <2>4, <2>5, <2>6
<1>6. CASE UNCHANGED <<scraped, matches>>
           /\ (stage' # "drop" \/ Merge \/ UNCHANGED vars)
  <2>1. ReadingsOK' /\ OneGroup'
    BY <1>6 DEF ReadingsOK, OneGroup
  <2>2. Merged'
    <3>1. MergedZones' = MergedZones
      <4>1. \A match : ReadingsOf(match)' = ReadingsOf(match)
        BY <1>6 DEF ReadingsOf
      <4> QED
        BY <1>6, <4>1 DEF MergedZones
    <3>2. CASE stage' # "drop"
      BY <3>2 DEF Merged
    <3>3. CASE Merge
      BY <1>6, <3>1, <3>3 DEF Merge, Rework, Merged
    <3>4. CASE UNCHANGED vars
      BY <3>1, <3>4 DEF vars, Merged
    <3> QED
      BY <1>6, <3>2, <3>3, <3>4
  <2> QED
    BY <1>1, <2>1, <2>2
<1>7. CASE SourceFailure \/ Check
  BY <1>6, <1>7 DEF SourceFailure, Check
<1>8. CASE Drop \/ Number \/ Snapped \/ Align
  BY <1>6, <1>8 DEF Drop, Number, Snapped, Align, Rework
<1>snap. CASE SnapNext
  BY <1>6, <1>snap DEF SnapNext
<1>9. CASE Merge
  BY <1>6, <1>9 DEF Merge, Rework
<1>10. CASE UNCHANGED vars
  BY <1>6, <1>10 DEF vars
<1>11. MatchBgToll \/ AddTollTracker \/ MatchKml \/ AddKml => Matching
  BY DEF MatchBgToll, AddTollTracker, MatchKml, AddKml
<1> QED
  BY <1>2, <1>3, <1>4, <1>5, <1>7, <1>8, <1>snap, <1>9, <1>10, <1>11 DEF Next

(* Whatever the sources publish, a limit the merge puts on a zone is one that
   some source stated of this zone, and a possible one if any was.        *)
THEOREM LimitsArePlausibleHolds == Spec => []LimitsArePlausible
<1>1. LInv => LimitsArePlausible
  <2> SUFFICES ASSUME LInv, stage = "drop"
               PROVE  LimitsArePlausible
    BY DEF LimitsArePlausible
  <2>1. zones = [i \in DOMAIN matches |-> MergeMatch(ReadingsOf(matches[i]))]
    BY DEF LInv, Merged, MergedZones
  <2>2. ASSUME NEW i \in DOMAIN matches
        PROVE  LET read == ReadingsOf(matches[i])
               IN /\ DOMAIN read \subseteq Origins
                  /\ \A s \in DOMAIN read : IsReading(read[s])
                  /\ \A s, t \in DOMAIN read : read[s].road = read[t].road
    <3> DEFINE read == ReadingsOf(matches[i])
    <3>1. matches[i] \in Match /\ DOMAIN scraped = Origins
      BY DEF LInv, MInv, MatchesOK
    <3>2. \A s \in Origins : matches[i][s] \subseteq DOMAIN scraped[s]
      BY <3>1 DEF Match, AtMostOne, Origins
    <3>3. \A s \in DOMAIN read :
            s \in Origins /\ \E k \in matches[i][s] : read[s] = scraped[s][k]
      BY <3>1 DEF ReadingsOf
    <3> HIDE DEF read
    <3>4. \A s \in DOMAIN read : IsReading(read[s])
      BY <3>2, <3>3 DEF LInv, ReadingsOK
    <3>5. \A s, t \in DOMAIN read : GroupKey(read[s]) = GroupKey(read[t])
      <4> SUFFICES ASSUME NEW s \in DOMAIN read, NEW t \in DOMAIN read
                   PROVE  GroupKey(read[s]) = GroupKey(read[t])
        OBVIOUS
      <4>1. PICK j \in matches[i][s] : s \in Origins /\ read[s] = scraped[s][j]
        BY <3>3
      <4>2. PICK k \in matches[i][t] : t \in Origins /\ read[t] = scraped[t][k]
        BY <3>3
      <4>3. GroupKey(scraped[s][j]) = GroupKey(scraped[t][k])
        BY <2>2, <4>1, <4>2 DEF LInv, OneGroup
      <4> QED
        BY <4>1, <4>2, <4>3
    <3>6. \A s, t \in DOMAIN read : read[s].road = read[t].road
      BY <3>5 DEF GroupKey
    <3> QED
      BY <3>3, <3>4, <3>6 DEF read
  <2>3. ASSUME NEW i \in DOMAIN zones, NEW vehicle \in Vehicles
        PROVE  LET read == ReadingsOf(matches[i])
                   offered == {read[s].limits[vehicle] : s \in DOMAIN read} \ {None}
                   possible == {v \in offered :
                                  LimitIsPlausible(zones[i].road, vehicle, v)}
               IN /\ zones[i].limits[vehicle] \in offered \cup {None}
                  /\ possible # {} => zones[i].limits[vehicle] \in possible
    <3>1. i \in DOMAIN matches /\ zones[i] = MergeMatch(ReadingsOf(matches[i]))
      BY <2>1
    <3> QED
      BY <2>2, <3>1, MergedLimits
  <2> QED
    BY <2>3, Zenon DEF LimitsArePlausible
<1> QED
  BY <1>1, InitLInv, NextLInv, PTL DEF Spec

-----------------------------------------------------------------------------
(* Numbering *)

Below == OpToRel(<, Nat)

LEMMA LeastOfNaturals ==
  ASSUME NEW S \in SUBSET Nat, S # {}
  PROVE  Min(S) \in S /\ \A y \in S : Min(S) <= y
<1>1. PICK x \in S : \A y \in S : <<y, x>> \notin Below
  <2>1. IsWellFoundedOn(Below, Nat)
    BY NatLessThanWellFounded, Zenon DEF Below
  <2> QED
    BY <2>1, WFMin, Zenon
<1>2. \A y \in S : ~(y < x)
  BY <1>1, Zenon DEF Below, OpToRel
<1>3. \A y \in S : x <= y
  BY <1>2
<1> QED
  BY <1>3, Zenon DEF Min

LEMMA FewerMembers ==
  ASSUME NEW n \in Nat, NEW S \in SUBSET (1..n), NEW T \in SUBSET S,
         Cardinality(S) = Cardinality(T)
  PROVE  S = T
<1>1. IsFiniteSet(1..n)
  BY FS_Interval
<1>2. IsFiniteSet(S)
  BY <1>1, FS_Subset
<1> QED
  BY <1>2, FS_Subset

(* The zones of one road and direction whose base is the same are told apart
   by how many stand before them.                                          *)
LEMMA KeysDiffer ==
  ASSUME NEW n \in Nat, NEW list, DOMAIN list = 1..n,
         NEW i \in 1..n, NEW k \in 1..n, i < k,
         list[i].direction = list[k].direction
  PROVE  SectionKey(list, i) # SectionKey(list, k)
<1> SUFFICES ASSUME BaseKey(list[i]) = BaseKey(list[k]),
                    Occurrences(list, i) = Occurrences(list, k)
             PROVE  FALSE
  BY DEF SectionKey
<1> DEFINE before(j) == {m \in 1..(j - 1) :
             /\ list[m].direction = list[j].direction
             /\ BaseKey(list[m]) = BaseKey(list[j])}
<1>1. before(i) \in SUBSET before(k) /\ before(k) \in SUBSET (1..n)
  OBVIOUS
<1>2. Cardinality(before(k)) = Cardinality(before(i))
  BY DEF Occurrences
<1>3. i \in before(k) /\ i \notin before(i)
  OBVIOUS
<1> HIDE DEF before
<1>4. before(k) = before(i)
  BY <1>1, <1>2, FewerMembers
<1> QED
  BY <1>3, <1>4

(* assign_ids: two zones of a road never get the same id, so validate() has
   no duplicate to leave out, whatever their markers and names are.        *)
THEOREM NumbersAreUnique ==
  ASSUME NEW n \in Nat, NEW list, DOMAIN list = 1..n,
         \A i \in 1..n : "id" \in DOMAIN list[i]
  PROVE  \A i \in 1..n : ~DuplicateId(AssignRoadIds(list), i)
<1> DEFINE key(i) == SectionKey(list, i)
           same(i) == {k \in 1..n : key(k) = key(i)}
           first(i) == Min(same(i))
           heads(i) == {first(k) : k \in 1..first(i)}
           number(i) == Cardinality(heads(i))
           numbered == AssignRoadIds(list)
<1>1. \A i \in 1..n : /\ first(i) \in 1..n /\ first(i) <= i
                      /\ key(first(i)) = key(i)
                      /\ first(first(i)) = first(i)
  <2> SUFFICES ASSUME NEW i \in 1..n
               PROVE  /\ first(i) \in 1..n /\ first(i) <= i
                      /\ key(first(i)) = key(i)
                      /\ first(first(i)) = first(i)
    OBVIOUS
  <2>1. i \in same(i) /\ same(i) \in SUBSET Nat
    OBVIOUS
  <2> HIDE DEF key
  <2>2. first(i) \in same(i) /\ first(i) <= i
    BY <2>1, LeastOfNaturals
  <2>3. same(first(i)) = same(i)
    BY <2>2
  <2> QED
    BY <2>2, <2>3
<1>2. \A i \in 1..n : numbered[i].id = [road |-> list[i].road,
                                        direction |-> list[i].direction,
                                        sequence |-> number(i)]
  <2> DEFINE keys == [i \in DOMAIN list |-> SectionKey(list, i)]
             starts == [i \in DOMAIN list |->
                          Min({k \in DOMAIN list : keys[k] = keys[i]})]
  <2> SUFFICES ASSUME NEW i \in 1..n
               PROVE  numbered[i].id = [road |-> list[i].road,
                                        direction |-> list[i].direction,
                                        sequence |-> number(i)]
    OBVIOUS
  <2>1. \A k \in 1..n : starts[k] = first(k)
    <3>1. \A k \in 1..n : {j \in DOMAIN list : keys[j] = keys[k]} = same(k)
      OBVIOUS
    <3> QED
      BY <3>1
  <2>2. starts[i] = first(i) /\ \A k \in 1..first(i) : k \in 1..n
    <3>1. starts[i] = first(i)
      BY <2>1
    <3>2. first(i) \in 1..n
      BY <1>1
    <3> HIDE DEF starts, first
    <3> QED
      BY <3>1, <3>2
  <2>3. {starts[k] : k \in 1..starts[i]} = heads(i)
    <3> HIDE DEF starts, first
    <3> QED
      BY <2>1, <2>2
  <2>4. numbered[i] = [list[i] EXCEPT !.id =
                         [road |-> list[i].road,
                          direction |-> list[i].direction,
                          sequence |-> Cardinality({starts[k] : k \in 1..starts[i]})]]
    BY DEF AssignRoadIds
  <2> QED
    BY <2>3, <2>4
<1>3. \A i \in 1..n : heads(i) \in SUBSET (1..n)
  <2> HIDE DEF key, first
  <2> SUFFICES ASSUME NEW i \in 1..n, NEW k \in 1..first(i)
               PROVE  first(k) \in 1..n
    OBVIOUS
  <2> QED
    BY <1>1
<1> HIDE DEF key, first
<1>4. ASSUME NEW i \in 1..n, NEW k \in 1..n, first(i) < first(k)
      PROVE  number(i) # number(k)
  <2>1. heads(i) \in SUBSET heads(k)
    BY <1>1, <1>4
  <2>2. first(k) \in heads(k)
    BY <1>1
  <2>3. first(k) \notin heads(i)
    BY <1>1, <1>4
  <2> HIDE DEF heads
  <2>4. ASSUME number(i) = number(k) PROVE FALSE
    <3>1. heads(k) = heads(i)
      BY <1>3, <2>1, <2>4, FewerMembers
    <3> QED
      BY <2>2, <2>3, <3>1
  <2> QED
    BY <2>4
<1>5. ASSUME NEW i \in 1..n, NEW k \in 1..n, i < k,
             list[i].direction = list[k].direction
      PROVE  number(i) # number(k)
  <2>1. key(i) # key(k)
    BY <1>5, KeysDiffer DEF key
  <2>2. first(i) # first(k)
    BY <1>1, <2>1
  <2>3. first(i) < first(k) \/ first(k) < first(i)
    BY <1>1, <2>2
  <2> HIDE DEF number
  <2> QED
    BY <1>4, <2>3
<1> HIDE DEF number, numbered
<1>6. SUFFICES ASSUME NEW i \in 1..n, NEW k \in 1..(i - 1),
                      numbered[k].id = numbered[i].id
               PROVE  FALSE
  BY DEF DuplicateId, numbered
<1>7. list[k].direction = list[i].direction /\ number(k) = number(i)
  <2>1. i \in 1..n /\ k \in 1..n
    OBVIOUS
  <2>2. /\ numbered[i].id = [road |-> list[i].road, direction |-> list[i].direction,
                              sequence |-> number(i)]
        /\ numbered[k].id = [road |-> list[k].road, direction |-> list[k].direction,
                              sequence |-> number(k)]
    BY <1>2, <2>1, Zenon
  <2>3. [road |-> list[i].road, direction |-> list[i].direction,
         sequence |-> number(i)]
          = [road |-> list[k].road, direction |-> list[k].direction,
             sequence |-> number(k)]
    BY <1>6, <2>2, Zenon
  <2> QED
    BY <2>3
<1> QED
  BY <1>5, <1>7

-----------------------------------------------------------------------------
(* Alignment *)

LEMMA DistanceToItself ==
  /\ \A x \in Int : HaversineM(x, x) = 0
  /\ \A x, y \in Int : HaversineM(x, y) \in Nat
  BY DEF HaversineM, Abs

(* An aligned line runs from the start to the end. *)
LEMMA AlignedEnds ==
  ASSUME NEW line \in Seq(Int), Len(line) >= 2, NEW start \in Int, NEW end \in Int
  PROVE  LET aligned == AlignedLine(line, start, end)
         IN /\ aligned \in Seq(Int) /\ Len(aligned) >= 2
            /\ Head(aligned) = start /\ Last(aligned) = end
<1> DEFINE travelled == Travelled(line, start)
           begun == Begun(travelled, start)
           aligned == Ended(begun, end)
<1>1. travelled \in Seq(Int) /\ Len(travelled) >= 2
  BY DEF Travelled, Reverse
<1> HIDE DEF travelled
<1>2. begun \in Seq(Int) /\ Len(begun) >= 2 /\ begun[1] = start
  BY <1>1 DEF Begun
<1> HIDE DEF begun
<1>3. /\ aligned \in Seq(Int) /\ Len(aligned) >= 2
      /\ aligned[1] = start /\ aligned[Len(aligned)] = end
  <2>1. /\ Front(begun) \in Seq(Int) /\ Len(Front(begun)) >= 1
        /\ Front(begun)[1] = start
    BY <1>2 DEF Front
  <2> QED
    BY <1>2, <2>1 DEF Ended
<1> HIDE DEF aligned
<1>4. Head(aligned) = start /\ Last(aligned) = end
  BY <1>3 DEF Last
<1> QED
  BY <1>3, <1>4 DEF aligned, begun, travelled, AlignedLine

LEMMA AlignedIsFixed ==
  ASSUME NEW line \in Seq(Int), Len(line) >= 2, NEW start \in Int, NEW end \in Int,
         Head(line) = start, Last(line) = end
  PROVE  AlignedLine(line, start, end) = line
<1>1. SnapEpsM \in Nat
  BY MergeAssumption
<1>2. /\ HaversineM(Head(line), start) = 0
      /\ HaversineM(Last(line), end) = 0
      /\ HaversineM(Last(line), start) \in Nat
  BY DistanceToItself
<1>3. Travelled(line, start) = line
  BY <1>2 DEF Travelled
<1>4. Begun(line, start) = line
  <2>1. <<start>> \o Tail(line) = line
    OBVIOUS
  <2> QED
    BY <1>1, <1>2, <2>1 DEF Begun
<1>5. Ended(line, end) = line
  <2>1. Append(Front(line), end) = line
    BY DEF Front, Last
  <2> QED
    BY <1>1, <1>2, <2>1 DEF Ended
<1> QED
  BY <1>3, <1>4, <1>5 DEF AlignedLine

(* align_centerline_to_endpoints: the line of an aligned zone runs from its
   start to its end and is as long as its distance says, and --realign, which
   aligns what is already published, changes nothing.                      *)
THEOREM AlignedStaysAligned ==
  ASSUME NEW zone, {"centerline", "distance"} \subseteq DOMAIN zone,
         zone.start.at \in Int, zone.end.at \in Int,
         zone.centerline \in Seq(Int), Len(zone.centerline) >= 2
  PROVE  LET aligned == AlignCenterline(zone)
         IN /\ Head(aligned.centerline) = zone.start.at
            /\ Last(aligned.centerline) = zone.end.at
            /\ aligned.distance = Max({1, PolylineLengthM(aligned.centerline)})
            /\ AlignCenterline(aligned) = aligned
<1> DEFINE line == AlignedLine(zone.centerline, zone.start.at, zone.end.at)
           aligned == AlignCenterline(zone)
<1>1. /\ line \in Seq(Int) /\ Len(line) >= 2
      /\ Head(line) = zone.start.at /\ Last(line) = zone.end.at
  BY AlignedEnds
<1>2. aligned = [zone EXCEPT !.centerline = line,
                             !.distance = Max({1, PolylineLengthM(line)})]
  BY DEF AlignCenterline
<1> HIDE DEF line, aligned
<1>3. /\ aligned.centerline = line
      /\ aligned.distance = Max({1, PolylineLengthM(line)})
      /\ aligned.start = zone.start /\ aligned.end = zone.end
  BY <1>2
<1>4. AlignedLine(aligned.centerline, aligned.start.at, aligned.end.at) = line
  BY <1>1, <1>3, AlignedIsFixed
<1>5. AlignCenterline(aligned)
        = [aligned EXCEPT !.centerline = line,
                          !.distance = Max({1, PolylineLengthM(line)})]
  BY <1>1, <1>3, <1>4 DEF AlignCenterline
<1>6. AlignCenterline(aligned) = aligned
  BY <1>2, <1>3, <1>5
<1> QED
  BY <1>1, <1>3, <1>6 DEF aligned
-----------------------------------------------------------------------------
(* Shared cameras.  Closing a seam moves one end of a zone onto another's and
   leaves alone what the zones are.                                        *)
Alike(z, y) ==
  /\ DOMAIN y = DOMAIN z
  /\ DOMAIN y.start = DOMAIN z.start /\ DOMAIN y.end = DOMAIN z.end
  /\ y.road = z.road /\ y.direction = z.direction /\ y.id = z.id
  /\ y.start.km = z.start.km /\ y.end.km = z.end.km

SameZones(before, list) ==
  /\ DOMAIN list = DOMAIN before
  /\ \A i \in DOMAIN before : Alike(before[i], list[i])

Moved(before, list, snapped, c, d) ==
  \/ /\ snapped[c].end.at = list[d].start.at
     /\ \A i \in DOMAIN before :
          /\ snapped[i].start.at = list[i].start.at
          /\ i # c => snapped[i].end.at = list[i].end.at
  \/ /\ snapped[d].start.at = list[c].end.at
     /\ \A i \in DOMAIN before :
          /\ snapped[i].end.at = list[i].end.at
          /\ i # d => snapped[i].start.at = list[i].start.at

LEMMA SnapMoves ==
  ASSUME NEW before, IsCatalog(before), NEW list, SameZones(before, list),
         NEW c \in DOMAIN before, NEW d \in DOMAIN before
  PROVE  /\ SameZones(before, SnapSeam(list, c, d))
         /\ Moved(before, list, SnapSeam(list, c, d), c, d)
<1> DEFINE toStart == [list EXCEPT ![c].end.at = list[d].start.at]
           toEnd == [list EXCEPT ![d].start.at = list[c].end.at]
<1>0. \A i \in DOMAIN before :
        /\ i \in DOMAIN list /\ Alike(before[i], list[i])
        /\ {"id", "road", "direction", "start", "end"} \subseteq DOMAIN list[i]
        /\ {"at", "km"} \subseteq DOMAIN list[i].start \cap DOMAIN list[i].end
  BY DEF IsCatalog, SameZones, Alike
<1>1. /\ SameZones(before, toStart)
      /\ toStart[c].end.at = list[d].start.at
      /\ \A i \in DOMAIN before :
           /\ toStart[i].start.at = list[i].start.at
           /\ i # c => toStart[i].end.at = list[i].end.at
  <2>1. /\ toStart[c] = [list[c] EXCEPT !.end = [list[c].end EXCEPT !.at = list[d].start.at]]
        /\ \A i \in DOMAIN before \ {c} : toStart[i] = list[i]
        /\ DOMAIN toStart = DOMAIN before
    BY <1>0 DEF SameZones
  <2> HIDE DEF toStart
  <2>2. /\ toStart[c].end.at = list[d].start.at
        /\ toStart[c].start = list[c].start
        /\ Alike(before[c], toStart[c])
    BY <1>0, <2>1 DEF Alike
  <2> QED
    BY <1>0, <2>1, <2>2 DEF SameZones
<1>2. /\ SameZones(before, toEnd)
      /\ toEnd[d].start.at = list[c].end.at
      /\ \A i \in DOMAIN before :
           /\ toEnd[i].end.at = list[i].end.at
           /\ i # d => toEnd[i].start.at = list[i].start.at
  <2>1. /\ toEnd[d] = [list[d] EXCEPT !.start = [list[d].start EXCEPT !.at = list[c].end.at]]
        /\ \A i \in DOMAIN before \ {d} : toEnd[i] = list[i]
        /\ DOMAIN toEnd = DOMAIN before
    BY <1>0 DEF SameZones
  <2> HIDE DEF toEnd
  <2>2. /\ toEnd[d].start.at = list[c].end.at
        /\ toEnd[d].end = list[d].end
        /\ Alike(before[d], toEnd[d])
    BY <1>0, <2>1 DEF Alike
  <2> QED
    BY <1>0, <2>1, <2>2 DEF SameZones
<1> HIDE DEF toStart, toEnd
<1>3. SnapSeam(list, c, d) \in {toStart, toEnd}
  BY DEF SnapSeam, toStart, toEnd
<1> QED
  BY <1>1, <1>2, <1>3 DEF Moved

(* A lone junction: what its camera is taken for is one of the two places it
   had, and every other camera of the road and direction keeps away.       *)
Apart(before, list, a, b) ==
  /\ {list[a].end.at, list[b].start.at} \subseteq Camera(before, a, b)
  /\ \A c \in Group(before, a) :
       /\ c # b => list[c].start.at \in OtherCameras(before, a, b)
       /\ c # a => list[c].end.at \in OtherCameras(before, a, b)
  /\ \A c \in DOMAIN before \ Group(before, a) :
       GroupKey(before[c]) = GroupKey(before[a]) => list[c].start.at = 0

Meets(list, a, b) == list[a].end.at = list[b].start.at

LEMMA LoneAtFirst ==
  ASSUME NEW before, IsCatalog(before), NEW a \in DOMAIN before,
         NEW b \in DOMAIN before, LoneJunction(before, a, b)
  PROVE  SameZones(before, before) /\ Apart(before, before, a, b)
BY DEF SameZones, Alike, Apart, Camera, OtherCameras, LoneJunction, Group,
       HasCoords

LEMMA CamerasApart ==
  ASSUME NEW before, IsCatalog(before), NEW a \in DOMAIN before,
         NEW b \in DOMAIN before, LoneJunction(before, a, b)
  PROVE  /\ Camera(before, a, b) \subseteq Int \ {0}
         /\ OtherCameras(before, a, b) \subseteq Int \ {0}
         /\ \A x \in Camera(before, a, b), y \in OtherCameras(before, a, b) :
              /\ HaversineM(x, y) > JunctionMaxM /\ HaversineM(x, y) > SnapM
              /\ HaversineM(y, x) > JunctionMaxM /\ HaversineM(y, x) > SnapM
<1>1. \A c \in Group(before, a) :
        before[c].start.at \in Int \ {0} /\ before[c].end.at \in Int \ {0}
  BY DEF IsCatalog, LoneJunction, Group, HasCoords
<1>2. a \in Group(before, a) /\ b \in Group(before, a)
  BY DEF LoneJunction
<1>3. /\ Camera(before, a, b) \subseteq Int \ {0}
      /\ OtherCameras(before, a, b) \subseteq Int \ {0}
  BY <1>1, <1>2 DEF Camera, OtherCameras
<1>4. JunctionMaxM \in Nat /\ SnapM \in Nat /\ SnapM <= JunctionMaxM
  BY MergeAssumption
<1>5. \A x \in Camera(before, a, b), y \in OtherCameras(before, a, b) :
        HaversineM(x, y) > JunctionMaxM
  BY DEF LoneJunction
<1>6. \A x, y \in Int : HaversineM(x, y) = HaversineM(y, x) /\ HaversineM(x, y) \in Nat
  BY DEF HaversineM, Abs
<1>7. ASSUME NEW x \in Camera(before, a, b), NEW y \in OtherCameras(before, a, b)
      PROVE  /\ HaversineM(x, y) > JunctionMaxM /\ HaversineM(x, y) > SnapM
             /\ HaversineM(y, x) > JunctionMaxM /\ HaversineM(y, x) > SnapM
  <2>1. HaversineM(x, y) > JunctionMaxM
    BY <1>5
  <2>2. HaversineM(x, y) = HaversineM(y, x) /\ HaversineM(x, y) \in Nat
    BY <1>3, <1>6
  <2> HIDE DEF HaversineM
  <2> QED
    BY <1>4, <2>1, <2>2
<1> QED
  BY <1>3, <1>7

(* The zones of a seam that belong to this road and direction have cameras
   where the sources put them; one camera of this junction is no seam with
   another's.                                                              *)
LEMMA SeamInGroup ==
  ASSUME NEW before, IsCatalog(before), NEW a \in DOMAIN before,
         NEW b \in DOMAIN before, LoneJunction(before, a, b),
         NEW list, SameZones(before, list), Apart(before, list, a, b),
         NEW c \in DOMAIN before, NEW d \in DOMAIN before,
         IsSeam(list[c], list[d]),
         GroupKey(before[c]) = GroupKey(before[a])
         \/ GroupKey(before[d]) = GroupKey(before[a])
  PROVE  /\ c \in Group(before, a) /\ d \in Group(before, a)
         /\ (c = a) <=> (d = b)
<1>1. \A i \in DOMAIN before : GroupKey(list[i]) = GroupKey(before[i])
  BY DEF SameZones, Alike, GroupKey
<1>2. /\ GroupKey(before[c]) = GroupKey(before[a])
      /\ GroupKey(before[d]) = GroupKey(before[a])
  BY <1>1 DEF IsSeam
<1>3. c \in Group(before, a) /\ d \in Group(before, a)
  BY <1>2 DEF IsSeam, HasCoords, Apart
<1>4. \/ HaversineM(list[c].end.at, list[d].start.at) <= SnapM
      \/ HaversineM(list[c].end.at, list[d].start.at) < JunctionMaxM
  BY DEF IsSeam
<1>5. /\ HaversineM(list[c].end.at, list[d].start.at) \in Nat
      /\ SnapM \in Nat /\ JunctionMaxM \in Nat
  <2>1. list[c].end.at \in Int /\ list[d].start.at \in Int
    BY <1>3, CamerasApart DEF Apart
  <2> QED
    BY <2>1, DistanceToItself, MergeAssumption
<1>6. ASSUME c = a, d # b PROVE FALSE
  <2>1. /\ list[c].end.at \in Camera(before, a, b)
        /\ list[d].start.at \in OtherCameras(before, a, b)
    BY <1>3, <1>6 DEF Apart
  <2>2. /\ HaversineM(list[c].end.at, list[d].start.at) > JunctionMaxM
        /\ HaversineM(list[c].end.at, list[d].start.at) > SnapM
    BY <2>1, CamerasApart
  <2> HIDE DEF HaversineM
  <2> QED
    BY <1>4, <1>5, <2>2
<1>7. ASSUME c # a, d = b PROVE FALSE
  <2>1. /\ list[c].end.at \in OtherCameras(before, a, b)
        /\ list[d].start.at \in Camera(before, a, b)
    BY <1>3, <1>7 DEF Apart
  <2>2. /\ HaversineM(list[c].end.at, list[d].start.at) > JunctionMaxM
        /\ HaversineM(list[c].end.at, list[d].start.at) > SnapM
    BY <2>1, CamerasApart
  <2> HIDE DEF HaversineM
  <2> QED
    BY <1>4, <1>5, <2>2
<1> QED
  BY <1>3, <1>6, <1>7

(* Closing any seam keeps the junction apart, and only its own moves it. *)
LEMMA SnapStaysApart ==
  ASSUME NEW before, IsCatalog(before), NEW a \in DOMAIN before,
         NEW b \in DOMAIN before, LoneJunction(before, a, b),
         NEW list, SameZones(before, list), Apart(before, list, a, b),
         NEW c \in DOMAIN before, NEW d \in DOMAIN before,
         IsSeam(list[c], list[d])
  PROVE  LET snapped == SnapSeam(list, c, d)
         IN /\ SameZones(before, snapped) /\ Apart(before, snapped, a, b)
            /\ (<<c, d>> = <<a, b>> \/ Meets(list, a, b)) => Meets(snapped, a, b)
<1> DEFINE snapped == SnapSeam(list, c, d)
<1>1. SameZones(before, snapped) /\ Moved(before, list, snapped, c, d)
  BY SnapMoves
<1> HIDE DEF snapped
<1>2. a \in Group(before, a) /\ b \in Group(before, a) /\ a # b
      /\ Group(before, a) \subseteq DOMAIN before
  BY DEF LoneJunction, Group
<1>3. \A i \in Group(before, a) : GroupKey(before[i]) = GroupKey(before[a])
  BY DEF Group
<1>4. CASE /\ c \notin Group(before, a) /\ d \notin Group(before, a)
           /\ GroupKey(before[c]) # GroupKey(before[a])
           /\ GroupKey(before[d]) # GroupKey(before[a])
  <2>1. \A i \in DOMAIN before : GroupKey(before[i]) = GroupKey(before[a]) =>
          /\ snapped[i].start.at = list[i].start.at
          /\ snapped[i].end.at = list[i].end.at
    BY <1>1, <1>4 DEF Moved
  <2>2. Apart(before, snapped, a, b)
    BY <1>2, <1>3, <2>1 DEF Apart
  <2> QED
    BY <1>1, <1>2, <1>3, <1>4, <2>1, <2>2 DEF Meets, snapped
<1>5. CASE /\ c \in Group(before, a) /\ d \in Group(before, a)
           /\ (c = a) <=> (d = b)
  <2>1. CASE c = a /\ d = b
    <3>1. Apart(before, snapped, a, b) /\ Meets(snapped, a, b)
      BY <1>1, <1>2, <2>1 DEF Apart, Meets, Moved
    <3> QED
      BY <1>1, <3>1 DEF snapped
  <2>2. CASE c # a /\ d # b
    <3>1. /\ list[d].start.at \in OtherCameras(before, a, b)
          /\ list[c].end.at \in OtherCameras(before, a, b)
      BY <1>5, <2>2 DEF Apart
    <3>2. /\ snapped[a].end.at = list[a].end.at
          /\ snapped[b].start.at = list[b].start.at
      BY <1>1, <1>2, <2>2 DEF Moved
    <3>3. Apart(before, snapped, a, b)
      BY <1>1, <1>2, <1>5, <2>2, <3>1, <3>2 DEF Apart, Moved
    <3> QED
      BY <1>1, <1>2, <2>2, <3>2, <3>3 DEF Meets, snapped
  <2> QED
    BY <1>5, <2>1, <2>2
<1> QED
  BY <1>3, <1>4, <1>5, SeamInGroup

(* As long as the two cameras differ, they are a seam. *)
LEMMA OpenIsSeam ==
  ASSUME NEW before, IsCatalog(before), NEW a \in DOMAIN before,
         NEW b \in DOMAIN before, LoneJunction(before, a, b),
         NEW list, SameZones(before, list), Apart(before, list, a, b),
         ~Meets(list, a, b)
  PROVE  IsSeam(list[a], list[b])
<1>1. a \in Group(before, a) /\ b \in Group(before, a) /\ a # b
  BY DEF LoneJunction
<1>2. GroupKey(list[a]) = GroupKey(list[b])
  BY <1>1 DEF SameZones, Alike, GroupKey, Group
<1>3. HasCoords(list[a]) /\ HasCoords(list[b])
  <2>1. list[a].start.at \in OtherCameras(before, a, b)
    BY <1>1 DEF Apart
  <2>2. list[b].start.at \in Camera(before, a, b)
    BY DEF Apart
  <2> QED
    BY <2>1, <2>2, CamerasApart DEF HasCoords
<1>4. /\ list[a].end.at \in Camera(before, a, b)
      /\ list[b].start.at \in Camera(before, a, b)
      /\ Camera(before, a, b) \subseteq Int
  BY CamerasApart DEF Apart
<1>5. /\ HaversineM(list[a].end.at, list[b].start.at)
           = HaversineM(before[a].end.at, before[b].start.at)
      /\ HaversineM(list[a].end.at, list[b].start.at) > 0
  BY <1>4 DEF Camera, HaversineM, Abs, Meets
<1>6. /\ list[a].end.km = before[a].end.km
      /\ list[b].start.km = before[b].start.km
  BY DEF SameZones, Alike
<1> HIDE DEF HaversineM
<1> QED
  BY <1>2, <1>3, <1>5, <1>6 DEF IsSeam, LoneJunction

(* A pair that has been tried meets, and so does every pair in the end. *)
Tried(before, a, b) ==
  \/ stage # "snap"
  \/ seam # <<>> /\ ~TriedBefore(before, seam, <<a, b>>)

JoinedUp(before, a, b) ==
  /\ SameZones(before, zones) /\ Apart(before, zones, a, b)
  /\ seam \in {<<>>} \cup (DOMAIN before) \X (DOMAIN before)
  /\ Tried(before, a, b) => Meets(zones, a, b)

Numbering ==
  /\ stage \in Origins \cup {"match", "failed", "drop", "number"} => seam = <<>>
  /\ stage = "drop" => zones = MergedZones
  /\ stage = "number" => zones = DropUnofficial(MergedZones)
  /\ stage = "snap" /\ seam = <<>> => zones = NumberedZones

Junctions ==
  stage \in {"snap", "align", "validate"} /\ IsCatalog(NumberedZones) =>
    \A a, b \in DOMAIN NumberedZones :
      LoneJunction(NumberedZones, a, b) => JoinedUp(NumberedZones, a, b)

JInv == Numbering /\ Junctions

LEMMA SameTries ==
  ASSUME NEW before, NEW list, SameZones(before, list),
         NEW p \in (DOMAIN before) \X (DOMAIN before),
         NEW q \in (DOMAIN before) \X (DOMAIN before)
  PROVE  TriedBefore(list, p, q) <=> TriedBefore(before, p, q)
<1>1. \A i \in DOMAIN before : list[i].id = before[i].id
  BY DEF SameZones, Alike
<1>2. /\ p[1] \in DOMAIN before /\ p[2] \in DOMAIN before
      /\ q[1] \in DOMAIN before /\ q[2] \in DOMAIN before
  OBVIOUS
<1> QED
  BY <1>1, <1>2 DEF TriedBefore, Sooner

LEMMA CatalogIsKept ==
  ASSUME UNCHANGED <<scraped, matches>>
  PROVE  MergedZones' = MergedZones /\ NumberedZones' = NumberedZones
<1>1. \A match : ReadingsOf(match)' = ReadingsOf(match)
  BY DEF ReadingsOf
<1>2. MergedZones' = MergedZones
  BY <1>1 DEF MergedZones
<1> QED
  BY <1>2 DEF NumberedZones

(* The seams are closed in the order they are tried in. *)
LEMMA SnapNextJoins ==
  ASSUME JInv, SnapNext, IsCatalog(NumberedZones),
         NEW a \in DOMAIN NumberedZones, NEW b \in DOMAIN NumberedZones,
         LoneJunction(NumberedZones, a, b)
  PROVE  JoinedUp(NumberedZones, a, b)' /\ seam' # <<>>
<1> DEFINE before == NumberedZones
<1>1. stage = "snap" /\ UNCHANGED <<scraped, matches, stage>>
  BY DEF SnapNext
<1>2. SameZones(before, zones) /\ Apart(before, zones, a, b)
      /\ seam \in {<<>>} \cup (DOMAIN before) \X (DOMAIN before)
      /\ (Tried(before, a, b) => Meets(zones, a, b))
  BY <1>1 DEF JInv, Junctions, JoinedUp
<1>3. before' = before
  BY <1>1, CatalogIsKept
<1> HIDE DEF before
<1>4. PICK p \in SeamsAfter(zones, seam) :
        /\ \A q \in SeamsAfter(zones, seam) : q = p \/ TriedBefore(zones, p, q)
        /\ zones' = SnapSeam(zones, p[1], p[2])
        /\ seam' = p
  BY DEF SnapNext
<1>5. PICK c \in DOMAIN before, d \in DOMAIN before :
        p = <<c, d>> /\ c # d /\ IsSeam(zones[c], zones[d])
  BY <1>2, <1>4 DEF SeamsAfter, SameZones
<1>6. /\ IsCatalog(before) /\ a \in DOMAIN before /\ b \in DOMAIN before
      /\ LoneJunction(before, a, b)
  BY DEF before
<1>7. zones' = SnapSeam(zones, c, d)
  BY <1>4, <1>5
<1>8. /\ SameZones(before, zones') /\ Apart(before, zones', a, b)
      /\ (<<c, d>> = <<a, b>> \/ Meets(zones, a, b)) => Meets(zones', a, b)
  BY <1>2, <1>5, <1>6, <1>7, SnapStaysApart, Zenon
<1>9. ASSUME ~TriedBefore(before, <<c, d>>, <<a, b>>), <<c, d>> # <<a, b>>
      PROVE  Meets(zones, a, b)
  <2> SUFFICES ASSUME ~Meets(zones, a, b) PROVE FALSE
    OBVIOUS
  <2>1. IsSeam(zones[a], zones[b]) /\ a # b
    <3>1. a # b
      BY <1>6 DEF LoneJunction
    <3> QED
      BY <1>2, <1>6, <3>1, OpenIsSeam, Zenon
  <2>2. seam # <<>> => TriedBefore(before, seam, <<a, b>>)
    BY <1>1, <1>2 DEF Tried
  <2>3. seam # <<>> => TriedBefore(zones, seam, <<a, b>>)
    <3>1. <<a, b>> \in (DOMAIN before) \X (DOMAIN before)
      BY <1>6
    <3> QED
      BY <1>2, <2>2, <3>1, SameTries
  <2>4. <<a, b>> \in SeamsAfter(zones, seam)
    BY <1>2, <1>6, <2>1, <2>3 DEF SeamsAfter, SameZones
  <2>5. TriedBefore(zones, <<c, d>>, <<a, b>>)
    BY <1>4, <1>5, <1>9, <2>4
  <2> QED
    BY <1>2, <1>6, <1>9, <2>5, SameTries
<1>10. seam' = <<c, d>> /\ seam' # <<>>
  BY <1>4, <1>5
<1>11. Tried(before, a, b)' => ~TriedBefore(before, <<c, d>>, <<a, b>>)
  BY <1>1, <1>3, <1>10 DEF Tried
<1>12. Tried(before, a, b)' => Meets(zones', a, b)
  BY <1>8, <1>9, <1>11
<1> QED
  BY <1>3, <1>8, <1>10, <1>12 DEF JoinedUp, before

LEMMA SnappedJoins ==
  ASSUME JInv, Snapped, IsCatalog(NumberedZones),
         NEW a \in DOMAIN NumberedZones, NEW b \in DOMAIN NumberedZones,
         LoneJunction(NumberedZones, a, b)
  PROVE  JoinedUp(NumberedZones, a, b)'
<1> DEFINE before == NumberedZones
<1>1. /\ stage = "snap" /\ UNCHANGED <<scraped, matches, zones, seam>>
      /\ SeamsAfter(zones, seam) = {}
  BY DEF Snapped, Rework
<1>2. SameZones(before, zones) /\ Apart(before, zones, a, b)
      /\ seam \in {<<>>} \cup (DOMAIN before) \X (DOMAIN before)
      /\ (Tried(before, a, b) => Meets(zones, a, b))
  BY <1>1 DEF JInv, Junctions, JoinedUp
<1>3. before' = before
  BY <1>1, CatalogIsKept
<1>4. /\ IsCatalog(before) /\ a \in DOMAIN before /\ b \in DOMAIN before
      /\ LoneJunction(before, a, b) /\ a # b
  BY DEF before, LoneJunction
<1> HIDE DEF before
<1>5. Meets(zones, a, b)
  <2> SUFFICES ASSUME ~Meets(zones, a, b) PROVE FALSE
    OBVIOUS
  <2>1. IsSeam(zones[a], zones[b])
    BY <1>2, <1>4, OpenIsSeam, Zenon
  <2>2. seam # <<>> => TriedBefore(before, seam, <<a, b>>)
    BY <1>1, <1>2 DEF Tried
  <2>3. seam # <<>> => TriedBefore(zones, seam, <<a, b>>)
    <3>1. <<a, b>> \in (DOMAIN before) \X (DOMAIN before)
      BY <1>4
    <3> QED
      BY <1>2, <2>2, <3>1, SameTries
  <2>4. <<a, b>> \in SeamsAfter(zones, seam)
    BY <1>2, <1>4, <2>1, <2>3 DEF SeamsAfter, SameZones
  <2> QED
    BY <1>1, <2>4
<1> QED
  BY <1>1, <1>2, <1>3, <1>5 DEF JoinedUp, before, Meets, Apart, SameZones

LEMMA InitJInv == Init => JInv
BY DEF Init, JInv, Numbering, Junctions, Origins

LEMMA NextJInv == JInv /\ [Next]_vars => JInv'
<1> SUFFICES ASSUME JInv, [Next]_vars PROVE JInv'
  OBVIOUS
<1> USE DEF JInv
<1>1. CASE SnapNext
  <2>1. /\ stage = "snap" /\ stage' = "snap"
        /\ UNCHANGED <<scraped, matches>>
    BY <1>1 DEF SnapNext
  <2>2. NumberedZones' = NumberedZones
    BY <2>1, CatalogIsKept
  <2>3. seam' # <<>>
    <3>1. PICK p \in SeamsAfter(zones, seam) : seam' = p
      BY <1>1 DEF SnapNext
    <3>2. PICK c \in DOMAIN zones, d \in DOMAIN zones : p = <<c, d>>
      BY <3>1 DEF SeamsAfter
    <3> QED
      BY <3>1, <3>2
  <2>4. Numbering'
    BY <2>1, <2>3 DEF Numbering, Origins
  <2>5. Junctions'
    BY <1>1, <2>1, <2>2, SnapNextJoins DEF Junctions
  <2> QED
    BY <2>4, <2>5
<1>2. CASE Snapped
  <2>1. /\ stage = "snap" /\ stage' = "align"
        /\ UNCHANGED <<scraped, matches>>
    BY <1>2 DEF Snapped, Rework
  <2>2. NumberedZones' = NumberedZones
    BY <2>1, CatalogIsKept
  <2>3. Numbering'
    BY <2>1 DEF Numbering, Origins
  <2>4. Junctions'
    BY <1>2, <2>2, SnappedJoins DEF Junctions
  <2> QED
    BY <2>3, <2>4
<1>3. CASE Align
  <2>1. /\ stage = "align" /\ stage' = "validate"
        /\ UNCHANGED <<scraped, matches, seam>>
        /\ zones' = [i \in DOMAIN zones |-> AlignCenterline(zones[i])]
    BY <1>3 DEF Align, Rework
  <2>2. NumberedZones' = NumberedZones
    BY <2>1, CatalogIsKept
  <2>3. Numbering'
    BY <2>1 DEF Numbering, Origins
  <2>4. ASSUME NEW zone, {"start", "end"} \subseteq DOMAIN zone
        PROVE  /\ AlignCenterline(zone).start = zone.start
               /\ AlignCenterline(zone).end = zone.end
    BY DEF AlignCenterline
  <2>5. ASSUME NEW zone, {"id", "road", "direction"} \subseteq DOMAIN zone
        PROVE  /\ AlignCenterline(zone).id = zone.id
               /\ AlignCenterline(zone).road = zone.road
               /\ AlignCenterline(zone).direction = zone.direction
               /\ DOMAIN AlignCenterline(zone) = DOMAIN zone
    BY DEF AlignCenterline
  <2>6. ASSUME IsCatalog(NumberedZones),
               NEW a \in DOMAIN NumberedZones, NEW b \in DOMAIN NumberedZones,
               LoneJunction(NumberedZones, a, b)
        PROVE  JoinedUp(NumberedZones, a, b)'
    <3> DEFINE before == NumberedZones
    <3>1. JoinedUp(before, a, b) /\ Tried(before, a, b)
      BY <2>1, <2>6 DEF Junctions, Tried
    <3>2. before' = before /\ IsCatalog(before)
      BY <2>2, <2>6
    <3>0. a \in DOMAIN before /\ b \in DOMAIN before
      BY <2>6
    <3> HIDE DEF before
    <3>3. \A i \in DOMAIN before :
            /\ {"id", "road", "direction", "start", "end"} \subseteq DOMAIN zones[i]
            /\ i \in DOMAIN zones
      BY <3>1, <3>2 DEF JoinedUp, SameZones, Alike, IsCatalog
    <3>4. \A i \in DOMAIN before : zones'[i] = AlignCenterline(zones[i])
      BY <2>1, <3>3
    <3>5. \A i \in DOMAIN before :
            /\ zones'[i].start = zones[i].start /\ zones'[i].end = zones[i].end
            /\ zones'[i].id = zones[i].id /\ zones'[i].road = zones[i].road
            /\ zones'[i].direction = zones[i].direction
            /\ DOMAIN zones'[i] = DOMAIN zones[i]
      BY <2>4, <2>5, <3>3, <3>4
    <3>6. SameZones(before, zones')
      BY <2>1, <3>1, <3>5 DEF JoinedUp, SameZones, Alike
    <3>7. Group(before, a) \subseteq DOMAIN before
      BY DEF Group
    <3>8. Apart(before, zones', a, b) /\ Meets(zones', a, b)
      BY <3>0, <3>1, <3>5, <3>7 DEF JoinedUp, Apart, Meets
    <3> QED
      BY <2>1, <3>1, <3>2, <3>6, <3>8 DEF JoinedUp, before
  <2>7. Junctions'
    BY <2>2, <2>6 DEF Junctions
  <2> QED
    BY <2>3, <2>7
<1>4. CASE Number
  <2>1. /\ stage = "number" /\ stage' = "snap"
        /\ UNCHANGED <<scraped, matches, seam>>
        /\ zones' = AssignIds(zones)
    BY <1>4 DEF Number, Rework
  <2>2. NumberedZones' = NumberedZones
    BY <2>1, CatalogIsKept
  <2>3. seam' = <<>> /\ zones' = NumberedZones
    BY <2>1 DEF Numbering, NumberedZones
  <2>4. Numbering'
    BY <2>1, <2>2, <2>3 DEF Numbering, Origins
  <2>5. Junctions'
    <3> DEFINE before == NumberedZones
    <3> SUFFICES ASSUME IsCatalog(before),
                        NEW a \in DOMAIN before, NEW b \in DOMAIN before,
                        LoneJunction(before, a, b)
                 PROVE  JoinedUp(before, a, b)'
      BY <2>2 DEF Junctions
    <3>1. SameZones(before, before) /\ Apart(before, before, a, b)
      BY LoneAtFirst, Zenon
    <3> QED
      BY <2>1, <2>2, <2>3, <3>1 DEF JoinedUp, Tried
  <2> QED
    BY <2>4, <2>5
<1>5. CASE Drop
  <2>1. /\ stage = "drop" /\ stage' = "number"
        /\ UNCHANGED <<scraped, matches, seam>>
        /\ zones' = DropUnofficial(zones)
    BY <1>5 DEF Drop, Rework
  <2>2. MergedZones' = MergedZones
    BY <2>1, CatalogIsKept
  <2> QED
    BY <2>1, <2>2 DEF Numbering, Junctions, Origins
<1>6. CASE Merge
  <2>1. /\ stage = "match" /\ stage' = "drop"
        /\ UNCHANGED <<scraped, matches, seam>>
        /\ zones' = MergedZones
    BY <1>6 DEF Merge, Rework
  <2>2. MergedZones' = MergedZones
    BY <2>1, CatalogIsKept
  <2> QED
    BY <2>1, <2>2 DEF Numbering, Junctions, Origins
<1>7. CASE /\ stage \in Origins \cup {"match"} /\ UNCHANGED seam
           /\ stage' \in Origins \cup {"match", "failed"}
  BY <1>7 DEF Numbering, Junctions, Origins
<1>8. CASE ScrapeBgToll
  BY <1>7, <1>8 DEF ScrapeBgToll, Read, Origins
<1>9. CASE ScrapeTollTracker
  <2>1. PICK result : Read("tolltracker", result, "kml")
    BY <1>9, Zenon DEF ScrapeTollTracker
  <2> QED
    BY <1>7, <2>1 DEF Read, Origins
<1>10. CASE ScrapeKml
  <2>1. PICK result : Read("kml", result, "match")
    BY <1>10, Zenon DEF ScrapeKml
  <2> QED
    BY <1>7, <2>1 DEF Read, Origins
<1>11. CASE SourceFailure
  BY <1>7, <1>11 DEF SourceFailure
<1>12. CASE MatchBgToll \/ AddTollTracker \/ MatchKml \/ AddKml
  BY <1>7, <1>12 DEF MatchBgToll, AddTollTracker, MatchKml, AddKml, Matching
<1>13. CASE Check
  BY <1>13 DEF Check, Numbering, Junctions, Origins
<1>14. CASE UNCHANGED vars
  <2>1. /\ UNCHANGED <<stage, scraped, matches, zones, seam>>
    BY <1>14 DEF vars
  <2>2. MergedZones' = MergedZones /\ NumberedZones' = NumberedZones
    BY <2>1, CatalogIsKept
  <2> QED
    BY <2>1, <2>2 DEF Numbering, Junctions, JoinedUp, Tried
<1> QED
  BY <1>1, <1>2, <1>3, <1>4, <1>5, <1>6, <1>8, <1>9, <1>10, <1>11, <1>12, <1>13,
     <1>14 DEF Next

(* snap_junction_seams: whatever the catalog, and whatever other seams are
   closed before and after, the two zones of a lone junction are published
   with one camera, at one of the two places the sources gave for it.      *)
THEOREM JunctionsMeetHolds == Spec => []JunctionsMeet
<1>1. JInv => JunctionsMeet
  BY DEF JInv, Junctions, JoinedUp, Tried, Apart, Meets, JunctionsMeet
<1> QED
  BY <1>1, InitJInv, NextJInv, PTL DEF Spec

=============================================================================
