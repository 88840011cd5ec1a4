-------------------------- MODULE PublicationProofs --------------------------
(***************************************************************************)
(* What clients of the public directory rely on, for any feeds, catalogs,   *)
(* retention and number of runs, and for a death of the scraper or of its    *)
(* wrapper between any two steps.                                            *)
(***************************************************************************)
EXTENDS Publication, FiniteSetTheorems, WellFoundedInduction, TLAPS

(* The feed serves the run's catalog and announces it. *)
Written(f) ==
  /\ zonesFile[f] = db
  /\ versionFile[f] # None
  /\ versionFile[f].hash = db.hash /\ versionFile[f].count = db.count

(* What the steps before a write have established for it. *)
StepsOK ==
  /\ pc \in {"idle", "fetch"} => source <= Sources
  /\ pc = "guard" => db # None
  /\ pc = "copy" => zonesFile[Feed] # None
  /\ pc = "zones" /\ HasChanged(Feed) =>
       \E s \in snapshots : s.feed = Feed /\ s.whole /\ s.content = zonesFile[Feed]
  /\ pc \in {"version", "prune"} => zonesFile[Feed] = db
  /\ pc = "prune" => Written(Feed)
  /\ pc = "exit" /\ rc = 0 => db # None /\ \A f \in Served : Written(f)

(* Feeds are written in order: all passed the guard, those behind are done,
   those ahead still announce what they were guarded against.              *)
WritingOK ==
  Writing =>
    /\ db # None /\ todo # {} /\ todo \subseteq Served
    /\ \A f \in Served : Acceptable(db, f)
    /\ \A f \in Served \ todo : Written(f)
    /\ \A f \in todo : f # Feed \/ pc \in {"open", "copy", "zones"} => ~TooFew(db, f)

IInv == /\ TypeOK /\ IsFiniteSet(snapshots) /\ StepsOK /\ WritingOK
        /\ ServedIsUsable /\ FeedsAgree

(* The order of the feeds, as a relation the library knows. *)
Below == {p \in Nat \X Nat : p[1] < p[2]}

LEMMA BelowIsWellFounded == IsWellFoundedOn(Below, Nat)
<1>1. Below = OpToRel(<, Nat)
  BY Zenon DEF Below, OpToRel
<1>2. QED BY <1>1, NatLessThanWellFounded, Zenon

LEMMA LeastExists ==
  ASSUME NEW S \in SUBSET Nat, S # {}
  PROVE  Min(S) \in S
<1>1. \E x \in S : \A y \in S : <<y, x>> \notin Below
  BY WFMin, BelowIsWellFounded, Zenon
<1>2. \E x \in S : \A y \in S : x =< y
  <2>1. PICK x \in S : \A y \in S : <<y, x>> \notin Below
    BY <1>1
  <2>2. ASSUME NEW y \in S PROVE x =< y
    <3>1. x \in Nat /\ y \in Nat /\ <<y, x>> \notin Below
      BY <2>1
    <3>2. ~(y < x)
      BY <3>1, Zenon DEF Below
    <3>3. QED BY <3>1, <3>2
  <2>3. QED BY <2>2
<1>3. QED BY <1>2 DEF Min

(* The feed being written is one of those still to be written. *)
LEMMA FeedIsNext ==
  ASSUME TypeOK, todo # {}
  PROVE  Feed \in todo
<1>1. todo \in SUBSET Nat
  BY PublicationAssumption DEF TypeOK
<1>2. QED BY <1>1, LeastExists DEF Feed

LEMMA FeedIsNextAfter ==
  ASSUME TypeOK', todo' # {}
  PROVE  Feed' \in todo'
<1>1. todo' \in SUBSET Nat
  BY PublicationAssumption DEF TypeOK
<1>2. QED BY <1>1, LeastExists DEF Feed

LEMMA CountersStart == 1 \in 1..(Sources + 1) /\ 0 \in 0..(Attempts - 1) /\ 0 \in 0..MaxRuns
<1>1. Sources \in Nat /\ Attempts \in Nat \ {0} /\ MaxRuns \in Nat
  BY PublicationAssumption
<1>2. QED BY <1>1

LEMMA InitInv == Init => IInv
<1> SUFFICES ASSUME Init PROVE IInv
  OBVIOUS
<1>1. TypeOK
  BY CountersStart DEF Init, TypeOK, Statuses
<1>2. IsFiniteSet(snapshots)
  BY FS_EmptySet DEF Init
<1>3. StepsOK /\ WritingOK /\ ServedIsUsable /\ FeedsAgree
  BY PublicationAssumption
     DEF Init, StepsOK, WritingOK, ServedIsUsable, FeedsAgree, Writing
<1>4. QED BY <1>1, <1>2, <1>3 DEF IInv

-----------------------------------------------------------------------------
LEMMA TypeStep ==
  ASSUME IInv, [Next]_vars
  PROVE  TypeOK'
<1> USE PublicationAssumption
<1>1. CASE \E f \in Feeds, s \in Statuses : EditManifest(f, s)
  BY <1>1 DEF IInv, TypeOK, EditManifest, disk, run, wrapper
<1>2. CASE Start
  BY <1>2 DEF IInv, TypeOK, Start, disk, run
<1>3. CASE Request
  <2>1. source <= Sources /\ source \in Nat /\ Sources \in Nat /\ attempt \in Nat
        /\ Attempts \in Nat /\ pc = "fetch"
    BY <1>3 DEF IInv, TypeOK, StepsOK, Request
  <2>2. ASSUME NEW fails \in BOOLEAN, Answer(fails)
        PROVE  /\ source' \in 1..(Sources + 1) /\ attempt' \in 0..(Attempts - 1)
               /\ failed' \in BOOLEAN /\ pc' \in {"fetch", "merge"}
    BY <2>1, <2>2, CountersStart DEF IInv, TypeOK, Answer
  <2>4. ASSUME attempt' = attempt + 1, attempt + 1 < Attempts,
               UNCHANGED <<source, failed, pc>>
        PROVE  /\ source' \in 1..(Sources + 1) /\ attempt' \in 0..(Attempts - 1)
               /\ failed' \in BOOLEAN /\ pc' \in {"fetch", "merge"}
    <3>1. attempt + 1 \in 0..(Attempts - 1)
      BY <2>1, <2>4
    <3>2. source \in 1..(Sources + 1) /\ failed \in BOOLEAN
      BY DEF IInv, TypeOK
    <3>3. QED BY <2>1, <2>4, <3>1, <3>2
  <2>6. Answer(FALSE) \/ Answer(TRUE)
        \/ (attempt' = attempt + 1 /\ attempt + 1 < Attempts
              /\ UNCHANGED <<source, failed, pc>>)
    BY <1>3 DEF Request, Transient
  <2>5. /\ source' \in 1..(Sources + 1) /\ attempt' \in 0..(Attempts - 1)
        /\ failed' \in BOOLEAN /\ pc' \in {"fetch", "merge"}
    BY <2>2, <2>4, <2>6
  <2>3. QED
    BY <1>3, <2>1, <2>5 DEF IInv, TypeOK, Request, disk, wrapper
<1>4. CASE SourceFailure \/ Refuse \/ Merge \/ Accept
  BY <1>4 DEF IInv, TypeOK, SourceFailure, Refuse, Merge, Accept, Exit, Served,
       disk, run, wrapper
<1>5. CASE Open
  BY <1>5 DEF IInv, TypeOK, Open, disk, run, wrapper
<1>6. ASSUME NEW whole \in BOOLEAN, pc = "copy", Copied(whole)
      PROVE  snapshots' \subseteq Snapshot
  <2>3. todo # {} /\ zonesFile[Feed] # None /\ TypeOK
    BY <1>6 DEF IInv, StepsOK, WritingOK, Writing
  <2>4. Feed \in todo
    BY <2>3, FeedIsNext
  <2>5. runs \in 1..MaxRuns
    BY <1>6 DEF IInv, TypeOK
  <2>1. Feed \in Feeds /\ zonesFile[Feed] \in Catalogs /\ runs \in 1..MaxRuns
    BY <2>3, <2>4, <2>5 DEF TypeOK
  <2>2. QED
    BY <1>6, <2>1 DEF Copied, Snapshot, IInv, TypeOK
<1>7. CASE CopySnapshot
  BY <1>6, <1>7 DEF IInv, TypeOK, CopySnapshot, run, wrapper
<1>8. CASE ReplaceZones
  BY <1>8 DEF IInv, TypeOK, ReplaceZones, run, wrapper
<1>9. CASE ReplaceVersion
  <2>1. db \in Catalogs
    BY <1>9 DEF IInv, TypeOK, WritingOK, Writing, ReplaceVersion
  <2>2. [hash |-> db.hash, count |-> db.count,
         unsupported |-> status[Feed] = "unsupported"] \in Meta
    BY <2>1 DEF Meta
  <2>3. QED
    BY <1>9, <2>2 DEF IInv, TypeOK, ReplaceVersion, run, wrapper
<1>10. CASE Prune
  <2>1. db \in Catalogs /\ Served \in SUBSET Feeds
    BY <1>10 DEF IInv, TypeOK, WritingOK, Writing, Prune, Served
  <2>2. QED
    <3>1. snapshots' \subseteq Snapshot /\ todo' \subseteq Feeds
      BY <1>10 DEF IInv, TypeOK, Prune
    <3>2. /\ pc' \in {"open", "exit"} /\ rc' \in {0, 1} /\ pc # "idle"
          /\ published' \in [feeds : SUBSET Feeds, hash : Nat] \cup {None}
      <4>1. [feeds |-> Served, hash |-> db.hash] \in [feeds : SUBSET Feeds, hash : Nat]
        <5>1. db.hash \in Nat
          BY <2>1, PublicationAssumption
        <5>2. QED BY <2>1, <5>1
      <4>2. CASE todo = {Feed}
        BY <1>10, <4>1, <4>2 DEF Prune, Exit
      <4>3. CASE todo # {Feed}
        BY <1>10, <4>3 DEF IInv, TypeOK, Prune
      <4>4. QED BY <4>2, <4>3
    <3>3. QED
      BY <1>10, <3>1, <3>2 DEF IInv, TypeOK, Prune, wrapper
<1>11. ASSUME Die PROVE snapshots' \subseteq Snapshot
  BY <1>6, <1>11 DEF Die, IInv, TypeOK
<1>12. CASE Killed
  BY <1>11, <1>12 DEF IInv, TypeOK, Killed, Die, Exit, run, wrapper
<1>17. ASSUME Forget
       PROVE  /\ source' \in 1..(Sources + 1) /\ attempt' \in 0..(Attempts - 1)
              /\ failed' \in BOOLEAN /\ db' \in Catalogs \cup {None}
              /\ todo' \subseteq Feeds
  BY <1>17, CountersStart DEF Forget
<1>13. CASE HostDown
  <2>1. Forget /\ pc' = "idle" /\ rc' = 0
    BY <1>13 DEF HostDown
  <2>2. UNCHANGED <<status, zonesFile, versionFile, runs, wrapper>>
    BY <1>13 DEF HostDown, Die, disk
  <2>3. snapshots' \subseteq Snapshot /\ published' \in {published, None}
    BY <1>11, <1>13 DEF HostDown, Die, disk, IInv, TypeOK
  <2>4. QED
    BY <1>17, <2>1, <2>2, <2>3 DEF IInv, TypeOK, wrapper
<1>14. CASE Notify
  <2>1. ServedHash \in Nat \cup {None}
    BY DEF IInv, TypeOK, ServedHash, Meta
  <2>2. lastHash' \in Nat \cup {None} /\ told' \in Message
    BY <1>14, <2>1 DEF Notify, Report, Message, IInv, TypeOK
  <2>3. QED
    BY <1>14, <1>17, <2>2 DEF IInv, TypeOK, Notify, disk
<1>15. CASE UNCHANGED vars
  BY <1>15 DEF IInv, TypeOK, vars, disk, run, wrapper
<1>16. QED
  BY <1>1, <1>2, <1>3, <1>4, <1>5, <1>7, <1>8, <1>9, <1>10, <1>12, <1>13, <1>14,
     <1>15 DEF Next, Step

-----------------------------------------------------------------------------
(* Files, feeds and what is planned for them stay as they are, unless the run
   is writing.                                                             *)
LEMMA QuietStep ==
  ASSUME IInv, TypeOK',
         UNCHANGED <<zonesFile, versionFile, published>>,
         ~Writing, ~Writing', StepsOK', IsFiniteSet(snapshots')
  PROVE  IInv'
<1>1. ServedIsUsable'
  BY DEF IInv, ServedIsUsable, Acceptable
<1>2. FeedsAgree'
  BY DEF IInv, FeedsAgree
<1>3. QED BY <1>1, <1>2 DEF IInv, WritingOK

LEMMA BeforeWritingStep ==
  ASSUME IInv, TypeOK',
         (\E f \in Feeds, s \in Statuses : EditManifest(f, s)) \/ Start \/ Request
           \/ SourceFailure \/ Merge \/ Refuse
  PROVE  IInv'
<1>1. /\ UNCHANGED <<zonesFile, versionFile, published, snapshots>>
      /\ pc \in {"idle", "fetch", "merge", "guard"}
      /\ pc' \in {"idle", "fetch", "merge", "guard", "exit"}
  BY DEF EditManifest, Start, Request, Answer, Transient, SourceFailure, Merge,
         Refuse, Exit, disk
<1>2. pc' \in {"idle", "fetch"} => source' <= Sources
  <2>1. CASE Start
    BY <2>1, PublicationAssumption DEF Start, run, IInv, StepsOK
  <2>2. CASE Request
    BY <2>2, PublicationAssumption DEF Request, Answer, Transient, IInv, StepsOK, TypeOK
  <2>3. QED
    BY <2>1, <2>2, <1>1 DEF EditManifest, SourceFailure, Merge, Refuse, Exit, run,
       IInv, StepsOK
<1>3. pc' = "guard" => db' # None
  BY PublicationAssumption DEF EditManifest, Start, Request, Answer, Transient,
     SourceFailure, Merge, Refuse, Exit, IInv, StepsOK
<1>4. pc' = "exit" => rc' = 1
  BY <1>1 DEF EditManifest, Start, Request, Answer, Transient, SourceFailure,
     Merge, Refuse, Exit
<1>5. StepsOK'
  BY <1>1, <1>2, <1>3, <1>4 DEF StepsOK
<1>6. QED
  BY <1>1, <1>5, QuietStep DEF IInv, Writing

LEMMA AcceptStep ==
  ASSUME IInv, TypeOK', Accept
  PROVE  IInv'
<1>1. db # None /\ Served # {} /\ \A f \in Served : Acceptable(db, f) /\ ~TooFew(db, f)
  BY DEF Accept, Refused, FeedError, IInv, StepsOK
<1>2. /\ UNCHANGED <<zonesFile, versionFile, snapshots, status, db>>
      /\ todo' = Served /\ pc' = "open" /\ Served' = Served
  BY DEF Accept, Served, disk
<1>3. WritingOK'
  BY <1>1, <1>2 DEF WritingOK, Acceptable, TooFew
<1>4. StepsOK'
  BY <1>2 DEF StepsOK
<1>5. ServedIsUsable' /\ FeedsAgree'
  BY <1>2 DEF IInv, ServedIsUsable, Acceptable, FeedsAgree, Writing
<1>6. QED BY <1>2, <1>3, <1>4, <1>5 DEF IInv

(* The steps that write: what they share. *)
LEMMA WritingFacts ==
  ASSUME IInv, Writing
  PROVE  /\ Feed \in todo /\ Feed \in Served /\ Feed \in Feeds
         /\ db \in Catalogs /\ Acceptable(db, Feed)
<1>1. Feed \in todo
  BY FeedIsNext DEF IInv, WritingOK
<1>2. QED BY <1>1 DEF IInv, WritingOK, TypeOK

LEMMA OpenStep ==
  ASSUME IInv, TypeOK', Open \/ CopySnapshot
  PROVE  IInv'
<1>1. /\ UNCHANGED <<zonesFile, versionFile, status, db, todo, published>>
      /\ pc \in {"open", "copy"} /\ pc' \in {"copy", "zones"} /\ Writing
      /\ Feed' = Feed /\ Served' = Served
  BY DEF Open, CopySnapshot, run, disk, Writing, Feed, Served
<1>2. WritingOK'
  BY <1>1 DEF IInv, WritingOK, Acceptable, TooFew, Written, Writing
<1>3. IsFiniteSet(snapshots')
  BY FS_AddElement DEF IInv, Open, CopySnapshot, Copied, disk
<1>4. StepsOK'
  <2>1. CASE Open
    BY <1>1, <2>1 DEF Open, StepsOK, HasChanged
  <2>2. CASE CopySnapshot
    <3>1. \E s \in snapshots' : s.feed = Feed /\ s.whole /\ s.content = zonesFile[Feed]
      <4> DEFINE r == [feed |-> Feed, time |-> runs, whole |-> TRUE,
                       content |-> zonesFile[Feed]]
      <4>1. r \in snapshots'
        BY <2>2 DEF CopySnapshot, Copied
      <4>2. r.feed = Feed /\ r.whole /\ r.content = zonesFile[Feed]
        OBVIOUS
      <4> HIDE DEF r
      <4>3. QED BY <4>1, <4>2
    <3>2. pc' = "zones"
      BY <2>2 DEF CopySnapshot
    <3>3. QED BY <1>1, <3>1, <3>2 DEF StepsOK
  <2>3. QED BY <2>1, <2>2
<1>5. ServedIsUsable' /\ FeedsAgree'
  BY <1>1 DEF IInv, ServedIsUsable, Acceptable, FeedsAgree, Writing
<1>6. QED BY <1>2, <1>3, <1>4, <1>5 DEF IInv

LEMMA ReplaceZonesStep ==
  ASSUME IInv, TypeOK', ReplaceZones
  PROVE  IInv'
<1>1. /\ UNCHANGED <<versionFile, status, db, todo, published, snapshots>>
      /\ pc = "zones" /\ pc' = "version" /\ Writing
      /\ Feed' = Feed /\ Served' = Served
      /\ zonesFile' = [zonesFile EXCEPT ![Feed] = db]
  BY DEF ReplaceZones, run, Writing, Feed, Served
<1>2. Feed \in todo /\ Feed \in Feeds /\ Acceptable(db, Feed) /\ db \in Catalogs
  BY <1>1, WritingFacts
<1>3. /\ zonesFile'[Feed] = db
      /\ \A f \in Feeds : f # Feed => zonesFile'[f] = zonesFile[f]
  BY <1>1, <1>2 DEF IInv, TypeOK
<1>4. Served \subseteq Feeds
  BY DEF Served
<1>5. WritingOK'
  BY <1>1, <1>2, <1>3, <1>4 DEF IInv, WritingOK, Acceptable, TooFew, Written, Writing
<1>6. StepsOK'
  BY <1>1, <1>3 DEF StepsOK
<1>7. ServedIsUsable'
  BY <1>2, <1>3 DEF IInv, ServedIsUsable, Acceptable
<1>8. FeedsAgree'
  BY <1>1 DEF FeedsAgree, Writing
<1>9. QED BY <1>1, <1>5, <1>6, <1>7, <1>8 DEF IInv

LEMMA ReplaceVersionStep ==
  ASSUME IInv, TypeOK', ReplaceVersion
  PROVE  IInv'
<1> DEFINE meta == [hash |-> db.hash, count |-> db.count,
                    unsupported |-> status[Feed] = "unsupported"]
<1>1. /\ UNCHANGED <<zonesFile, status, db, todo, published, snapshots>>
      /\ pc = "version" /\ pc' = "prune" /\ Writing
      /\ Feed' = Feed /\ Served' = Served
      /\ versionFile' = [versionFile EXCEPT ![Feed] = meta]
  BY DEF ReplaceVersion, run, Writing, Feed, Served
<1>2. Feed \in todo /\ Feed \in Feeds
  BY <1>1, WritingFacts
<1>3. /\ versionFile'[Feed] = meta
      /\ \A f \in Feeds : f # Feed => versionFile'[f] = versionFile[f]
  BY <1>1, <1>2 DEF IInv, TypeOK
<1>4. versionFile'[Feed] # None /\ meta.hash = db.hash /\ meta.count = db.count
  <2>1. db \in Catalogs
    BY <1>1, WritingFacts
  <2>2. meta \in [hash : Nat, count : Nat, unsupported : BOOLEAN]
    BY <2>1, PublicationAssumption
  <2>3. QED BY <1>3, <2>2, PublicationAssumption
<1>5. Served \subseteq Feeds
  BY DEF Served
<1>6. Written(Feed)'
  BY <1>1, <1>3, <1>4 DEF IInv, StepsOK, Written
<1>7. WritingOK'
  BY <1>1, <1>2, <1>3, <1>5 DEF IInv, WritingOK, Acceptable, TooFew, Written, Writing
<1>8. StepsOK'
  BY <1>1, <1>6 DEF IInv, StepsOK, Written
<1>9. ServedIsUsable' /\ FeedsAgree'
  BY <1>1 DEF IInv, ServedIsUsable, Acceptable, FeedsAgree, Writing
<1>10. QED BY <1>1, <1>7, <1>8, <1>9 DEF IInv

LEMMA PruneStep ==
  ASSUME IInv, TypeOK', Prune
  PROVE  IInv'
<1>1. /\ UNCHANGED <<zonesFile, versionFile, status, db>>
      /\ pc = "prune" /\ Writing /\ Served' = Served
      /\ todo' = todo \ {Feed} /\ snapshots' \subseteq snapshots
  BY DEF Prune, Writing, Served
<1>2. Written(Feed) /\ Feed \in todo /\ db \in Catalogs
  BY <1>1, WritingFacts DEF IInv, StepsOK
<1>3. \A f \in Served \ todo' : Written(f)
  BY <1>1, <1>2 DEF IInv, WritingOK
<1>4. IsFiniteSet(snapshots')
  BY <1>1, FS_Subset DEF IInv
<1>5. ServedIsUsable'
  BY <1>1 DEF IInv, ServedIsUsable, Acceptable
<1>6. CASE todo = {Feed}
  <2>1. /\ pc' = "exit" /\ todo' = {}
        /\ published' = [feeds |-> Served, hash |-> db.hash]
    BY <1>1, <1>6 DEF Prune, Exit
  <2>2. db # None /\ \A f \in Served : Written(f)
    BY <1>1, <1>3, <2>1 DEF IInv, WritingOK
  <2>3. StepsOK'
    BY <1>1, <2>1, <2>2 DEF StepsOK, Written
  <2>4. FeedsAgree'
    BY <1>1, <1>2, <2>1, <2>2, PublicationAssumption DEF FeedsAgree, Written
  <2>5. WritingOK'
    BY <2>1 DEF WritingOK, Writing
  <2>6. QED BY <1>4, <1>5, <2>3, <2>4, <2>5 DEF IInv
<1>7. CASE todo # {Feed}
  <2>1. pc' = "open" /\ todo' # {}
    BY <1>1, <1>2, <1>7 DEF Prune
  <2>2. \A f \in todo' : f # Feed
    BY <1>1
  <2>3. WritingOK'
    BY <1>1, <1>3, <2>1, <2>2 DEF IInv, WritingOK, Acceptable, TooFew, Written, Writing
  <2>4. StepsOK'
    BY <2>1 DEF StepsOK
  <2>5. FeedsAgree'
    BY <2>1 DEF FeedsAgree, Writing
  <2>6. QED BY <1>4, <1>5, <2>3, <2>4, <2>5 DEF IInv
<1>8. QED BY <1>6, <1>7

LEMMA DieFacts ==
  ASSUME IInv, Die
  PROVE  IsFiniteSet(snapshots')
BY FS_AddElement DEF IInv, Die, Copied

LEMMA EndStep ==
  ASSUME IInv, TypeOK', Killed \/ HostDown \/ Notify
  PROVE  IInv'
<1>1. /\ UNCHANGED <<zonesFile, versionFile, status>>
      /\ pc' \in {"exit", "idle"} /\ (pc' = "exit" => rc' = 1)
      /\ published' = None \/ (published' = published /\ ~Writing)
  BY DEF Killed, HostDown, Notify, Die, Exit, disk, Writing
<1>2. IsFiniteSet(snapshots')
  BY DieFacts DEF Killed, HostDown, Notify, disk, IInv
<1>3. ServedIsUsable'
  BY <1>1 DEF IInv, ServedIsUsable, Acceptable
<1>4. FeedsAgree'
  BY <1>1 DEF IInv, FeedsAgree
<1>5. pc' = "idle" => source' <= Sources
  BY PublicationAssumption DEF Killed, HostDown, Notify, Exit, Forget
<1>7. StepsOK' /\ WritingOK'
  BY <1>1, <1>5 DEF StepsOK, WritingOK, Writing
<1>6. QED BY <1>2, <1>3, <1>4, <1>7 DEF IInv

LEMMA StutterStep ==
  ASSUME IInv, UNCHANGED vars
  PROVE  IInv'
BY DEF IInv, TypeOK, StepsOK, WritingOK, ServedIsUsable, FeedsAgree, Writing,
       Written, Acceptable, TooFew, HasChanged, Feed, Served, vars, disk, run, wrapper

LEMMA StepInv ==
  ASSUME IInv, [Next]_vars
  PROVE  IInv'
<1>1. TypeOK'
  BY TypeStep
<1>2. QED
  BY <1>1, BeforeWritingStep, AcceptStep, OpenStep, ReplaceZonesStep,
     ReplaceVersionStep, PruneStep, EndStep, StutterStep DEF Next, Step

-----------------------------------------------------------------------------
(* What each action may do to the files and to the message. *)
LEMMA FilesChange ==
  ASSUME IInv, [Next]_vars
  PROVE  /\ (UNCHANGED zonesFile) \/ ReplaceZones
         /\ (UNCHANGED versionFile) \/ ReplaceVersion
         /\ (snapshots \subseteq snapshots') \/ Prune
         /\ (UNCHANGED told) \/ (told' = None) \/ Notify
<1>1. CASE Next
  BY <1>1 DEF Next, Step, EditManifest, Start, Request, SourceFailure, Merge, Refuse,
       Accept, Open, CopySnapshot, Copied, ReplaceZones, ReplaceVersion, Prune, Killed,
       HostDown, Die, Notify, disk, wrapper
<1>2. CASE UNCHANGED vars
  BY <1>2 DEF vars, disk, wrapper
<1>3. QED BY <1>1, <1>2

LEMMA CollapseStep ==
  ASSUME IInv, [Next]_vars, NEW f \in Feeds, Announced(f)
  PROVE  10 * zonesFile'[f].count >= 7 * zonesFile[f].count
<1>1. zonesFile[f].count \in Nat
  BY PublicationAssumption DEF IInv, TypeOK, Announced
<1>2. CASE UNCHANGED zonesFile
  BY <1>1, <1>2
<1>3. CASE ReplaceZones
  <2>1. pc = "zones" /\ Writing /\ zonesFile' = [zonesFile EXCEPT ![Feed] = db]
    BY <1>3 DEF ReplaceZones, Writing
  <2>2. Feed \in todo /\ Feed \in Feeds /\ db \in Catalogs
    BY <2>1, WritingFacts
  <2>3. CASE f = Feed
    <3>1. ~TooFew(db, f)
      BY <2>1, <2>2, <2>3 DEF IInv, WritingOK
    <3>2. ~(10 * db.count < 7 * zonesFile[f].count)
      BY <3>1 DEF TooFew, Announced
    <3>3. db.count \in Nat /\ zonesFile'[f] = db
      BY <2>1, <2>2, <2>3, PublicationAssumption DEF IInv, TypeOK
    <3>4. QED BY <1>1, <3>2, <3>3
  <2>4. CASE f # Feed
    BY <1>1, <2>1, <2>4 DEF IInv, TypeOK
  <2>5. QED BY <2>3, <2>4
<1>4. QED BY <1>2, <1>3, FilesChange

LEMMA LostStep ==
  ASSUME IInv, [Next]_vars, NEW f \in Feeds, Announced(f),
         zonesFile'[f].hash # zonesFile[f].hash
  PROVE  \E s \in snapshots : s.feed = f /\ s.whole /\ s.content = zonesFile[f]
<1>1. ReplaceZones
  BY FilesChange
<1>2. pc = "zones" /\ Writing /\ zonesFile' = [zonesFile EXCEPT ![Feed] = db]
  BY <1>1 DEF ReplaceZones, Writing
<1>3. f = Feed /\ zonesFile'[f] = db
  BY <1>2 DEF IInv, TypeOK
<1>4. HasChanged(Feed)
  BY <1>3 DEF HasChanged, Announced
<1>5. QED BY <1>2, <1>3, <1>4 DEF IInv, StepsOK

LEMMA SuccessStep ==
  ASSUME IInv, [Next]_vars, told = None, told' # None, told'.ok
  PROVE  /\ db # None
         /\ \A f \in Served : zonesFile[f] = db /\ versionFile[f].hash = db.hash
<1>1. Notify
  BY FilesChange
<1>2. pc = "exit" /\ rc = 0
  BY <1>1 DEF Notify, Report
<1>3. QED BY <1>2 DEF IInv, StepsOK, Written

(* Pruning one feed leaves the newest of every feed alone. *)
LEMMA HistoryStep ==
  ASSUME IInv, [Next]_vars, NEW f \in Feeds
  PROVE  /\ \A s \in Recent(f) : s \in snapshots'
         /\ status[f] = "retired" =>
              /\ zonesFile'[f] = zonesFile[f] /\ versionFile'[f] = versionFile[f]
              /\ \A s \in snapshots : s.feed = f => s \in snapshots'
<1>1. ASSUME NEW s \in snapshots, s \notin snapshots'
      PROVE  s.feed = Feed /\ s \notin Recent(Feed) /\ Writing
  <2>1. Prune
    BY <1>1, FilesChange
  <2>2. s \in Outdated(Feed) /\ Writing
    BY <1>1, <2>1 DEF Prune, Writing
  <2>3. s.feed = Feed
    BY <2>2 DEF Outdated, SnapshotGlob
  <2>4. Feed \in Nat
    BY <2>2, WritingFacts, PublicationAssumption
  <2>5. {t \in SnapshotGlob(Feed) : Newer(t, s)}
          = {t \in snapshots : t.feed = Feed /\ t.time > s.time}
    BY <2>3, <2>4 DEF SnapshotGlob, Newer
  <2>6. Cardinality({t \in snapshots : t.feed = Feed /\ t.time > s.time}) >= Retention
    BY <2>2, <2>5 DEF Outdated
  <2>7. Cardinality({t \in snapshots : t.feed = Feed /\ t.time > s.time}) \in Nat
    BY FS_Subset, FS_CardinalityType DEF IInv
  <2>8. QED BY <2>2, <2>3, <2>6, <2>7, PublicationAssumption DEF Recent
<1>2. ASSUME NEW s \in Recent(f) PROVE s \in snapshots'
  <2>1. s \in snapshots /\ s.feed = f
    BY DEF Recent
  <2>2. QED BY <1>1, <2>1
<1>3. status[f] = "retired" => f \notin Served
  BY DEF Served
<1>4. Writing => Feed \in Served
  BY WritingFacts
<1>5. zonesFile'[f] # zonesFile[f] \/ versionFile'[f] # versionFile[f]
        => Writing /\ f = Feed
  BY FilesChange DEF ReplaceZones, ReplaceVersion, Writing, IInv, TypeOK
<1>6. QED BY <1>1, <1>2, <1>3, <1>4, <1>5

LEMMA Invariance == Spec => []IInv
BY InitInv, StepInv, PTL DEF Spec

(* Every variable keeps its type. *)
THEOREM TypeCorrect == Spec => []TypeOK
<1>1. IInv => TypeOK
  BY DEF IInv
<1>2. QED BY Invariance, <1>1, PTL

(* Whatever is served on a feed has passed the guard of that feed. *)
THEOREM UsableAlways == Spec => []ServedIsUsable
<1>1. IInv => ServedIsUsable
  BY DEF IInv
<1>2. QED BY Invariance, <1>1, PTL

(* The feeds of the last complete publication go on serving its catalog, with
   the announcement that belongs to it, until the next one writes.         *)
THEOREM FeedsAgreeAlways == Spec => []FeedsAgree
<1>1. IInv => FeedsAgree
  BY DEF IInv
<1>2. QED BY Invariance, <1>1, PTL

(* One run takes at most three zones in ten from what a feed announces. *)
THEOREM NeverCollapses == Spec => NoCollapse
<1>1. IInv /\ [Next]_vars =>
        [\A f \in Feeds : Announced(f) =>
           10 * zonesFile'[f].count >= 7 * zonesFile[f].count]_vars
  BY CollapseStep
<1>2. QED BY Invariance, <1>1, PTL DEF Spec, NoCollapse

(* Nothing announced is overwritten before its snapshot is whole. *)
THEOREM NeverLosesContent == Spec => NothingLost
<1>1. IInv /\ [Next]_vars =>
        [\A f \in Feeds :
           Announced(f) /\ zonesFile'[f].hash # zonesFile[f].hash =>
             \E s \in snapshots :
               s.feed = f /\ s.whole /\ s.content = zonesFile[f]]_vars
  BY LostStep
<1>2. QED BY Invariance, <1>1, PTL DEF Spec, NothingLost

(* No run prunes what another feed, or a rollback, needs. *)
THEOREM KeepsHistory == Spec => HistoryKept
<1>1. IInv /\ [Next]_vars =>
        [\A f \in Feeds :
           /\ \A s \in Recent(f) : s \in snapshots'
           /\ status[f] = "retired" =>
                /\ zonesFile'[f] = zonesFile[f] /\ versionFile'[f] = versionFile[f]
                /\ \A s \in snapshots : s.feed = f => s \in snapshots']_vars
  BY HistoryStep
<1>2. QED BY Invariance, <1>1, PTL DEF Spec, HistoryKept

(* A success is reported only of what every served feed now serves. *)
THEOREM ReportsTruthfully == Spec => SuccessMeansPublished
<1>1. IInv /\ [Next]_vars =>
        [told = None /\ told' # None /\ told'.ok =>
           /\ db # None
           /\ \A f \in Served : zonesFile[f] = db /\ versionFile[f].hash = db.hash]_vars
  BY SuccessStep
<1>2. QED BY Invariance, <1>1, PTL DEF Spec, SuccessMeansPublished
=============================================================================
