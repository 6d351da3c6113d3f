------------------------ MODULE SocialSourcesProofs ------------------------
(***************************************************************************)
(* The safety properties of the shared social sources for any posts,        *)
(* contents, links, observers and compliance workers, by the inductive      *)
(* invariant SourcesInv.                                                    *)
(***************************************************************************)
EXTENDS SocialSources, SequenceTheorems, FiniteSetTheorems, TLAPS

(* A row of social_sources.                                                 *)
Sources == {NoSource} \cup [is : {"live", "removed"}, content : Contents]

(* A source has a revision from its first publication on, and finitely many.*)
RevisionsAreCounted ==
  \A p \in Posts : /\ IsFiniteSet(revisions[p])
                   /\ source[p].is = "none" <=> revisions[p] = {}

(* A post that is gone was gone once, and a worker holds the verdict that a *)
(* post is gone only when it was.                                           *)
EvidenceIsTrue ==
  /\ \A p \in Posts : shown[p] = None => p \in wasGone
  /\ \A k \in Checkers :
       check[k].at = "record" /\ check[k].verdict = "gone" => check[k].post \in wasGone

SourcesInv ==
  /\ TypeOK
  /\ RevisionsAreCounted /\ FactsTellTheLife
  /\ OneCommandPerArticle
  /\ EvidenceIsTrue /\ TakedownHasEvidence
  /\ ConsumedIsLinkedOnce

-----------------------------------------------------------------------------
(* The life of one source.                                                  *)

(* Appending a fact keeps the ones before it in their places.               *)
LEMMA Appended ==
  ASSUME NEW f \in Seq(Facts), NEW x \in Facts
  PROVE  /\ Append(f, x) \in Seq(Facts) /\ Len(f) \in Nat
         /\ Len(Append(f, x)) = Len(f) + 1
         /\ \A i \in 1..Len(f) : Append(f, x)[i] = f[i]
         /\ Append(f, x)[Len(f) + 1] = x
<1> HIDE DEF Facts
<1>1. Len(f) \in Nat
  BY LenProperties
<1> QED
  BY <1>1, AppendProperties

(* A revision with a digest the source does not have is told by one fact,   *)
(* captured for the first and updated for the others.                       *)
LEMMA RevisionTold ==
  ASSUME NEW f \in Seq(Facts), NEW revs \in SUBSET Contents, IsFiniteSet(revs),
         NEW s \in Sources, s.is # "removed", s.is = "none" <=> revs = {},
         TellsLife(f, revs, s), NEW c \in Contents, c \notin revs,
         NEW x \in Facts, x.content = c,
         x.kind = IF s.is = "none" THEN "captured" ELSE "updated"
  PROVE  TellsLife(Append(f, x), revs \cup {c}, [is |-> "live", content |-> c])
<1> DEFINE g == Append(f, x)
           n == Cardinality(revs)
           y == [is |-> "live", content |-> c]
<1>1. /\ n \in Nat /\ Cardinality(revs \cup {c}) = n + 1
      /\ (n = 0 <=> revs = {})
  BY FS_CardinalityType, FS_AddElement, FS_EmptySet
<1>2. /\ Len(f) = n
      /\ \A i \in 1..n : f[i].kind = IF i = 1 THEN "captured" ELSE "updated"
      /\ {f[i].content : i \in 1..n} = revs
  BY <1>1 DEF TellsLife
<1>3. /\ Len(g) = n + 1 /\ g[n + 1] = x
      /\ \A i \in 1..n : g[i] = f[i]
  BY <1>2, Appended
<1> HIDE DEF g, n
<1>4. \A i \in 1..(n + 1) : g[i].kind = IF i = 1 THEN "captured" ELSE "updated"
  <2> SUFFICES ASSUME NEW i \in 1..(n + 1)
               PROVE  g[i].kind = IF i = 1 THEN "captured" ELSE "updated"
    OBVIOUS
  <2>1. CASE i \in 1..n
    BY <1>2, <1>3, <2>1
  <2>2. CASE i = n + 1
    <3>1. i = 1 <=> s.is = "none"
      BY <1>1, <2>2
    <3> QED
      BY <1>3, <2>2, <3>1
  <2> QED
    BY <1>1, <2>1, <2>2
<1>5. {g[i].content : i \in 1..(n + 1)} = revs \cup {c}
  <2>1. 1..(n + 1) = (1..n) \cup {n + 1}
    BY <1>1
  <2>2. \A i \in 1..n : g[i].content = f[i].content
    BY <1>3
  <2>3. g[n + 1].content = c
    BY <1>3
  <2>4. ASSUME NEW e
        PROVE  (\E i \in 1..(n + 1) : e = g[i].content) <=> e \in revs \cup {c}
    <3>1. e \in revs <=> \E i \in 1..n : e = f[i].content
      BY <1>2
    <3>2. e \in revs <=> \E i \in 1..n : e = g[i].content
      BY <2>2, <3>1, Zenon
    <3>3. (\E i \in 1..(n + 1) : e = g[i].content)
            <=> (\E i \in 1..n : e = g[i].content) \/ e = g[n + 1].content
      BY <2>1, Zenon
    <3> QED
      BY <2>3, <3>2, <3>3, Zenon
  <2> QED
    BY <2>4
<1>6. y.is = "live" /\ y.content = c
  OBVIOUS
<1> HIDE DEF y
<1>7. PICK m \in Nat : m = n + 1 /\ m = Cardinality(revs \cup {c})
  BY <1>1
<1>8. /\ Len(g) = m + IF y.is = "removed" THEN 1 ELSE 0
      /\ \A i \in 1..Len(g) : g[i].kind = IF i = 1 THEN "captured"
                                           ELSE IF i <= m THEN "updated" ELSE "removed"
      /\ g[m].content = y.content
      /\ {g[i].content : i \in 1..m} = revs \cup {c}
  BY <1>3, <1>4, <1>5, <1>6, <1>7
<1>9. TellsLife(g, revs \cup {c}, y)
  BY <1>7, <1>8, Zenon DEF TellsLife
<1> QED
  BY <1>9 DEF g, y

(* A takedown of a live source is told last.                                *)
LEMMA RemovalTold ==
  ASSUME NEW f \in Seq(Facts), NEW revs \in SUBSET Contents, IsFiniteSet(revs), revs # {},
         NEW s \in Sources, s.is = "live", TellsLife(f, revs, s),
         NEW t \in Sources, t.is = "removed", t.content = s.content,
         NEW x \in Facts, x.kind = "removed"
  PROVE  TellsLife(Append(f, x), revs, t)
<1> DEFINE g == Append(f, x)
           n == Cardinality(revs)
<1>1. n \in Nat /\ n > 0
  BY FS_CardinalityType, FS_EmptySet
<1>2. /\ Len(f) = n /\ f[n].content = s.content
      /\ \A i \in 1..n : f[i].kind = IF i = 1 THEN "captured" ELSE "updated"
      /\ {f[i].content : i \in 1..n} = revs
  BY <1>1 DEF TellsLife
<1>3. /\ Len(g) = n + 1 /\ g[n + 1] = x
      /\ \A i \in 1..n : g[i] = f[i]
  BY <1>2, Appended
<1> HIDE DEF g, n
<1>4. \A i \in 1..(n + 1) :
        g[i].kind = IF i = 1 THEN "captured" ELSE IF i <= n THEN "updated" ELSE "removed"
  <2> SUFFICES ASSUME NEW i \in 1..(n + 1)
               PROVE  g[i].kind = IF i = 1 THEN "captured"
                                  ELSE IF i <= n THEN "updated" ELSE "removed"
    OBVIOUS
  <2>1. CASE i \in 1..n
    BY <1>1, <1>2, <1>3, <2>1
  <2>2. CASE i = n + 1
    BY <1>1, <1>3, <2>2
  <2> QED
    BY <1>1, <2>1, <2>2
<1>5. {g[i].content : i \in 1..n} = revs
  <2>1. \A i \in 1..n : g[i].content = f[i].content
    BY <1>3
  <2>2. ASSUME NEW e
        PROVE  (\E i \in 1..n : e = g[i].content) <=> e \in revs
    <3>1. e \in revs <=> \E i \in 1..n : e = f[i].content
      BY <1>2
    <3> QED
      BY <2>1, <3>1, Zenon
  <2> QED
    BY <2>2
<1>6. g[n].content = t.content
  BY <1>1, <1>2, <1>3
<1> QED
  BY <1>1, <1>3, <1>4, <1>5, <1>6 DEF TellsLife, g, n
-----------------------------------------------------------------------------
(* Types.                                                                   *)

(* What an observer or a worker holds while it is not idle.                 *)
LEMMA PageShape ==
  ASSUME TypeOK, NEW o \in Observers, page[o] # Idle
  PROVE  page[o].post \in Posts /\ page[o].content \in Contents
  BY DEF TypeOK, Pages

LEMMA CheckShape ==
  ASSUME TypeOK, NEW k \in Checkers
  PROVE  /\ check[k].at \in {"ask", "record"} => check[k].post \in Posts
         /\ check[k].at = "record" => check[k].verdict \in Verdicts
  BY DEF TypeOK, Checks, Idle

(* select_external_expanded_urls yields articles.                           *)
LEMMA LinksShape ==
  ASSUME NEW c \in Contents
  PROVE  LinksOf(c) \subseteq Links
  BY SourcesAssumption DEF LinksOf

LEMMA PublishTypes ==
  ASSUME TypeOK, NEW p \in Posts, NEW c \in Contents, PublishSource(p, c)
  PROVE  /\ source' \in [Posts -> Sources]
         /\ revisions' \in [Posts -> SUBSET Contents]
         /\ facts' \in [Posts -> Seq(Facts)]
         /\ article' \in [Links -> {"none", "requested", "completed"}]
         /\ links' \subseteq Posts \X Links
         /\ commands' \in [Links -> Nat]
<1>1. source' \in [Posts -> Sources]
  BY DEF PublishSource, TypeOK, Sources
<1>2. revisions' \in [Posts -> SUBSET Contents]
  BY DEF PublishSource, TypeOK
<1>3. facts' \in [Posts -> Seq(Facts)]
  <2> DEFINE x == [kind |-> IF source[p].is = "none" THEN "captured" ELSE "updated",
                   content |-> c]
  <2>1. x \in Facts
    BY DEF Facts
  <2>2. facts' = [facts EXCEPT ![p] = Append(@, x)]
    BY DEF PublishSource
  <2>3. facts[p] \in Seq(Facts)
    BY DEF TypeOK
  <2> HIDE DEF x
  <2>4. Append(facts[p], x) \in Seq(Facts)
    BY <2>1, <2>3, Appended
  <2> QED
    BY <2>2, <2>4 DEF TypeOK
<1>4. article' \in [Links -> {"none", "requested", "completed"}]
  BY DEF PublishSource, CaptureLinks, TypeOK
<1>5. links' \subseteq Posts \X Links
  <2>1. links' = links \cup ({p} \X LinksOf(c)) /\ links \subseteq Posts \X Links
    BY DEF PublishSource, CaptureLinks, TypeOK
  <2>2. {p} \X LinksOf(c) \subseteq Posts \X Links
    BY LinksShape
  <2> QED
    BY <2>1, <2>2
<1>6. commands' \in [Links -> Nat]
  <2>1. \A u \in Links : commands[u] \in Nat /\ commands[u] + 1 \in Nat
    BY DEF TypeOK
  <2> QED
    BY <2>1 DEF PublishSource, CaptureLinks
<1> QED
  BY <1>1, <1>2, <1>3, <1>4, <1>5, <1>6

LEMMA RemoveTypes ==
  ASSUME TypeOK, NEW p \in Posts, Removable(p), RemoveSource(p)
  PROVE  /\ source' \in [Posts -> Sources] /\ tombstones' \subseteq Posts
         /\ facts' \in [Posts -> Seq(Facts)]
<1>1. source[p] \in [is : {"live", "removed"}, content : Contents]
  BY DEF TypeOK, Removable, NoSource
<1>2. [source[p] EXCEPT !.is = "removed"] \in Sources
  BY <1>1 DEF Sources
<1>3. source' = [source EXCEPT ![p] = [source[p] EXCEPT !.is = "removed"]]
  BY DEF RemoveSource, TypeOK
<1>4. source' \in [Posts -> Sources]
  BY <1>2, <1>3 DEF TypeOK, Sources
<1>5. tombstones' \subseteq Posts
  BY DEF RemoveSource, TypeOK
<1>6. facts' \in [Posts -> Seq(Facts)]
  <2>1. [kind |-> "removed", content |-> None] \in Facts /\ facts[p] \in Seq(Facts)
    BY Zenon DEF Facts, TypeOK
  <2>2. Append(facts[p], [kind |-> "removed", content |-> None]) \in Seq(Facts)
    BY <2>1, Appended
  <2> QED
    BY <2>2 DEF RemoveSource, TypeOK
<1> QED
  BY <1>4, <1>5, <1>6

LEMMA StagePostTypes ==
  ASSUME TypeOK, NEW o \in Observers, StagePost(o)
  PROVE  TypeOK'
<1>1. PICK p \in Posts, c \in Contents : p = page[o].post /\ c = page[o].content
  BY PageShape DEF StagePost
<1>2. /\ observed' = [observed EXCEPT ![p] = c] /\ page' = [page EXCEPT ![o] = Idle]
      /\ UNCHANGED <<shown, edits, check, tombstones, inbox, analysed, wasGone>>
      /\ PublishSource(p, c) \/ UNCHANGED <<publication, articles>>
  BY <1>1 DEF StagePost
<1>3. /\ page' \in [Observers -> {Idle} \cup Pages]
      /\ observed' \in [Posts -> Contents \cup {None}]
  BY <1>2 DEF TypeOK
<1>4. CASE PublishSource(p, c)
  BY <1>2, <1>3, <1>4, PublishTypes, Zenon DEF TypeOK, Sources
<1>5. CASE UNCHANGED <<publication, articles>>
  BY <1>2, <1>3, <1>5 DEF TypeOK, publication, articles
<1> QED
  BY <1>2, <1>4, <1>5

LEMMA CheckTypes ==
  ASSUME TypeOK, NEW k \in Checkers,
         (\E p \in Posts : SelectDue(k, p)) \/ Revalidate(k) \/ StopCheck(k) \/ RecordResult(k)
  PROVE  TypeOK'
<1>1. check' \in [Checkers -> {Idle} \cup Checks]
  <2>1. CASE \E p \in Posts : SelectDue(k, p)
    BY <2>1 DEF SelectDue, TypeOK, Checks
  <2>2. CASE Revalidate(k)
    <3>1. PICK v \in Verdicts :
            check' = [check EXCEPT ![k] = [at |-> "record", post |-> check[k].post,
                                           verdict |-> v]]
      BY <2>2, Zenon DEF Revalidate, Verdicts
    <3>2. check[k].post \in Posts
      BY <2>2, CheckShape DEF Revalidate
    <3>3. [at |-> "record", post |-> check[k].post, verdict |-> v] \in Checks
      BY <3>2 DEF Checks
    <3> QED
      BY <3>1, <3>3 DEF TypeOK
  <2>3. CASE StopCheck(k) \/ RecordResult(k)
    BY <2>3, Zenon DEF StopCheck, RecordResult, TypeOK
  <2> QED
    BY <2>1, <2>2, <2>3
<1>2. UNCHANGED <<shown, edits, page, revisions, inbox, analysed, article, links, commands,
                  observed, wasGone>>
  BY DEF SelectDue, Revalidate, StopCheck, RecordResult, publication, articles
<1>3. source' \in [Posts -> Sources] /\ tombstones' \subseteq Posts
        /\ facts' \in [Posts -> Seq(Facts)]
  <2>1. CASE UNCHANGED <<source, tombstones, facts>>
    BY <2>1 DEF TypeOK, Sources
  <2>2. CASE RecordResult(k)
    <3>1. PICK p \in Posts : p = check[k].post
      BY <2>2, CheckShape DEF RecordResult
    <3> QED
      BY <2>1, <2>2, <3>1, RemoveTypes DEF RecordResult
  <2> QED
    BY <2>1, <2>2 DEF SelectDue, Revalidate, StopCheck, publication
<1> QED
  BY <1>1, <1>2, <1>3 DEF TypeOK, Sources

LEMMA TypesStep ==
  ASSUME TypeOK, [Next]_vars
  PROVE  TypeOK'
<1>1. ASSUME NEW p \in Posts, NEW c \in Contents \cup {None}, ProviderChanges(p, c)
      PROVE  TypeOK'
  <2>1. /\ shown' \in [Posts -> Contents \cup {None}] /\ wasGone' \subseteq Posts
    BY <1>1 DEF ProviderChanges, TypeOK
  <2>2. edits' \in 0..MaxEdits
    BY <1>1, SourcesAssumption DEF ProviderChanges, TypeOK
  <2> QED
    BY <1>1, <2>1, <2>2 DEF ProviderChanges, TypeOK, publication, articles
<1>2. ASSUME NEW o \in Observers, (\E p \in Posts : FetchPage(o, p)) \/ DropPage(o)
      PROVE  TypeOK'
  <2>1. page' \in [Observers -> {Idle} \cup Pages]
    <3>1. ASSUME NEW p \in Posts, FetchPage(o, p)
          PROVE  page' \in [Observers -> {Idle} \cup Pages]
      <4>1. shown[p] \in Contents
        BY <3>1 DEF FetchPage, TypeOK
      <4>2. [at |-> "page", post |-> p, content |-> shown[p]] \in Pages
        BY <4>1 DEF Pages
      <4> QED
        BY <3>1, <4>2 DEF FetchPage, TypeOK
    <3>2. CASE DropPage(o)
      BY <3>2 DEF DropPage, TypeOK
    <3> QED
      BY <1>2, <3>1, <3>2
  <2>2. UNCHANGED <<shown, edits, source, revisions, facts, check, tombstones, inbox, analysed,
                    article, links, commands, observed, wasGone>>
    BY <1>2 DEF FetchPage, DropPage, publication, articles
  <2> QED
    BY <2>1, <2>2 DEF TypeOK
<1>3. ASSUME NEW p \in Posts, NEW c \in Contents, NEW n \in Copies, ConsumeCompletion(p, c, n)
      PROVE  TypeOK'
  <2>1. <<p, c, n>> \in Posts \X Contents \X Copies
    BY SMT
  <2>2. inbox' \subseteq inbox \cup {<<p, c, n>>} /\ analysed' \subseteq analysed \cup {<<p, c, n>>}
    BY <1>3 DEF ConsumeCompletion, Admit, Link
  <2>3. /\ inbox' \subseteq Posts \X Contents \X Copies
        /\ analysed' \subseteq Posts \X Contents \X Copies
    BY <2>1, <2>2, Zenon DEF TypeOK
  <2> QED
    BY <1>3, <2>3 DEF ConsumeCompletion, TypeOK, publication, articles
<1>4. ASSUME NEW u \in Links, NEW report \in {"document", "failure"}, DeliverReport(u, report)
      PROVE  TypeOK'
  <2>1. article' \in [Links -> {"none", "requested", "completed"}]
    BY <1>4, Zenon DEF DeliverReport, ConsumeReport, CompleteCapture, TypeOK
  <2> QED
    BY <1>4, <2>1 DEF DeliverReport, TypeOK, publication
<1>5. CASE UNCHANGED vars
  BY <1>5 DEF vars, publication, articles, TypeOK
<1> QED
  BY <1>1, <1>2, <1>3, <1>4, <1>5, StagePostTypes, CheckTypes DEF Next
-----------------------------------------------------------------------------
(* The facts of every source.                                               *)

(* One source moves on and tells it; the others are left alone.             *)
LEMMA OneLifeMoves ==
  ASSUME TypeOK, RevisionsAreCounted, FactsTellTheLife, NEW p \in Posts,
         NEW f \in Seq(Facts), NEW revs \in SUBSET Contents, NEW s \in Sources,
         facts' = [facts EXCEPT ![p] = f], revisions' = [revisions EXCEPT ![p] = revs],
         source' = [source EXCEPT ![p] = s],
         IsFiniteSet(revs), revs # {}, s.is # "none", TellsLife(f, revs, s),
         tombstones' = IF s.is = "removed" THEN tombstones \cup {p} ELSE tombstones,
         s.is = "removed" \/ p \notin tombstones
  PROVE  RevisionsAreCounted' /\ FactsTellTheLife'
<1>1. /\ facts'[p] = f /\ revisions'[p] = revs /\ source'[p] = s
      /\ \A q \in Posts : q # p =>
           facts'[q] = facts[q] /\ revisions'[q] = revisions[q] /\ source'[q] = source[q]
  BY DEF TypeOK
<1>2. \A q \in Posts : q # p => (q \in tombstones' <=> q \in tombstones)
  OBVIOUS
<1>3. p \in tombstones' <=> s.is = "removed"
  OBVIOUS
<1>4. ASSUME NEW q \in Posts
      PROVE  /\ IsFiniteSet(revisions'[q]) /\ (source'[q].is = "none" <=> revisions'[q] = {})
             /\ TellsLife(facts'[q], revisions'[q], source'[q])
             /\ q \in tombstones' <=> source'[q].is = "removed"
  <2>1. CASE q = p
    BY <1>1, <1>3, <2>1
  <2>2. CASE q # p
    <3>1. /\ IsFiniteSet(revisions[q]) /\ (source[q].is = "none" <=> revisions[q] = {})
          /\ TellsLife(facts[q], revisions[q], source[q])
          /\ q \in tombstones <=> source[q].is = "removed"
      BY DEF RevisionsAreCounted, FactsTellTheLife
    <3> QED
      BY <1>1, <1>2, <2>2, <3>1
  <2> QED
    BY <2>1, <2>2
<1> QED
  BY <1>4, Zenon DEF RevisionsAreCounted, FactsTellTheLife

LEMMA PublishTells ==
  ASSUME TypeOK, RevisionsAreCounted, FactsTellTheLife, NEW p \in Posts, NEW c \in Contents,
         Publishes(p, c), ~Aborts(p, c), PublishSource(p, c), UNCHANGED tombstones
  PROVE  RevisionsAreCounted' /\ FactsTellTheLife'
<1>1. PICK s \in Sources : s = source[p]
  BY DEF TypeOK, Sources
<1>2. PICK revs \in SUBSET Contents : revs = revisions[p]
  BY DEF TypeOK
<1>3. PICK f \in Seq(Facts) : f = facts[p]
  BY DEF TypeOK
<1>4. PICK x \in Facts : x = [kind |-> IF s.is = "none" THEN "captured" ELSE "updated",
                              content |-> c]
  <2>1. PICK kind \in {"captured", "updated"} :
          kind = IF s.is = "none" THEN "captured" ELSE "updated"
    OBVIOUS
  <2>2. [kind |-> kind, content |-> c] \in Facts
    BY DEF Facts
  <2> QED
    BY <2>1, <2>2
<1>5. PICK t \in Sources : t = [is |-> "live", content |-> c]
  BY Zenon DEF Sources
<1>6. /\ facts' = [facts EXCEPT ![p] = Append(f, x)]
      /\ revisions' = [revisions EXCEPT ![p] = revs \cup {c}]
      /\ source' = [source EXCEPT ![p] = t]
  BY <1>1, <1>2, <1>3, <1>4, <1>5 DEF PublishSource
<1>7. /\ IsFiniteSet(revs) /\ (s.is = "none" <=> revs = {}) /\ TellsLife(f, revs, s)
      /\ s.is # "removed" /\ c \notin revs /\ p \notin tombstones
  BY <1>1, <1>2, <1>3 DEF RevisionsAreCounted, FactsTellTheLife, Publishes, Aborts
<1>8. x.content = c /\ x.kind = IF s.is = "none" THEN "captured" ELSE "updated"
  BY <1>4
<1>9. TellsLife(Append(f, x), revs \cup {c}, t)
  BY <1>5, <1>7, <1>8, RevisionTold
<1>10. Append(f, x) \in Seq(Facts) /\ t.is = "live"
  BY <1>5, Appended
<1>11. IsFiniteSet(revs \cup {c}) /\ revs \cup {c} # {}
  BY <1>7, FS_AddElement
<1>12. PICK g \in Seq(Facts) : g = Append(f, x)
  BY <1>10, Zenon
<1>13. PICK more \in SUBSET Contents : more = revs \cup {c}
  OBVIOUS
<1>14. /\ facts' = [facts EXCEPT ![p] = g] /\ revisions' = [revisions EXCEPT ![p] = more]
       /\ TellsLife(g, more, t) /\ IsFiniteSet(more) /\ more # {}
  BY <1>6, <1>9, <1>11, <1>12, <1>13
<1> QED
  BY <1>6, <1>7, <1>10, <1>14, OneLifeMoves, Zenon

LEMMA RemovalTells ==
  ASSUME TypeOK, RevisionsAreCounted, FactsTellTheLife, NEW p \in Posts,
         Removable(p), RemoveSource(p), UNCHANGED revisions
  PROVE  RevisionsAreCounted' /\ FactsTellTheLife'
<1>1. PICK s \in Sources : s = source[p]
  BY DEF TypeOK, Sources
<1>2. PICK revs \in SUBSET Contents : revs = revisions[p]
  BY DEF TypeOK
<1>3. PICK f \in Seq(Facts) : f = facts[p]
  BY DEF TypeOK
<1>4. PICK x \in Facts : x = [kind |-> "removed", content |-> None]
  BY Zenon DEF Facts
<1>5. s.is = "live" /\ s \in [is : {"live", "removed"}, content : Contents]
  BY <1>1 DEF Removable, Sources, NoSource
<1>6. PICK t \in Sources : t = [s EXCEPT !.is = "removed"]
  BY <1>5, Zenon DEF Sources
<1>7. t.is = "removed" /\ t.content = s.content /\ x.kind = "removed"
  BY <1>4, <1>5, <1>6
<1>8. /\ facts' = [facts EXCEPT ![p] = Append(f, x)]
      /\ source' = [source EXCEPT ![p] = t]
      /\ tombstones' = tombstones \cup {p}
  BY <1>1, <1>3, <1>4, <1>6 DEF RemoveSource
<1>9. revisions' = [revisions EXCEPT ![p] = revs]
  BY <1>2 DEF TypeOK
<1>10. IsFiniteSet(revs) /\ revs # {} /\ TellsLife(f, revs, s)
  BY <1>1, <1>2, <1>3, <1>5 DEF RevisionsAreCounted, FactsTellTheLife
<1>11. TellsLife(Append(f, x), revs, t)
  BY <1>5, <1>7, <1>10, RemovalTold
<1>12. PICK g \in Seq(Facts) : g = Append(f, x)
  BY Appended, Zenon
<1>13. facts' = [facts EXCEPT ![p] = g] /\ TellsLife(g, revs, t)
  BY <1>8, <1>11, <1>12
<1> QED
  BY <1>7, <1>8, <1>9, <1>10, <1>13, OneLifeMoves, Zenon

(* A page tells what it publishes, a takedown what it removes, and no other *)
(* step touches a source.                                                   *)
LEMMA LifeStep ==
  ASSUME TypeOK, RevisionsAreCounted, FactsTellTheLife, [Next]_vars
  PROVE  RevisionsAreCounted' /\ FactsTellTheLife'
<1>1. CASE UNCHANGED <<source, revisions, facts, tombstones>>
  BY <1>1, Zenon DEF RevisionsAreCounted, FactsTellTheLife
<1>2. ASSUME NEW o \in Observers, StagePost(o)
      PROVE  RevisionsAreCounted' /\ FactsTellTheLife'
  <2>1. PICK p \in Posts, c \in Contents : p = page[o].post /\ c = page[o].content
    BY <1>2, PageShape DEF StagePost
  <2>2. CASE Publishes(p, c) /\ ~Aborts(p, c)
    <3>1. PublishSource(p, c) /\ UNCHANGED tombstones
      BY <1>2, <2>1, <2>2 DEF StagePost
    <3> QED
      BY <2>2, <3>1, PublishTells
  <2>3. CASE ~(Publishes(p, c) /\ ~Aborts(p, c))
    BY <1>1, <1>2, <2>1, <2>3 DEF StagePost, publication
  <2> QED
    BY <2>2, <2>3
<1>3. ASSUME NEW k \in Checkers, RecordResult(k)
      PROVE  RevisionsAreCounted' /\ FactsTellTheLife'
  <2>1. PICK p \in Posts : p = check[k].post
    BY <1>3, CheckShape DEF RecordResult
  <2>2. CASE Gone(check[k].verdict) /\ Removable(p)
    <3>1. RemoveSource(p) /\ UNCHANGED revisions
      BY <1>3, <2>1, <2>2 DEF RecordResult
    <3> QED
      BY <2>2, <3>1, RemovalTells
  <2>3. CASE ~(Gone(check[k].verdict) /\ Removable(p))
    BY <1>1, <1>3, <2>1, <2>3 DEF RecordResult
  <2> QED
    BY <2>2, <2>3
<1>4. ASSUME NEW p \in Posts, NEW c \in Contents \cup {None}, ProviderChanges(p, c)
      PROVE  UNCHANGED <<source, revisions, facts, tombstones>>
  BY <1>4 DEF ProviderChanges, publication
<1>5. ASSUME NEW o \in Observers, (\E p \in Posts : FetchPage(o, p)) \/ DropPage(o)
      PROVE  UNCHANGED <<source, revisions, facts, tombstones>>
  BY <1>5 DEF FetchPage, DropPage, publication
<1>6. ASSUME NEW k \in Checkers,
             (\E p \in Posts : SelectDue(k, p)) \/ Revalidate(k) \/ StopCheck(k)
      PROVE  UNCHANGED <<source, revisions, facts, tombstones>>
  BY <1>6 DEF SelectDue, Revalidate, StopCheck, publication
<1>7. ASSUME NEW p \in Posts, NEW c \in Contents, NEW n \in Copies, ConsumeCompletion(p, c, n)
      PROVE  UNCHANGED <<source, revisions, facts, tombstones>>
  BY <1>7 DEF ConsumeCompletion, publication
<1>8. ASSUME NEW u \in Links, NEW report \in {"document", "failure"}, DeliverReport(u, report)
      PROVE  UNCHANGED <<source, revisions, facts, tombstones>>
  BY <1>8 DEF DeliverReport, publication
<1>9. CASE UNCHANGED vars
  BY <1>1, <1>9 DEF vars, publication
<1> QED
  BY <1>1, <1>2, <1>3, <1>4, <1>5, <1>6, <1>7, <1>8, <1>9 DEF Next
-----------------------------------------------------------------------------
(* The commands for the articles.                                           *)

(* A page requests the articles no post of the account has linked yet, and  *)
(* just those.                                                              *)
LEMMA PublishAsksOnce ==
  ASSUME TypeOK, OneCommandPerArticle, NEW p \in Posts, NEW c \in Contents, PublishSource(p, c)
  PROVE  OneCommandPerArticle'
<1>1. LinksOf(c) \subseteq Links
  BY LinksShape
<1>2. /\ links' = links \cup ({p} \X LinksOf(c))
      /\ revisions' = [revisions EXCEPT ![p] = @ \cup {c}]
      /\ \A u \in Links :
           /\ article'[u] = IF u \in New(c) THEN "requested" ELSE article[u]
           /\ commands'[u] = IF u \in New(c) THEN commands[u] + 1 ELSE commands[u]
  BY DEF PublishSource, CaptureLinks
<1>3. \A q \in Posts : \A d \in revisions'[q] : {q} \X LinksOf(d) \subseteq links'
  <2> SUFFICES ASSUME NEW q \in Posts, NEW d \in revisions'[q]
               PROVE  {q} \X LinksOf(d) \subseteq links'
    OBVIOUS
  <2>1. d \in revisions[q] \/ (q = p /\ d = c)
    BY <1>2 DEF TypeOK
  <2>2. CASE d \in revisions[q]
    <3>1. {q} \X LinksOf(d) \subseteq links
      BY <2>2 DEF OneCommandPerArticle
    <3> QED
      BY <1>2, <3>1
  <2>3. CASE q = p /\ d = c
    BY <1>2, <2>3
  <2> QED
    BY <2>1, <2>2, <2>3
<1>4. ASSUME NEW u \in Links
      PROVE  /\ commands'[u] = IF \E q \in Posts : <<q, u>> \in links' THEN 1 ELSE 0
             /\ article'[u] = "none" <=> commands'[u] = 0
  <2>1. /\ commands[u] = IF \E q \in Posts : <<q, u>> \in links THEN 1 ELSE 0
        /\ article[u] = "none" <=> commands[u] = 0
    BY DEF OneCommandPerArticle
  <2>2. (\E q \in Posts : <<q, u>> \in links')
          <=> (\E q \in Posts : <<q, u>> \in links) \/ u \in LinksOf(c)
    BY <1>2
  <2>3. u \in New(c) <=> u \in LinksOf(c) /\ article[u] = "none"
    BY DEF New
  <2>4. CASE u \in New(c)
    <3>1. article'[u] = "requested" /\ commands'[u] = commands[u] + 1
      BY <1>2, <2>4
    <3> QED
      BY <2>1, <2>2, <2>3, <2>4, <3>1
  <2>5. CASE u \notin New(c)
    <3>1. article'[u] = article[u] /\ commands'[u] = commands[u]
      BY <1>2, <2>5
    <3> QED
      BY <2>1, <2>2, <2>3, <2>5, <3>1
  <2> QED
    BY <2>4, <2>5
<1> QED
  BY <1>3, <1>4 DEF OneCommandPerArticle

LEMMA CommandsStep ==
  ASSUME TypeOK, OneCommandPerArticle, [Next]_vars
  PROVE  OneCommandPerArticle'
<1>1. CASE UNCHANGED <<revisions, article, links, commands>>
  BY <1>1, Zenon DEF OneCommandPerArticle
<1>2. ASSUME NEW o \in Observers, StagePost(o)
      PROVE  OneCommandPerArticle'
  <2>1. PICK p \in Posts, c \in Contents : p = page[o].post /\ c = page[o].content
    BY <1>2, PageShape DEF StagePost
  <2>2. PublishSource(p, c) \/ UNCHANGED <<publication, articles>>
    BY <1>2, <2>1 DEF StagePost
  <2> QED
    BY <1>1, <2>2, PublishAsksOnce DEF publication, articles
<1>3. ASSUME NEW u \in Links, NEW report \in {"document", "failure"}, DeliverReport(u, report)
      PROVE  OneCommandPerArticle'
  <2>1. UNCHANGED <<revisions, links, commands>>
    BY <1>3 DEF DeliverReport, publication
  <2>2. \A v \in Links : article'[v] = "none" <=> article[v] = "none"
    BY <1>3 DEF DeliverReport, ConsumeReport, CompleteCapture, TypeOK
  <2> QED
    BY <2>1, <2>2, Zenon DEF OneCommandPerArticle
<1>4. ASSUME NEW p \in Posts, NEW c \in Contents \cup {None}, ProviderChanges(p, c)
      PROVE  UNCHANGED <<revisions, article, links, commands>>
  BY <1>4 DEF ProviderChanges, publication, articles
<1>5. ASSUME NEW o \in Observers, (\E p \in Posts : FetchPage(o, p)) \/ DropPage(o)
      PROVE  UNCHANGED <<revisions, article, links, commands>>
  BY <1>5 DEF FetchPage, DropPage, publication, articles
<1>6. ASSUME NEW k \in Checkers, \/ \E p \in Posts : SelectDue(k, p)
                                 \/ Revalidate(k) \/ StopCheck(k) \/ RecordResult(k)
      PROVE  UNCHANGED <<revisions, article, links, commands>>
  BY <1>6 DEF SelectDue, Revalidate, StopCheck, RecordResult, publication, articles
<1>7. ASSUME NEW p \in Posts, NEW c \in Contents, NEW n \in Copies, ConsumeCompletion(p, c, n)
      PROVE  UNCHANGED <<revisions, article, links, commands>>
  BY <1>7 DEF ConsumeCompletion, publication, articles
<1>8. CASE UNCHANGED vars
  BY <1>1, <1>8 DEF vars, publication, articles
<1> QED
  BY <1>1, <1>2, <1>3, <1>4, <1>5, <1>6, <1>7, <1>8 DEF Next

-----------------------------------------------------------------------------
(* The evidence of a takedown.                                              *)

LEMMA EvidenceStep ==
  ASSUME TypeOK, EvidenceIsTrue, TakedownHasEvidence, [Next]_vars
  PROVE  EvidenceIsTrue' /\ TakedownHasEvidence'
<1>1. CASE UNCHANGED <<shown, check, tombstones, wasGone>>
  BY <1>1, Zenon DEF EvidenceIsTrue, TakedownHasEvidence
<1>2. ASSUME NEW p \in Posts, NEW c \in Contents \cup {None}, ProviderChanges(p, c)
      PROVE  EvidenceIsTrue' /\ TakedownHasEvidence'
  <2>1. /\ wasGone \subseteq wasGone' /\ (c = None => p \in wasGone')
        /\ UNCHANGED <<check, tombstones>>
    BY <1>2 DEF ProviderChanges
  <2>2. \A q \in Posts : shown'[q] = IF q = p THEN c ELSE shown[q]
    BY <1>2 DEF ProviderChanges, TypeOK
  <2>3. \A q \in Posts : shown'[q] = None => q \in wasGone'
    BY <2>1, <2>2 DEF EvidenceIsTrue
  <2> QED
    BY <2>1, <2>3 DEF EvidenceIsTrue, TakedownHasEvidence
<1>3. ASSUME NEW k \in Checkers, NEW x, check' = [check EXCEPT ![k] = x],
             x.at = "record" /\ x.verdict = "gone" => x.post \in wasGone,
             UNCHANGED <<shown, wasGone>>
      PROVE  EvidenceIsTrue'
  <2>1. \A j \in Checkers : check'[j] = IF j = k THEN x ELSE check[j]
    BY <1>3 DEF TypeOK
  <2>2. ASSUME NEW j \in Checkers, check'[j].at = "record", check'[j].verdict = "gone"
        PROVE  check'[j].post \in wasGone'
    BY <1>3, <2>1, <2>2 DEF EvidenceIsTrue
  <2> QED
    BY <1>3, <2>2 DEF EvidenceIsTrue
<1>4. Idle.at # "record"
  BY DEF Idle
<1>5. ASSUME NEW k \in Checkers, NEW p \in Posts, SelectDue(k, p)
      PROVE  EvidenceIsTrue' /\ TakedownHasEvidence'
  <2>1. [at |-> "ask", post |-> p].at # "record"
    OBVIOUS
  <2>2. EvidenceIsTrue'
    BY <1>3, <1>5, <2>1, Zenon DEF SelectDue
  <2> QED
    BY <1>5, <2>2 DEF SelectDue, TakedownHasEvidence
<1>6. ASSUME NEW k \in Checkers, Revalidate(k)
      PROVE  EvidenceIsTrue' /\ TakedownHasEvidence'
  <2>1. PICK p \in Posts : p = check[k].post
    BY <1>6, CheckShape DEF Revalidate
  <2>2. PICK v : /\ v \in {IF shown[p] = None THEN "gone" ELSE "available", "indeterminate"}
                 /\ check' = [check EXCEPT ![k] = [at |-> "record", post |-> p, verdict |-> v]]
    BY <1>6, <2>1, Zenon DEF Revalidate
  <2>3. PICK x : x = [at |-> "record", post |-> p, verdict |-> v]
    OBVIOUS
  <2>4. x.post = p /\ x.verdict = v /\ check' = [check EXCEPT ![k] = x]
    BY <2>2, <2>3
  <2>5. v = "gone" => p \in wasGone
    BY <2>2 DEF EvidenceIsTrue
  <2>6. UNCHANGED <<shown, wasGone, tombstones>>
    BY <1>6 DEF Revalidate
  <2>7. EvidenceIsTrue'
    BY <1>3, <2>4, <2>5, <2>6, Zenon
  <2> QED
    BY <2>6, <2>7 DEF TakedownHasEvidence
<1>7. ASSUME NEW k \in Checkers, StopCheck(k)
      PROVE  EvidenceIsTrue' /\ TakedownHasEvidence'
  <2>1. EvidenceIsTrue'
    BY <1>3, <1>4, <1>7, Zenon DEF StopCheck
  <2> QED
    BY <1>7, <2>1 DEF StopCheck, TakedownHasEvidence
<1>8. ASSUME NEW k \in Checkers, RecordResult(k)
      PROVE  EvidenceIsTrue' /\ TakedownHasEvidence'
  <2>1. EvidenceIsTrue' /\ UNCHANGED wasGone
    BY <1>3, <1>4, <1>8, ZenonT(30) DEF RecordResult
  <2>2. tombstones' \subseteq tombstones \cup
          (IF Gone(check[k].verdict) THEN {check[k].post} ELSE {})
    BY <1>8 DEF RecordResult, RemoveSource
  <2>3. Gone(check[k].verdict) => check[k].post \in wasGone
    BY <1>8 DEF RecordResult, Gone, EvidenceIsTrue
  <2>4. tombstones' \subseteq wasGone
    BY <2>2, <2>3 DEF TakedownHasEvidence
  <2> QED
    BY <2>1, <2>4 DEF TakedownHasEvidence
<1>9. ASSUME NEW o \in Observers,
             (\E p \in Posts : FetchPage(o, p)) \/ DropPage(o) \/ StagePost(o)
      PROVE  UNCHANGED <<shown, check, tombstones, wasGone>>
  BY <1>9 DEF FetchPage, DropPage, StagePost
<1>10. ASSUME NEW p \in Posts, NEW c \in Contents, NEW n \in Copies, ConsumeCompletion(p, c, n)
       PROVE  UNCHANGED <<shown, check, tombstones, wasGone>>
  BY <1>10 DEF ConsumeCompletion
<1>11. ASSUME NEW u \in Links, NEW report \in {"document", "failure"}, DeliverReport(u, report)
       PROVE  UNCHANGED <<shown, check, tombstones, wasGone>>
  BY <1>11 DEF DeliverReport
<1>12. CASE UNCHANGED vars
  BY <1>1, <1>12 DEF vars
<1> QED
  BY <1>1, <1>2, <1>5, <1>6, <1>7, <1>8, <1>9, <1>10, <1>11, <1>12 DEF Next

-----------------------------------------------------------------------------
(* The completions of Knowledge.                                            *)

LEMMA LinkedStep ==
  ASSUME TypeOK, ConsumedIsLinkedOnce, [Next]_vars
  PROVE  ConsumedIsLinkedOnce'
<1>1. ASSUME UNCHANGED <<inbox, analysed>>, \A p \in Posts : revisions[p] \subseteq revisions'[p]
      PROVE  ConsumedIsLinkedOnce'
  BY <1>1, Zenon DEF ConsumedIsLinkedOnce, Analysed
<1>2. ASSUME NEW o \in Observers, StagePost(o)
      PROVE  ConsumedIsLinkedOnce'
  <2>1. PICK p, c : revisions' = revisions \/ revisions' = [revisions EXCEPT ![p] = @ \cup {c}]
    BY <1>2, Zenon DEF StagePost, PublishSource, publication
  <2>2. \A q \in Posts : revisions[q] \subseteq revisions'[q]
    BY <2>1 DEF TypeOK
  <2> QED
    BY <1>1, <1>2, <2>2, Zenon DEF StagePost
<1>3. ASSUME NEW p \in Posts, NEW c \in Contents, NEW n \in Copies, ConsumeCompletion(p, c, n)
      PROVE  ConsumedIsLinkedOnce'
  <2>1. revisions' = revisions /\ Admit(p, c, n)
    BY <1>3 DEF ConsumeCompletion, publication
  <2>2. CASE ~Linkable(p, c)
    BY <1>1, <2>1, <2>2 DEF Admit
  <2>3. CASE Linkable(p, c)
    <3>1. inbox' = inbox \cup {<<p, c, n>>} /\ c \in revisions[p]
      BY <2>1, <2>3 DEF Admit, Linkable
    <3>2. ASSUME NEW q \in Posts, NEW d \in Contents, NEW m \in Copies
          PROVE  <<q, d, m>> = <<p, c, n>> <=> q = p /\ d = c /\ m = n
      OBVIOUS
    <3>3. CASE analysed' = analysed /\ Analysed(p, c)
      <4>1. \A q \in Posts, d \in Contents : Analysed(q, d)' <=> Analysed(q, d)
        BY <3>3, Zenon DEF Analysed
      <4> QED
        BY <2>1, <3>1, <3>2, <3>3, <4>1, Zenon DEF ConsumedIsLinkedOnce
    <3>4. CASE analysed' = analysed \cup {<<p, c, n>>} /\ ~Analysed(p, c)
      <4>1. \A q \in Posts, d \in Contents : Analysed(q, d)' <=> Analysed(q, d) \/ (q = p /\ d = c)
        BY <3>2, <3>4, Zenon DEF Analysed
      <4>2. ASSUME NEW q \in Posts, NEW d \in Contents, NEW m \in Copies,
                   <<q, d, m>> \in inbox'
            PROVE  Analysed(q, d)'
        BY <3>1, <3>2, <4>1, <4>2, Zenon DEF ConsumedIsLinkedOnce
      <4>3. ASSUME NEW q \in Posts, NEW d \in Contents, NEW l \in Copies, NEW m \in Copies,
                   <<q, d, l>> \in analysed', <<q, d, m>> \in analysed'
            PROVE  l = m
        <5>1. <<q, d, l>> \in analysed \/ (q = p /\ d = c /\ l = n)
          BY <3>2, <3>4, <4>3, Zenon
        <5>2. <<q, d, m>> \in analysed \/ (q = p /\ d = c /\ m = n)
          BY <3>2, <3>4, <4>3, Zenon
        <5> QED
          BY <3>4, <5>1, <5>2, Zenon DEF ConsumedIsLinkedOnce, Analysed
      <4>4. analysed' \subseteq inbox'
        BY <3>1, <3>4, Zenon DEF ConsumedIsLinkedOnce
      <4>5. \A q \in Posts, d \in Contents : Analysed(q, d)' => d \in revisions'[q]
        BY <2>1, <3>1, <4>1, Zenon DEF ConsumedIsLinkedOnce
      <4> QED
        BY <4>2, <4>3, <4>4, <4>5, Zenon DEF ConsumedIsLinkedOnce
    <3>5. <<p, c, n>> \in inbox => Analysed(p, c)
      BY Zenon DEF ConsumedIsLinkedOnce
    <3> QED
      BY <2>1, <2>3, <3>3, <3>4, <3>5, Zenon DEF Admit, Link
  <2> QED
    BY <2>2, <2>3
<1>4. ASSUME NEW p \in Posts, NEW c \in Contents \cup {None}, ProviderChanges(p, c)
      PROVE  UNCHANGED <<inbox, analysed, revisions>>
  BY <1>4 DEF ProviderChanges, publication
<1>5. ASSUME NEW o \in Observers, (\E p \in Posts : FetchPage(o, p)) \/ DropPage(o)
      PROVE  UNCHANGED <<inbox, analysed, revisions>>
  BY <1>5 DEF FetchPage, DropPage, publication
<1>6. ASSUME NEW k \in Checkers,
             (\E p \in Posts : SelectDue(k, p)) \/ Revalidate(k) \/ RecordResult(k) \/ StopCheck(k)
      PROVE  UNCHANGED <<inbox, analysed, revisions>>
  BY <1>6 DEF SelectDue, Revalidate, RecordResult, StopCheck, publication
<1>7. ASSUME NEW u \in Links, NEW report \in {"document", "failure"}, DeliverReport(u, report)
      PROVE  UNCHANGED <<inbox, analysed, revisions>>
  BY <1>7 DEF DeliverReport, publication
<1>8. CASE UNCHANGED vars
  BY <1>1, <1>8 DEF vars, publication
<1> QED
  BY <1>1, <1>2, <1>3, <1>4, <1>5, <1>6, <1>7, <1>8 DEF Next

-----------------------------------------------------------------------------
(* Results.                                                                 *)

LEMMA SourcesStart ==
  ASSUME Init
  PROVE  SourcesInv
<1>1. TypeOK
  BY SourcesAssumption DEF Init, TypeOK
<1>2. RevisionsAreCounted
  BY FS_EmptySet DEF Init, RevisionsAreCounted, NoSource
<1>3. FactsTellTheLife
  <2>1. Cardinality({}) = 0
    BY FS_EmptySet
  <2>2. NoSource.is = "none"
    BY DEF NoSource
  <2>3. TellsLife(<<>>, {}, NoSource)
    BY <2>1, <2>2 DEF TellsLife
  <2>4. \A p \in Posts : facts[p] = <<>> /\ revisions[p] = {} /\ source[p] = NoSource
    BY DEF Init
  <2> QED
    BY <2>2, <2>3, <2>4 DEF Init, FactsTellTheLife
<1>4. OneCommandPerArticle
  BY DEF Init, OneCommandPerArticle
<1>5. EvidenceIsTrue /\ TakedownHasEvidence
  BY SourcesAssumption DEF Init, EvidenceIsTrue, TakedownHasEvidence, Idle
<1>6. ConsumedIsLinkedOnce
  BY DEF Init, ConsumedIsLinkedOnce, Analysed
<1> QED
  BY <1>1, <1>2, <1>3, <1>4, <1>5, <1>6 DEF SourcesInv

(* SourcesInv is inductive: however pages, takedowns and late reports       *)
(* interleave, the source rows, their facts, the commands, the evidence of  *)
(* the workers and the links of Knowledge's analyses agree.                 *)
THEOREM SourcesInductive == Spec => []SourcesInv
<1>1. SourcesInv /\ [Next]_vars => SourcesInv'
  BY TypesStep, LifeStep, CommandsStep, EvidenceStep, LinkedStep DEF SourcesInv
<1> QED
  BY <1>1, SourcesStart, PTL DEF Spec

(* Captured, updated once for every further revision, removed last: a page  *)
(* read before a takedown and published after it adds no fact, for any      *)
(* number of observers and workers (publish_source, remove_source).         *)
THEOREM LivesAreTold == Spec => []FactsTellTheLife
<1>1. SourcesInv => FactsTellTheLife
  BY DEF SourcesInv
<1> QED
  BY <1>1, SourcesInductive, PTL

(* The Extractor is asked once for an article, however many posts and       *)
(* revisions carry its URL (capture_expanded_links_in_transaction).         *)
THEOREM ArticlesAreAskedOnce == Spec => []OneCommandPerArticle
<1>1. SourcesInv => OneCommandPerArticle
  BY DEF SourcesInv
<1> QED
  BY <1>1, SourcesInductive, PTL

(* No source is taken down that was never gone at the provider, however     *)
(* long a worker holds its verdict (run_due, record_result).                *)
THEOREM TakedownsHaveEvidence == Spec => []TakedownHasEvidence
<1>1. SourcesInv => TakedownHasEvidence
  BY DEF SourcesInv
<1> QED
  BY <1>1, SourcesInductive, PTL

(* However often and in whatever order Knowledge's events for a revision    *)
(* come, before or after the takedown of its source, each event in the      *)
(* inbox left its revision with exactly one link (consume_completion).      *)
THEOREM CompletionsLinkOnce == Spec => []ConsumedIsLinkedOnce
<1>1. SourcesInv => ConsumedIsLinkedOnce
  BY DEF SourcesInv
<1> QED
  BY <1>1, SourcesInductive, PTL
=============================================================================
