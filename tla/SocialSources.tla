--------------------------- MODULE SocialSources ---------------------------
(***************************************************************************)
(* The bookmarked posts of one account as shared social sources: what a     *)
(* staged or scanned page publishes (crates/x-sync/src/social_sources.rs    *)
(* and articles.rs), what the compliance worker takes down (compliance.rs), *)
(* and the facts that come back from Knowledge (knowledge.rs) and from the  *)
(* Extractor (articles.rs, services/x/src/extractor_reports.rs), delivered  *)
(* late and more than once.                                                 *)
(*                                                                          *)
(* The content of a post is everything its digest covers.  The page         *)
(* transaction updates the post row before it reads the source and the      *)
(* takedown transaction updates the same row before it removes the source,  *)
(* so the row lock orders the two and each is one step here.                *)
(***************************************************************************)
EXTENDS Integers, Sequences, FiniteSets

CONSTANTS
  Posts,      \* posts the account bookmarked
  Contents,   \* what a post can say
  Links,      \* external articles, by normalized URL
  UrlsOf,     \* the expanded URLs of each content
  UrlFor,     \* normalize_external_url: the article a URL names, or None
  Observers,  \* tasks that stage or scan a page with a post
  Checkers,   \* compliance workers
  Copies,     \* completion events Knowledge may send for one revision
  None,       \* no content
  MaxEdits    \* bound: how often the provider's posts change

ASSUME SourcesAssumption ==
  /\ DOMAIN UrlsOf = Contents
  /\ \A c \in Contents : \A raw \in UrlsOf[c] : UrlFor[raw] \in Links \cup {None}
  /\ None \notin Contents \cup Links
  /\ MaxEdits \in Nat

VARIABLES
  shown,     \* the provider: what each post says, None when it is gone
  edits,     \* changes of the provider's posts so far
  page,      \* the post each observer has read and not yet published
  source,    \* x_archive.social_sources
  revisions, \* x_archive.social_source_revisions
  facts,     \* the social.source facts queued for each source, in order
  check,     \* the candidate of each compliance worker and its evidence
  tombstones,\* x_archive.tombstones
  inbox,     \* x_archive.inbox_events: consumed Knowledge events
  analysed,  \* x_archive.knowledge_analysis_links
  article,   \* x_archive.article_captures
  links,     \* x_archive.post_article_links
  commands,  \* content.capture.requested commands queued for each article
  observed,  \* history: the content last observed of each post
  wasGone    \* history: posts that were ever gone at the provider

publication == <<source, revisions, facts>>
articles == <<article, links, commands>>
vars == <<shown, edits, page, publication, check, tombstones, inbox, analysed,
          articles, observed, wasGone>>

-----------------------------------------------------------------------------
Idle == [at |-> "idle"]
NoSource == [is |-> "none", content |-> None]
Pages == [at : {"page"}, post : Posts, content : Contents]
Verdicts == {"available", "gone", "indeterminate"}
Checks == [at : {"ask"}, post : Posts] \cup [at : {"record"}, post : Posts, verdict : Verdicts]
Facts == [kind : {"captured", "updated", "removed"}, content : Contents \cup {None}]

TypeOK ==
  /\ shown \in [Posts -> Contents \cup {None}] /\ edits \in 0..MaxEdits
  /\ page \in [Observers -> {Idle} \cup Pages]
  /\ source \in [Posts -> {NoSource} \cup [is : {"live", "removed"}, content : Contents]]
  /\ revisions \in [Posts -> SUBSET Contents]
  /\ facts \in [Posts -> Seq(Facts)]
  /\ check \in [Checkers -> {Idle} \cup Checks]
  /\ tombstones \subseteq Posts
  /\ inbox \subseteq Posts \X Contents \X Copies
  /\ analysed \subseteq Posts \X Contents \X Copies
  /\ article \in [Links -> {"none", "requested", "completed"}]
  /\ links \subseteq Posts \X Links
  /\ commands \in [Links -> Nat]
  /\ observed \in [Posts -> Contents \cup {None}] /\ wasGone \subseteq Posts

Init ==
  /\ shown \in [Posts -> Contents] /\ edits = 0
  /\ page = [o \in Observers |-> Idle]
  /\ source = [p \in Posts |-> NoSource]
  /\ revisions = [p \in Posts |-> {}]
  /\ facts = [p \in Posts |-> <<>>]
  /\ check = [k \in Checkers |-> Idle]
  /\ tombstones = {} /\ inbox = {} /\ analysed = {} /\ links = {}
  /\ article = [u \in Links |-> "none"]
  /\ commands = [u \in Links |-> 0]
  /\ observed = [p \in Posts |-> None] /\ wasGone = {}

-----------------------------------------------------------------------------
(* A post is edited, deleted, protected or restored at the provider.        *)
ProviderChanges(p, c) ==
  /\ edits < MaxEdits
  /\ shown[p] # c
  /\ edits' = edits + 1
  /\ shown' = [shown EXCEPT ![p] = c]
  /\ wasGone' = IF c = None THEN wasGone \cup {p} ELSE wasGone
  /\ UNCHANGED <<page, publication, check, tombstones, inbox, analysed, articles, observed>>

(* A page with the post is fetched; it is published later.                  *)
FetchPage(o, p) ==
  /\ page[o] = Idle
  /\ shown[p] # None
  /\ page' = [page EXCEPT ![o] = [at |-> "page", post |-> p, content |-> shown[p]]]
  /\ UNCHANGED <<shown, edits, publication, check, tombstones, inbox, analysed,
                 articles, observed, wasGone>>

(* select_external_expanded_urls: URLs that are not external articles are   *)
(* left out, and those that normalize to the same article are one.          *)
LinksOf(c) == {UrlFor[raw] : raw \in UrlsOf[c]} \ {None}

(* capture_expanded_links_in_transaction: one capture and one command for   *)
(* an account's URL, one link for every post that carries it.               *)
EveryLink(c) == LinksOf(c)
New(c) == {u \in LinksOf(c) : article[u] = "none"}

CaptureLinks(p, c) ==
  /\ article' = [u \in Links |-> IF u \in New(c) THEN "requested" ELSE article[u]]
  /\ commands' = [u \in Links |-> IF u \in New(c) THEN commands[u] + 1 ELSE commands[u]]
  /\ links' = links \cup ({p} \X LinksOf(c))

(* publish_source returns early for a removed source and for a digest that  *)
(* is the current one.                                                      *)
Publishes(p, c) == source[p].is # "removed" /\ source[p].content # c

(* A source keeps each digest once: the insert of a revision that it        *)
(* already has fails, and the page with it.                                 *)
Aborts(p, c) == Publishes(p, c) /\ c \in revisions[p]

PublishSource(p, c) ==
  /\ source' = [source EXCEPT ![p] = [is |-> "live", content |-> c]]
  /\ revisions' = [revisions EXCEPT ![p] = @ \cup {c}]
  /\ facts' = [facts EXCEPT ![p] = Append(@,
       [kind |-> IF source[p].is = "none" THEN "captured" ELSE "updated", content |-> c])]
  /\ CaptureLinks(p, c)

StagePost(o) ==
  LET p == page[o].post
      c == page[o].content
  IN /\ page[o] # Idle
     /\ IF Publishes(p, c) /\ ~Aborts(p, c) THEN PublishSource(p, c)
        ELSE UNCHANGED <<publication, articles>>
     /\ observed' = [observed EXCEPT ![p] = c]
     /\ page' = [page EXCEPT ![o] = Idle]
     /\ UNCHANGED <<shown, edits, check, tombstones, inbox, analysed, wasGone>>

(* The task of an observer ends before the page is committed.               *)
DropPage(o) ==
  /\ page[o] # Idle
  /\ page' = [page EXCEPT ![o] = Idle]
  /\ UNCHANGED <<shown, edits, publication, check, tombstones, inbox, analysed,
                 articles, observed, wasGone>>

-----------------------------------------------------------------------------
(* run_due: unremoved sources are selected, each is asked for at the        *)
(* provider, and its evidence recorded in a transaction of its own.         *)
SelectDue(k, p) ==
  /\ check[k] = Idle
  /\ source[p].is = "live"
  /\ check' = [check EXCEPT ![k] = [at |-> "ask", post |-> p]]
  /\ UNCHANGED <<shown, edits, page, publication, tombstones, inbox, analysed,
                 articles, observed, wasGone>>

Revalidate(k) ==
  /\ check[k].at = "ask"
  /\ LET p == check[k].post
         truth == IF shown[p] = None THEN "gone" ELSE "available"
     IN \E v \in {truth, "indeterminate"} :
          check' = [check EXCEPT ![k] = [at |-> "record", post |-> p, verdict |-> v]]
  /\ UNCHANGED <<shown, edits, page, publication, tombstones, inbox, analysed,
                 articles, observed, wasGone>>

(* remove_source acts on a source that is not removed.                      *)
RemovableAlways(p) == source[p].is # "none"
Removable(p) == source[p].is = "live"

(* An indeterminate result has no takedown authority.                       *)
GoneUnlessAvailable(v) == v # "available"
Gone(v) == v = "gone"

RemoveSource(p) ==
  /\ source' = [source EXCEPT ![p].is = "removed"]
  /\ tombstones' = tombstones \cup {p}
  /\ facts' = [facts EXCEPT ![p] = Append(@, [kind |-> "removed", content |-> None])]

RecordResult(k) ==
  /\ check[k].at = "record"
  /\ IF Gone(check[k].verdict) /\ Removable(check[k].post)
     THEN RemoveSource(check[k].post)
     ELSE UNCHANGED <<source, tombstones, facts>>
  /\ check' = [check EXCEPT ![k] = Idle]
  /\ UNCHANGED <<shown, edits, page, revisions, inbox, analysed, articles, observed,
                 wasGone>>

(* The budget refuses the call, or the worker dies before it recorded.      *)
StopCheck(k) ==
  /\ check[k] # Idle
  /\ check' = [check EXCEPT ![k] = Idle]
  /\ UNCHANGED <<shown, edits, page, publication, tombstones, inbox, analysed,
                 articles, observed, wasGone>>

-----------------------------------------------------------------------------
(* consume_completion: Knowledge analysed a revision it was sent.  The      *)
(* event may come late, again, or as another event for the same revision.   *)
Linkable(p, c) == c \in revisions[p] /\ source[p].is = "live"

Analysed(p, c) == \E n \in Copies : <<p, c, n>> \in analysed

(* An event that is in the inbox already, or whose revision has its link,   *)
(* adds none.                                                               *)
Link(p, c, n) ==
  analysed' = IF <<p, c, n>> \in inbox \/ Analysed(p, c) THEN analysed
              ELSE analysed \cup {<<p, c, n>>}

ClaimBeforeCheck(p, c, n) ==
  /\ inbox' = inbox \cup {<<p, c, n>>}
  /\ IF Linkable(p, c) THEN Link(p, c, n) ELSE UNCHANGED analysed

(* The transaction checks the source before it claims the event.            *)
Admit(p, c, n) ==
  IF Linkable(p, c) THEN inbox' = inbox \cup {<<p, c, n>>} /\ Link(p, c, n)
  ELSE UNCHANGED <<inbox, analysed>>

ConsumeCompletion(p, c, n) ==
  /\ \E i \in 1..Len(facts[p]) : facts[p][i].content = c
  /\ Admit(p, c, n)
  /\ UNCHANGED <<shown, edits, page, publication, check, tombstones, articles, observed,
                 wasGone>>

(* decode_extractor_outcome: only a success with a document is an outcome.  *)
Decodes(report) == report = "document"

(* complete_capture.                                                        *)
CompleteCapture(u) ==
  article' = [article EXCEPT ![u] = IF @ = "requested" THEN "completed" ELSE @]

(* consume_extractor_operation_report: any other report is invalid, and so  *)
(* is a second success, whose claim of the inbox is rolled back.            *)
ConsumeReport(u, report) ==
  IF Decodes(report) THEN CompleteCapture(u) ELSE UNCHANGED article

(* The consumer of the Extractor's reports settles each with Ack, applied   *)
(* or not; after a failure of the database it is delivered again, as it may *)
(* be at any time.                                                          *)
DeliverReport(u, report) ==
  /\ commands[u] > 0
  /\ ConsumeReport(u, report)
  /\ UNCHANGED <<shown, edits, page, publication, check, tombstones, inbox, analysed,
                 links, commands, observed, wasGone>>

Next ==
  \/ \E p \in Posts, c \in Contents \cup {None} : ProviderChanges(p, c)
  \/ \E o \in Observers, p \in Posts : FetchPage(o, p)
  \/ \E o \in Observers : StagePost(o) \/ DropPage(o)
  \/ \E k \in Checkers, p \in Posts : SelectDue(k, p)
  \/ \E k \in Checkers : Revalidate(k) \/ RecordResult(k) \/ StopCheck(k)
  \/ \E p \in Posts, c \in Contents, n \in Copies : ConsumeCompletion(p, c, n)
  \/ \E u \in Links, report \in {"document", "failure"} : DeliverReport(u, report)

Spec == Init /\ [][Next]_vars

-----------------------------------------------------------------------------
(* The facts f tell the life of the source s with its revisions.            *)
TellsLife(f, revs, s) ==
  LET n == Cardinality(revs)
  IN /\ Len(f) = n + IF s.is = "removed" THEN 1 ELSE 0
     /\ \A i \in 1..Len(f) :
          f[i].kind = IF i = 1 THEN "captured" ELSE IF i <= n THEN "updated" ELSE "removed"
     /\ n > 0 => f[n].content = s.content
     /\ {f[i].content : i \in 1..n} = revs

(* The facts of a source tell its life: captured first, then one updated    *)
(* for every further revision, and removed last, if at all, with the        *)
(* tombstone; a page read before a takedown and published after it adds     *)
(* nothing (publish_source, remove_source and the post row that orders      *)
(* them).                                                                   *)
FactsTellTheLife ==
  \A p \in Posts : /\ TellsLife(facts[p], revisions[p], source[p])
                   /\ p \in tombstones <=> source[p].is = "removed"

(* Every link of every published revision leads to its article capture,     *)
(* and the account asked the Extractor for it exactly once, however many    *)
(* posts, revisions and observers carried it                                *)
(* (capture_expanded_links_in_transaction).                                 *)
OneCommandPerArticle ==
  /\ \A p \in Posts : \A c \in revisions[p] : {p} \X LinksOf(c) \subseteq links
  /\ \A u \in Links : commands[u] = IF \E p \in Posts : <<p, u>> \in links THEN 1 ELSE 0
  /\ \A u \in Links : article[u] = "none" <=> commands[u] = 0

(* Knowledge's completions are neither lost nor counted twice: every event  *)
(* in the inbox has left its revision with exactly one link, every link was *)
(* brought by an event in the inbox and leads to a revision that was        *)
(* published.  So it is whichever of the copies came first, whatever was    *)
(* refused after a takedown, and although a refused event may come again    *)
(* (consume_completion, its two conflict clauses and its rollback).         *)
ConsumedIsLinkedOnce ==
  /\ \A p \in Posts, c \in Contents, n \in Copies :
       <<p, c, n>> \in inbox => Analysed(p, c)
  /\ \A p \in Posts, c \in Contents, m, n \in Copies :
       <<p, c, m>> \in analysed /\ <<p, c, n>> \in analysed => m = n
  /\ analysed \subseteq inbox
  /\ \A p \in Posts, c \in Contents : Analysed(p, c) => c \in revisions[p]

(* A takedown rests on the provider's word: a source is removed only when   *)
(* its post was once gone at the provider, never because a check failed     *)
(* (run_due, record_result).                                                *)
TakedownHasEvidence == tombstones \subseteq wasGone

-----------------------------------------------------------------------------
(* "A material change SHALL emit one updated event": what was last observed *)
(* of a source that is not removed is its current revision.  The code does  *)
(* not keep this for a post that returns to an earlier content.             *)
ObservedIsPublished ==
  \A p \in Posts : observed[p] # None /\ source[p].is # "removed" =>
    source[p].content = observed[p]
=============================================================================
