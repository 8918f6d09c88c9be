---------------------------- MODULE SeedSources ----------------------------
(* The initial sources of a discovery campaign (discovery/bluesky.py, the  *)
(* oracles; discovery/pipeline.py, _run_initial_sources) and the requests  *)
(* they send through one client (bluesky/client.py). Sources run at once,  *)
(* each lists accounts lazily, page by page, while the coordinator ingests *)
(* them; every attempt of a request is paid from the campaign's budget and *)
(* may be refused, or fail and be repeated.                                *)
(*                                                                         *)
(* Abstractions. Bluesky is modelled from how it is asked: an account, a   *)
(* pack or a page is what the code reads of it, a cursor is a position.    *)
(* Campaign has what an ingestion does after it knows the profile, and     *)
(* the oracles that expand a creator.                                      *)
EXTENDS Integers, FiniteSets, Sequences

CONSTANTS
  Source,        \* the sources of the campaign
  OracleOf,      \* "manual", "search" or "packs"
  LimitOf,       \* request.limit of each
  HitsOf,        \* what each finds, in order: accounts, or packs
  SampleOf,      \* listItemsSample of each pack
  ListOf,        \* its list
  Circular,      \* packs whose last page names the first one's cursor
  Hidden,        \* accounts that a list counts and does not show
  ListPageSize, MaxMembers, MaxRetries, RequestLimit, Parallel

\* What a sequence holds; what it says at some of its places, in their order.
In(seq) == {seq[i] : i \in DOMAIN seq}
Picked(seq, places) ==
  [k \in 1 .. Cardinality(places) |->
     seq[CHOOSE i \in places : Cardinality({j \in places : j < i}) = k - 1]]
Cut(seq, n) == SubSeq(seq, 1, IF Len(seq) < n THEN Len(seq) ELSE n)

ASSUME SourcesAssumption ==
  /\ OracleOf \in [Source -> {"manual", "search", "packs"}]
  /\ \A s \in Source : LimitOf[s] \in Nat \ {0} /\ HitsOf[s] \in Seq(In(HitsOf[s]))
  /\ \A s \in Source : OracleOf[s] = "packs" => In(HitsOf[s]) \subseteq DOMAIN ListOf
  /\ \A g \in DOMAIN ListOf : SampleOf[g] \in Seq(In(SampleOf[g])) /\ ListOf[g] \in Seq(In(ListOf[g]))
  /\ {ListPageSize, MaxMembers, RequestLimit, Parallel} \subseteq Nat \ {0} /\ MaxRetries \in Nat
  /\ Circular \subseteq DOMAIN ListOf /\ DOMAIN SampleOf = DOMAIN ListOf

VARIABLES
  oracle,     \* each source's coroutine and its oracle's generator
  used,       \* BlueskyRequestBudget.used
  erred,      \* summary.source_errors is not 0
  overdrawn,  \* _request_budget_exhausted
  hydrated,   \* _profiles
  cutShort    \* history: packs that a page without a visible account ended

sourceVars == <<oracle, used, erred, overdrawn, hydrated, cutShort>>

NoCursor == -1

SourcesInit ==
  /\ oracle = [s \in Source |->
       [at |-> "waiting", wants |-> "query", tries |-> 0, nth |-> 1, members |-> <<>>,
        cursor |-> NoCursor, cursors |-> {}, queue |-> <<>>, suggested |-> 0]]
  /\ used = 0 /\ erred = FALSE /\ overdrawn = FALSE /\ hydrated = {} /\ cutShort = {}

Stands(s, at) == oracle[s].at = at
Answered(s, wants) == Stands(s, "sent") /\ oracle[s].wants = wants
Ask(s, wants) == oracle' = [oracle EXCEPT ![s].at = "asking", ![s].wants = wants, ![s].tries = 0]
EndSource(s) == oracle' = [oracle EXCEPT ![s].at = "ended"]
PassOn(s) == oracle' = [oracle EXCEPT ![s].at = "listing", ![s].queue = Tail(@)]
Lists(s, queue) == oracle' = [oracle EXCEPT ![s].at = "listing", ![s].queue = queue]
Sound == UNCHANGED <<erred, overdrawn>>

\* What a query returns is cut at the request's limit, seeds by the oracle.
Taken(s) == Cut(HitsOf[s], LimitOf[s])
Pack(s) == Taken(s)[oracle[s].nth]

-----------------------------------------------------------------------------
(* A request.                                                              *)

\* _run_initial_sources, the semaphore; a seed list needs no request.
StartSource(s) ==
  /\ Stands(s, "waiting")
  /\ Cardinality({t \in Source : oracle[t].at \notin {"waiting", "ended"}}) < Parallel
  /\ IF OracleOf[s] = "manual" THEN Lists(s, Taken(s)) ELSE Ask(s, "query")
  /\ Sound /\ UNCHANGED <<used, hydrated, cutShort>>

\* consume and get
SendRequest(s) ==
  /\ Stands(s, "asking")
  /\ IF used < RequestLimit
     THEN used' = used + 1 /\ oracle' = [oracle EXCEPT ![s].at = "sent"] /\ UNCHANGED overdrawn
     ELSE overdrawn' = TRUE /\ EndSource(s) /\ UNCHANGED used
  /\ UNCHANGED <<erred, hydrated, cutShort>>

\* A lost profile costs its account, anything else the source.
Loses(s) ==
  /\ IF oracle[s].wants = "profile" THEN PassOn(s) ELSE EndSource(s)
  /\ erred' = TRUE /\ UNCHANGED <<used, overdrawn, hydrated, cutShort>>

\* A timeout, or a status of _retryable_status
FailRequest(s) ==
  /\ Stands(s, "sent")
  /\ IF oracle[s].tries < MaxRetries
     THEN /\ oracle' = [oracle EXCEPT ![s].at = "asking", ![s].tries = @ + 1]
          /\ Sound /\ UNCHANGED <<used, hydrated, cutShort>>
     ELSE Loses(s)

\* Another status of 400 or more, or a payload that is not what it should be
RefuseRequest(s) == Stands(s, "sent") /\ Loses(s)

-----------------------------------------------------------------------------
(* What the oracles make of an answer.                                     *)

GetHits(s) ==
  /\ Answered(s, "query")
  /\ Lists(s, IF OracleOf[s] = "search" THEN Taken(s) ELSE <<>>)
  /\ Sound /\ UNCHANGED <<used, hydrated, cutShort>>

\* extend_members: what is not known yet, where it comes first.
Extended(members, accounts) ==
  members \o Picked(accounts, {i \in DOMAIN accounts :
                                 accounts[i] \notin In(members) \union {accounts[j] : j \in 1 .. i - 1}})

\* The pack's members are complete, or another page of its list is asked for.
Gathers(s, members, more, cursor, cursors) ==
  IF more /\ Len(members) < MaxMembers
  THEN oracle' = [oracle EXCEPT ![s].at = "asking", ![s].wants = "list", ![s].tries = 0,
                    ![s].members = members, ![s].cursor = cursor, ![s].cursors = cursors]
  ELSE oracle' = [oracle EXCEPT ![s].at = "listing", ![s].nth = @ + 1,
                    ![s].queue = Cut(members, MaxMembers)]

GetPack(s) ==
  /\ Answered(s, "pack")
  /\ Gathers(s, Extended(<<>>, SampleOf[Pack(s)]), ListOf[Pack(s)] # <<>>, NoCursor, {})
  /\ Sound /\ UNCHANGED <<used, hydrated, cutShort>>

\* get_list: up to `limit` members from the cursor on, and the next cursor.
ListPage(pack, cursor, limit) ==
  LET start == IF cursor = NoCursor THEN 0 ELSE cursor
      end == IF start + limit < Len(ListOf[pack]) THEN start + limit ELSE Len(ListOf[pack])
  IN  [items |-> Picked(ListOf[pack], {i \in start + 1 .. end : ListOf[pack][i] \notin Hidden}),
       cursor |-> IF end < Len(ListOf[pack]) THEN end ELSE IF pack \in Circular THEN 0 ELSE NoCursor]

PageLimit(s) ==
  LET room == MaxMembers - Len(oracle[s].members) IN IF room < ListPageSize THEN room ELSE ListPageSize

\* Mutant: a page shorter than its limit is the last.
ShortPageLast(page, cursors, limit) ==
  page.cursor = NoCursor \/ page.cursor \in cursors \/ Len(page.items) < limit

\* Nothing follows, it was asked for before, or nothing was shown.
LastPage(page, cursors, limit) ==
  page.cursor = NoCursor \/ page.cursor \in cursors \/ page.items = <<>>

GetList(s) ==
  /\ Answered(s, "list")
  /\ LET page == ListPage(Pack(s), oracle[s].cursor, PageLimit(s))
         cursors == oracle[s].cursors
     IN  /\ Gathers(s, Extended(oracle[s].members, page.items),
                    ~LastPage(page, cursors, PageLimit(s)), page.cursor, cursors \union {page.cursor})
         /\ cutShort' = IF page.items = <<>> /\ page.cursor # NoCursor THEN cutShort \union {Pack(s)}
                        ELSE cutShort
  /\ Sound /\ UNCHANGED <<used, hydrated>>

-----------------------------------------------------------------------------
(* The coordinator asks the generator for the next account.                *)

\* _consume_oracle
NextAccount(s) ==
  /\ Stands(s, "listing") /\ oracle[s].queue # <<>>
  /\ IF oracle[s].suggested = LimitOf[s] THEN EndSource(s)
     ELSE IF Head(oracle[s].queue) \in hydrated
     THEN oracle' = [oracle EXCEPT ![s].suggested = @ + 1, ![s].queue = Tail(@)]
     ELSE oracle' = [oracle EXCEPT ![s].suggested = @ + 1,
                       ![s].at = "asking", ![s].wants = "profile", ![s].tries = 0]
  /\ Sound /\ UNCHANGED <<used, hydrated, cutShort>>

\* creator_view_from_profile: what the query or the list said of an account has
\* no handle, which is found before the limit is looked at.
MeetFlawedAccount(s) ==
  /\ Stands(s, "listing") /\ oracle[s].queue # <<>> /\ OracleOf[s] # "manual"
  /\ EndSource(s) /\ erred' = TRUE
  /\ UNCHANGED <<used, overdrawn, hydrated, cutShort>>

\* hydrator.creator
GetProfile(s) ==
  /\ Answered(s, "profile") /\ PassOn(s)
  /\ hydrated' = hydrated \union {Head(oracle[s].queue)}
  /\ Sound /\ UNCHANGED <<used, cutShort>>

\* The generator's next pack, or its end.
NextPack(s) ==
  /\ Stands(s, "listing") /\ oracle[s].queue = <<>>
  /\ IF OracleOf[s] = "packs" /\ oracle[s].nth <= Len(Taken(s)) THEN Ask(s, "pack") ELSE EndSource(s)
  /\ Sound /\ UNCHANGED <<used, hydrated, cutShort>>

SourcesNext ==
  \E s \in Source :
    \/ StartSource(s) \/ SendRequest(s) \/ FailRequest(s) \/ RefuseRequest(s)
    \/ GetHits(s) \/ GetPack(s) \/ GetList(s) \/ GetProfile(s)
    \/ NextAccount(s) \/ MeetFlawedAccount(s) \/ NextPack(s)

SourcesSpec == SourcesInit /\ [][SourcesNext]_sourceVars

-----------------------------------------------------------------------------
(* Properties.                                                             *)

SourcesTypeOK ==
  /\ used \in 0 .. RequestLimit /\ {erred, overdrawn} \subseteq BOOLEAN
  /\ \A s \in Source :
       /\ oracle[s].at \in {"waiting", "asking", "sent", "listing", "ended"}
       /\ oracle[s].wants \in {"query", "pack", "list", "profile"}
       /\ oracle[s].tries \in 0 .. MaxRetries /\ oracle[s].suggested \in 0 .. LimitOf[s]

\* The sources are through, and the summary tells of nothing that went wrong.
CleanRun == (\A s \in Source : Stands(s, "ended")) /\ ~erred /\ ~overdrawn

AccountsOf(pack) == In(SampleOf[pack]) \union (In(ListOf[pack]) \ Hidden)
Sampled(pack) ==
  LET known == Cardinality(AccountsOf(pack) \intersect hydrated)
  IN  known >= MaxMembers \/ known = Cardinality(AccountsOf(pack))

\* When a campaign reports no error and no exhausted budget, every source has
\* handed over what it found, up to its limit: all hits of a search, and of
\* each pack all members or max_members of them, whatever pages, overlaps and
\* circles its list has and whatever requests had to be repeated. A page with
\* no account to show ends a pack early.
CleanRunIsComplete ==
  CleanRun =>
    \A s \in Source :
      \/ oracle[s].suggested = LimitOf[s]
      \/ IF OracleOf[s] = "packs"
         THEN \A pack \in In(Taken(s)) : Sampled(pack) \/ pack \in cutShort
         ELSE In(Taken(s)) \subseteq hydrated

\* Of each pack a query finds within its limit of packs, a campaign that
\* reports no error has sampled up to max_members members, as the oracle's
\* test has it.
PacksSampledToTheirCap ==
  CleanRun =>
    \A s \in Source : OracleOf[s] = "packs" =>
      \A pack \in In(Taken(s)) : Sampled(pack) \/ pack \in cutShort
=============================================================================
