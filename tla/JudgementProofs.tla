-------------------------- MODULE JudgementProofs --------------------------
(* Proofs about what people say of the search's results and of the         *)
(* filter's decisions: that the metrics repeat it, and that a label is     *)
(* matched with the decision its reviewer saw; and about those decisions:  *)
(* that each rests on its own image.                                       *)
EXTENDS ResultFeedback, ReviewQueue, FilterDecisions, FiniteSetTheorems, WellFoundedInduction, TLAPS

-----------------------------------------------------------------------------
(***************************************************************************)
(* Proofs about ResultFeedback for any searches and cards, any number of   *)
(* grades, and any times at which the metrics are read.                    *)
(*                                                                         *)
(* A card that says a grade is recorded says what the latest of its events *)
(* says: while it waits for a grade, that grade is the latest from its     *)
(* commit on and not yet an event before (CardSound). A card that gave a   *)
(* grade up may say anything afterwards, and is doubted. created_at tells  *)
(* the events of a card apart because they come from transactions of one   *)
(* row (TicketsDistinct).                                                  *)
(***************************************************************************)

Grades == [card : Card, grade : Mark, at : {"queued", "open", "recorded"}, created : Nat]
Events == [card : Card, grade : Mark, created : Nat]

FeedbackTypes ==
  /\ searched \in [Search -> {"started", "shown", "completed"}]
  /\ sent \in Seq(Grades \union {Over})
  /\ saving \in [Card -> 0 .. Len(sent)]
  /\ events \subseteq Events /\ ticket \in Nat
  /\ told \in [Card -> Mark \union {NoMark}] /\ doubted \subseteq Card

CompletedFor(c) == searched[c[1]] = "completed"

\* The task that records a grade. Its card waits for it, or has given it up.
TaskSound(n) ==
  sent[n].at # "ended" =>
    /\ saving[sent[n].card] = n \/ sent[n].card \in doubted
    /\ sent[n].at \in {"open", "recorded"} =>
         sent[n].created \in 1 .. ticket /\ CompletedFor(sent[n].card)
    /\ sent[n].at = "recorded" => EventOf(n) \in events
    /\ sent[n].at = "open" => \A e \in events : e.created # sent[n].created

\* created_at tells transactions apart, of the tasks and of the events.
TicketsDistinct ==
  /\ \A m, n \in DOMAIN sent :
       sent[m].at = "open" /\ sent[n].at = "open" /\ sent[m].created = sent[n].created => m = n
  /\ \A e, f \in events : e.created = f.created => e = f

Latest(c, e) ==
  e \in events /\ e.card = c /\ \A f \in events : f.card = c => f.created <= e.created

\* The card says what the metrics would make of its events.
Tells(c) ==
  IF told[c] = NoMark THEN \A e \in events : e.card # c
  ELSE \E e \in events : e.grade = told[c] /\ Latest(c, e)

\* A card that never gave a grade up: it tells the truth until the grade it waits
\* for is recorded, and that grade is the latest then.
CardSound(c) ==
  /\ saving[c] # 0 => sent[saving[c]].at # "ended" /\ sent[saving[c]].card = c
  /\ c \notin doubted =>
       /\ saving[c] = 0 => Tells(c)
       /\ saving[c] # 0 =>
            /\ sent[saving[c]].at # "recorded" => Tells(c)
            /\ sent[saving[c]].at = "recorded" => Latest(c, EventOf(saving[c]))
            /\ sent[saving[c]].at = "open" =>
                 \A e \in events : e.card = c => e.created < sent[saving[c]].created

GradesSound ==
  /\ FeedbackTypes
  /\ \A n \in DOMAIN sent : TaskSound(n)
  /\ TicketsDistinct
  /\ \A e \in events : e.created <= ticket /\ CompletedFor(e.card)
  /\ \A c \in Card : CardSound(c)

FeedbackInv == GradesSound /\ ReportSaysAsTold

-----------------------------------------------------------------------------
(* Cards and their ranks.                                                  *)

LEMMA CardRanks ==
  /\ \A c \in Card : /\ c[1] \in Search /\ c = <<c[1], c[2]>>
                     /\ RankOf(c) \in DOMAIN ShownOf[c[1]] /\ ShownOf[c[1]][RankOf(c)] = c[2]
  /\ \A q \in Search : \A r \in DOMAIN ShownOf[q] :
       <<q, ShownOf[q][r]>> \in Card /\ RankOf(<<q, ShownOf[q][r]>>) = r
<1>1. ASSUME NEW c \in Card
      PROVE  /\ c[1] \in Search /\ c = <<c[1], c[2]>>
             /\ RankOf(c) \in DOMAIN ShownOf[c[1]] /\ ShownOf[c[1]][RankOf(c)] = c[2]
  <2>1. PICK q \in Search : \E r \in DOMAIN ShownOf[q] : c = <<q, ShownOf[q][r]>>
    BY DEF Card
  <2>2. PICK r \in DOMAIN ShownOf[q] : c = <<q, ShownOf[q][r]>>
    BY <2>1
  <2> QED
    BY <2>2 DEF RankOf
<1>2. ASSUME NEW q \in Search, NEW r \in DOMAIN ShownOf[q]
      PROVE  <<q, ShownOf[q][r]>> \in Card /\ RankOf(<<q, ShownOf[q][r]>>) = r
  <2>1. <<q, ShownOf[q][r]>> \in Card
    BY DEF Card
  <2>2. PICK c : c = <<q, ShownOf[q][r]>>
    OBVIOUS
  <2>3. RankOf(c) \in DOMAIN ShownOf[q] /\ ShownOf[q][RankOf(c)] = ShownOf[q][r]
    BY <1>1, <2>1, <2>2
  <2> QED
    BY <2>1, <2>2, <2>3, FeedbackAssumption
<1> QED
  BY <1>1, <1>2

LEMMA ExpectedRanks ==
  ASSUME NEW q \in Search
  PROVE  Expected(q) = {r \in DOMAIN ShownOf[q] : r <= TopRanks}
<1>1. ShownOf[q] \in Seq(Result) /\ TopRanks \in Nat
  BY FeedbackAssumption
<1> QED
  BY <1>1 DEF Expected

-----------------------------------------------------------------------------
(* The initial state, and the steps of the grades.                         *)

LEMMA InitFeedbackInv == FeedbackInit => FeedbackInv
<1> SUFFICES ASSUME FeedbackInit PROVE FeedbackInv
  OBVIOUS
<1>1. FeedbackTypes
  BY DEF FeedbackInit, FeedbackTypes
<1>2. DOMAIN sent = {} /\ events = {} /\ \A c \in Card : saving[c] = 0 /\ told[c] = NoMark
  BY DEF FeedbackInit
<1>3. GradesSound
  BY <1>1, <1>2 DEF GradesSound, TicketsDistinct, CardSound, Tells
<1>4. ReportSaysAsTold
  BY DEF FeedbackInit, ReportSaysAsTold
<1> QED
  BY <1>3, <1>4 DEF FeedbackInv

LEMMA TaskTypes ==
  ASSUME GradesSound, NEW n \in DOMAIN sent, sent[n].at # "ended"
  PROVE  /\ sent[n] \in Grades /\ sent[n].card \in Card /\ sent[n].card[1] \in Search
         /\ EventOf(n) \in Events /\ n \in Nat \ {0}
<1>1. sent[n] \in Grades
  BY DEF GradesSound, FeedbackTypes, Over
<1>2. n \in Nat \ {0}
  BY DEF GradesSound, FeedbackTypes
<1> QED
  BY <1>1, <1>2, CardRanks DEF Grades, Events, EventOf

\* One task goes on.
LEMMA TaskMoves ==
  ASSUME GradesSound, NEW n \in DOMAIN sent, NEW to \in Grades \union {Over},
         sent' = [sent EXCEPT ![n] = to]
  PROVE  /\ sent' \in Seq(Grades \union {Over}) /\ Len(sent') = Len(sent)
         /\ DOMAIN sent' = DOMAIN sent /\ sent'[n] = to
         /\ \A m \in DOMAIN sent \ {n} : sent'[m] = sent[m]
  BY DEF GradesSound, FeedbackTypes

\* The telemetry of the searches.
LEMMA SearchStep ==
  ASSUME GradesSound, searched' \in [Search -> {"started", "shown", "completed"}],
         \A q \in Search : searched[q] = "completed" => searched'[q] = "completed",
         UNCHANGED <<sent, saving, events, ticket, told, doubted>>
  PROVE  GradesSound'
<1>1. FeedbackTypes'
  BY DEF GradesSound, FeedbackTypes
<1>2. ASSUME NEW c \in Card, CompletedFor(c) PROVE CompletedFor(c)'
  BY <1>2, CardRanks DEF CompletedFor
<1>3. ASSUME NEW n \in DOMAIN sent PROVE TaskSound(n)'
  BY <1>2, TaskTypes DEF GradesSound, TaskSound, EventOf
<1>4. \A e \in events : e.created <= ticket /\ CompletedFor(e.card)'
  BY <1>2 DEF GradesSound, FeedbackTypes, Events
<1>5. \A c \in Card : CardSound(c)'
  BY DEF GradesSound, CardSound, Tells, Latest, EventOf
<1> QED
  BY <1>1, <1>3, <1>4, <1>5 DEF GradesSound, TicketsDistinct

LEMMA SendStep ==
  ASSUME GradesSound, NEW c \in Card, NEW grade \in Mark, Send(c, grade)
  PROVE  GradesSound'
<1>1. PICK new, n : /\ new = [card |-> c, grade |-> grade, at |-> "queued", created |-> 0]
                    /\ n = Len(sent) + 1
  OBVIOUS
<1>2. /\ saving[c] = 0 /\ sent' = Append(sent, new) /\ saving' = [saving EXCEPT ![c] = n]
      /\ UNCHANGED <<searched, events, ticket, told, doubted>>
  BY <1>1 DEF Send
<1>3. new \in Grades /\ new.at = "queued" /\ new.card = c
  BY <1>1 DEF Grades
<1>4. /\ sent' \in Seq(Grades \union {Over}) /\ Len(sent') = n /\ n \in Nat \ {0}
      /\ DOMAIN sent = 1 .. (n - 1) /\ DOMAIN sent' = 1 .. n /\ sent'[n] = new
      /\ \A m \in DOMAIN sent : sent'[m] = sent[m] /\ m # n
  BY <1>1, <1>2, <1>3 DEF GradesSound, FeedbackTypes
<1>5. /\ saving \in [Card -> 0 .. (n - 1)] /\ saving' \in [Card -> 0 .. n]
      /\ saving'[c] = n /\ \A d \in Card \ {c} : saving'[d] = saving[d]
  BY <1>1, <1>2, <1>4 DEF GradesSound, FeedbackTypes
<1>6. FeedbackTypes'
  BY <1>2, <1>4, <1>5 DEF GradesSound, FeedbackTypes
<1>7. ASSUME NEW m \in DOMAIN sent' PROVE TaskSound(m)'
  <2>1. CASE m = n
    BY <1>3, <1>4, <1>5, <2>1 DEF TaskSound
  <2>2. CASE m # n
    <3>1. m \in DOMAIN sent /\ sent'[m] = sent[m] /\ TaskSound(m) /\ m # 0
      BY <1>4, <2>2 DEF GradesSound
    <3>2. sent[m].at # "ended" => sent[m].card \in Card
      BY <3>1, TaskTypes
    <3> QED
      BY <1>2, <1>5, <3>1, <3>2 DEF TaskSound, EventOf, CompletedFor
  <2> QED
    BY <2>1, <2>2
<1>8. TicketsDistinct'
  BY <1>2, <1>3, <1>4 DEF GradesSound, TicketsDistinct
<1>9. ASSUME NEW d \in Card PROVE CardSound(d)'
  <2>1. Tells(d)' <=> Tells(d)
    BY <1>2 DEF Tells, Latest
  <2>2. CASE d = c
    <3>1. d \notin doubted => Tells(d)
      BY <1>2, <2>2 DEF GradesSound, CardSound
    <3>2. saving'[d] = n /\ n # 0 /\ sent'[n].at = "queued" /\ sent'[n].card = d
      BY <1>3, <1>4, <1>5, <2>2
    <3> QED
      BY <1>2, <2>1, <3>1, <3>2 DEF CardSound
  <2>3. CASE d # c
    <3>1. saving'[d] = saving[d] /\ (saving[d] # 0 => saving[d] \in DOMAIN sent)
      BY <1>4, <1>5, <2>3
    <3>2. saving[d] # 0 => sent'[saving[d]] = sent[saving[d]]
      BY <1>4, <3>1
    <3>3. saving[d] # 0 => EventOf(saving[d])' = EventOf(saving[d])
      BY <3>1, <3>2 DEF EventOf
    <3>4. Latest(d, EventOf(saving[d])) /\ saving[d] # 0 => Latest(d, EventOf(saving[d]))'
      BY <1>2, <3>3 DEF Latest
    <3>5. CardSound(d)
      BY DEF GradesSound
    <3> QED
      BY <1>2, <2>1, <3>1, <3>2, <3>4, <3>5 DEF CardSound
  <2> QED
    BY <2>2, <2>3
<1>10. \A e \in events : e.created <= ticket /\ CompletedFor(e.card)'
  BY <1>2 DEF GradesSound, CompletedFor
<1> QED
  BY <1>2, <1>6, <1>7, <1>8, <1>9, <1>10 DEF GradesSound

\* A task ends, and its card waits no longer: it is told what has become of the
\* grade, or doubts it.
LEMMA TaskEnds ==
  ASSUME GradesSound, NEW n \in DOMAIN sent, sent[n].at # "ended", NEW c \in Card, c = sent[n].card,
         sent' = [sent EXCEPT ![n] = Over],
         saving' = IF saving[c] = n THEN [saving EXCEPT ![c] = 0] ELSE saving,
         UNCHANGED <<searched, ticket>>,
         events \subseteq events', \A e \in events' \ events : e = EventOf(n) /\ sent[n].at = "open",
         told' \in [Card -> Mark \union {NoMark}], \A d \in Card \ {c} : told'[d] = told[d],
         doubted \subseteq doubted', doubted' \subseteq Card,
         events' # events => c \in doubted',
         saving[c] # n => UNCHANGED told,
         c \notin doubted' /\ saving[c] = n => Tells(c)'
  PROVE  GradesSound'
<1>1. /\ sent' \in Seq(Grades \union {Over}) /\ Len(sent') = Len(sent) /\ DOMAIN sent' = DOMAIN sent
      /\ sent'[n] = Over /\ Over.at = "ended"
      /\ \A m \in DOMAIN sent \ {n} : sent'[m] = sent[m]
  BY TaskMoves DEF Over
<1>2. /\ saving \in [Card -> 0 .. Len(sent)] /\ saving' \in [Card -> 0 .. Len(sent)]
      /\ \A d \in Card \ {c} : saving'[d] = saving[d]
      /\ saving'[c] = IF saving[c] = n THEN 0 ELSE saving[c]
  BY DEF GradesSound, FeedbackTypes
<1>3. EventOf(n) \in Events /\ TaskSound(n) /\ EventOf(n).card = c /\ EventOf(n).created = sent[n].created
  BY TaskTypes DEF GradesSound, EventOf
<1>4. FeedbackTypes'
  BY <1>1, <1>2, <1>3 DEF GradesSound, FeedbackTypes
<1>5. ASSUME NEW m \in DOMAIN sent, m # n, sent[m].at # "ended"
      PROVE  /\ sent[m].card \in Card
             /\ saving'[sent[m].card] = m \/ sent[m].card \in doubted'
  BY <1>2, <1>5, TaskTypes DEF GradesSound, TaskSound
<1>6. ASSUME NEW m \in DOMAIN sent' PROVE TaskSound(m)'
  <2>1. CASE m = n
    BY <1>1, <2>1 DEF TaskSound
  <2>2. CASE m # n
    <3>1. m \in DOMAIN sent /\ sent'[m] = sent[m] /\ TaskSound(m)
      BY <1>1, <2>2 DEF GradesSound
    <3>2. sent[m].at = "open" => \A e \in events' : e.created # sent[m].created
      BY <1>3, <2>2, <3>1 DEF GradesSound, TicketsDistinct, TaskSound
    <3> QED
      BY <1>5, <2>2, <3>1, <3>2 DEF TaskSound, EventOf, CompletedFor
  <2> QED
    BY <2>1, <2>2
<1>7. TicketsDistinct'
  <2>1. \A k, m \in DOMAIN sent' :
          sent'[k].at = "open" /\ sent'[m].at = "open" /\ sent'[k].created = sent'[m].created => k = m
    BY <1>1 DEF GradesSound, TicketsDistinct
  <2>2. \A e, f \in events' : e.created = f.created => e = f
    BY <1>3 DEF GradesSound, TicketsDistinct, TaskSound
  <2> QED
    BY <2>1, <2>2 DEF TicketsDistinct
<1>8. ASSUME NEW e \in events' PROVE e.created <= ticket /\ CompletedFor(e.card)'
  <2>1. CASE e \in events
    BY <2>1 DEF GradesSound, CompletedFor
  <2>2. CASE e \notin events
    BY <1>3, <1>8, <2>2 DEF TaskSound, CompletedFor
  <2> QED
    BY <2>1, <2>2
<1>9. ASSUME NEW d \in Card PROVE CardSound(d)'
  <2>1. CASE saving[d] # 0 /\ saving[d] # n
    <3>1. saving[d] \in DOMAIN sent /\ saving'[d] = saving[d] /\ sent'[saving[d]] = sent[saving[d]]
      BY <1>1, <1>2, <2>1 DEF GradesSound, FeedbackTypes
    <3>2. CASE d \in doubted'
      BY <3>1, <3>2 DEF GradesSound, CardSound
    <3>3. CASE d \notin doubted'
      <4>1. \A e : e.card = d => (e \in events' <=> e \in events)
        BY <1>3, <3>3
      <4>2. told'[d] = told[d]
        BY <2>1
      <4>3. Tells(d)' <=> Tells(d)
        BY <4>1, <4>2 DEF Tells, Latest
      <4>4. EventOf(saving[d])' = EventOf(saving[d])
        BY <3>1 DEF EventOf
      <4>5. sent[saving[d]].card = d /\ CardSound(d) /\ d \notin doubted
        BY <2>1, <3>3 DEF GradesSound, CardSound
      <4>6. EventOf(saving[d]).card = d
        BY <4>5 DEF EventOf
      <4>7. Latest(d, EventOf(saving[d])) => Latest(d, EventOf(saving[d]))'
        BY <4>1, <4>4, <4>6 DEF Latest
      <4> QED
        BY <2>1, <3>1, <4>1, <4>3, <4>4, <4>5, <4>7 DEF CardSound
    <3> QED
      BY <3>2, <3>3
  <2>2. CASE saving[d] = 0
    <3>1. saving'[d] = 0 /\ told'[d] = told[d]
      BY <1>2, <2>2, TaskTypes
    <3>2. CASE d \in doubted'
      BY <3>1, <3>2 DEF CardSound
    <3>3. CASE d \notin doubted'
      <4>1. \A e : e.card = d => (e \in events' <=> e \in events)
        BY <1>3, <3>3
      <4>2. Tells(d)
        BY <2>2, <3>3 DEF GradesSound, CardSound
      <4> QED
        BY <3>1, <4>1, <4>2 DEF CardSound, Tells, Latest
    <3> QED
      BY <3>2, <3>3
  <2>3. CASE saving[d] = n
    <3>1. d = c /\ saving'[d] = 0
      BY <1>2, <2>3, TaskTypes DEF GradesSound, CardSound
    <3> QED
      BY <2>3, <3>1 DEF CardSound
  <2> QED
    BY <2>1, <2>2, <2>3
<1> QED
  BY <1>4, <1>6, <1>7, <1>8, <1>9 DEF GradesSound

LEMMA OpenFeedbackStep ==
  ASSUME GradesSound, NEW n \in DOMAIN sent, OpenFeedback(n)
  PROVE  GradesSound'
<1>1. PICK c : c = sent[n].card
  OBVIOUS
<1>2. sent[n].at = "queued" /\ c \in Card /\ sent[n] \in Grades /\ TaskSound(n)
  BY <1>1, TaskTypes DEF OpenFeedback, GradesSound
<1>3. CASE ~CompletedFor(c)
  <2>1. /\ sent' = [sent EXCEPT ![n] = Over]
        /\ saving' = IF saving[c] = n THEN [saving EXCEPT ![c] = 0] ELSE saving
        /\ UNCHANGED <<searched, events, ticket, told, doubted>>
    BY <1>1, <1>3 DEF OpenFeedback, CompletedFor, Awaits, Unblocked
  <2>2. c \notin doubted /\ saving[c] = n => Tells(c)
    BY <1>1, <1>2, TaskTypes DEF GradesSound, CardSound
  <2>3. Tells(c)' <=> Tells(c)
    BY <2>1 DEF Tells, Latest
  <2> QED
    BY <1>1, <1>2, <2>1, <2>2, <2>3, TaskEnds DEF GradesSound, FeedbackTypes
<1>4. CASE CompletedFor(c)
  <2>1. PICK to : to = [sent[n] EXCEPT !.at = "open", !.created = ticket + 1]
    OBVIOUS
  <2>2. /\ ticket' = ticket + 1 /\ sent' = [sent EXCEPT ![n] = to]
        /\ UNCHANGED <<searched, saving, events, told, doubted>>
    BY <1>1, <1>4, <2>1 DEF OpenFeedback, CompletedFor
  <2>3. ticket \in Nat /\ events \subseteq Events
    BY DEF GradesSound, FeedbackTypes
  <2>4. to \in Grades /\ to.at = "open" /\ to.card = c /\ to.created = ticket + 1
    <3>1. PICK half : half = [sent[n] EXCEPT !.at = "open"]
      OBVIOUS
    <3>2. half \in Grades /\ half.at = "open" /\ half.card = c
      BY <1>1, <1>2, <3>1 DEF Grades
    <3>3. to = [half EXCEPT !.created = ticket + 1]
      BY <2>1, <3>1
    <3> QED
      BY <2>3, <3>2, <3>3 DEF Grades
  <2>5. /\ sent' \in Seq(Grades \union {Over}) /\ Len(sent') = Len(sent) /\ DOMAIN sent' = DOMAIN sent
        /\ sent'[n] = to /\ \A m \in DOMAIN sent \ {n} : sent'[m] = sent[m]
    BY <2>2, <2>4, TaskMoves
  <2>6. \A e \in events : e.created \in Nat /\ e.created <= ticket
    BY <2>3 DEF GradesSound, Events
  <2>7. FeedbackTypes'
    BY <2>2, <2>3, <2>5 DEF GradesSound, FeedbackTypes
  <2>8. ASSUME NEW m \in DOMAIN sent, m # n PROVE TaskSound(m)'
    <3>1. sent'[m] = sent[m] /\ TaskSound(m)
      BY <2>5, <2>8 DEF GradesSound
    <3> QED
      BY <2>2, <2>3, <3>1 DEF TaskSound, EventOf, CompletedFor
  <2>9. TaskSound(n)'
    BY <1>1, <1>2, <1>4, <2>2, <2>3, <2>4, <2>5, <2>6 DEF TaskSound, CompletedFor
  <2>10. TicketsDistinct'
    <3>1. \A m \in DOMAIN sent \ {n} : sent[m].at = "open" => sent[m].created # ticket + 1
      BY <2>3 DEF GradesSound, TaskSound
    <3>2. \A k, m \in DOMAIN sent' :
            sent'[k].at = "open" /\ sent'[m].at = "open" /\ sent'[k].created = sent'[m].created => k = m
      BY <2>4, <2>5, <3>1 DEF GradesSound, TicketsDistinct
    <3> QED
      BY <2>2, <3>2 DEF GradesSound, TicketsDistinct
  <2>11. \A e \in events : e.created <= ticket' /\ CompletedFor(e.card)'
    BY <2>2, <2>3, <2>6 DEF GradesSound, CompletedFor
  <2>12. ASSUME NEW d \in Card PROVE CardSound(d)'
    <3>1. Tells(d)' <=> Tells(d)
      BY <2>2 DEF Tells, Latest
    <3>2. CASE saving[d] = n
      <4>1. saving'[d] = n /\ n # 0 /\ d = c
        BY <1>1, <1>2, <2>2, <3>2, TaskTypes DEF GradesSound, CardSound
      <4>2. d \notin doubted => Tells(d)
        BY <1>2, <3>2, <4>1 DEF GradesSound, CardSound
      <4> QED
        <5>1. sent'[n].at = "open" /\ sent'[n].card = d /\ sent'[n].created = ticket + 1
          BY <2>4, <2>5, <4>1
        <5>2. \A e \in events' : e.created < sent'[n].created
          BY <2>2, <2>3, <2>6, <5>1
        <5> QED
          BY <2>2, <3>1, <4>1, <4>2, <5>1, <5>2 DEF CardSound
    <3>3. CASE saving[d] # n
      <4>1. saving'[d] = saving[d] /\ (saving[d] # 0 => sent'[saving[d]] = sent[saving[d]])
        BY <2>2, <2>5, <3>3 DEF GradesSound, FeedbackTypes
      <4>2. saving[d] # 0 => EventOf(saving[d])' = EventOf(saving[d])
        BY <4>1 DEF EventOf
      <4>3. Latest(d, EventOf(saving[d])) /\ saving[d] # 0 => Latest(d, EventOf(saving[d]))'
        BY <2>2, <4>2 DEF Latest
      <4>4. CardSound(d)
        BY DEF GradesSound
      <4> QED
        BY <2>2, <3>1, <4>1, <4>3, <4>4 DEF CardSound
    <3> QED
      BY <3>2, <3>3
  <2> QED
    BY <2>2, <2>5, <2>7, <2>8, <2>9, <2>10, <2>11, <2>12 DEF GradesSound
<1> QED
  BY <1>3, <1>4

LEMMA CommitFeedbackStep ==
  ASSUME GradesSound, NEW n \in DOMAIN sent, CommitFeedback(n)
  PROVE  GradesSound'
<1>1. PICK c, e, to : c = sent[n].card /\ e = EventOf(n) /\ to = [sent[n] EXCEPT !.at = "recorded"]
  OBVIOUS
<1>2. /\ sent[n].at = "open" /\ c \in Card /\ sent[n] \in Grades /\ TaskSound(n) /\ e \in Events
  BY <1>1, TaskTypes DEF CommitFeedback, GradesSound
<1>3. /\ events' = events \union {e} /\ sent' = [sent EXCEPT ![n] = to]
      /\ UNCHANGED <<searched, saving, ticket, told, doubted>>
  BY <1>1 DEF CommitFeedback
<1>4. /\ to \in Grades /\ to.at = "recorded" /\ to.card = c /\ to.created = sent[n].created
      /\ to.grade = sent[n].grade
  BY <1>1, <1>2 DEF Grades
<1>5. /\ sent' \in Seq(Grades \union {Over}) /\ Len(sent') = Len(sent) /\ DOMAIN sent' = DOMAIN sent
      /\ sent'[n] = to /\ \A m \in DOMAIN sent \ {n} : sent'[m] = sent[m]
  BY <1>3, <1>4, TaskMoves
<1>6. e.card = c /\ e.created = sent[n].created /\ EventOf(n)' = e
  BY <1>1, <1>4, <1>5 DEF EventOf
<1>7. /\ e.created \in 1 .. ticket /\ CompletedFor(c) /\ \A f \in events : f.created # e.created
  BY <1>1, <1>2, <1>6 DEF TaskSound
<1>8. FeedbackTypes'
  BY <1>2, <1>3, <1>5 DEF GradesSound, FeedbackTypes
<1>9. ASSUME NEW m \in DOMAIN sent, m # n PROVE TaskSound(m)'
  <2>1. sent'[m] = sent[m] /\ TaskSound(m) /\ EventOf(m)' = EventOf(m)
    BY <1>5, <1>9 DEF GradesSound, EventOf
  <2>2. sent[m].at = "open" => sent[m].created # e.created
    BY <1>2, <1>6, <1>9 DEF GradesSound, TicketsDistinct
  <2> QED
    BY <1>3, <2>1, <2>2 DEF TaskSound, CompletedFor
<1>10. TaskSound(n)'
  <2>1. saving[c] = n \/ c \in doubted
    BY <1>1, <1>2 DEF TaskSound
  <2>2. sent'[n].card = c /\ sent'[n].at = "recorded" /\ sent'[n].created = e.created
    BY <1>4, <1>5, <1>6
  <2>3. EventOf(n)' \in events' /\ CompletedFor(c)' /\ e.created \in 1 .. ticket'
    BY <1>3, <1>6, <1>7 DEF CompletedFor
  <2> QED
    BY <1>3, <2>1, <2>2, <2>3 DEF TaskSound, CompletedFor
<1>11. TicketsDistinct'
  <2>1. \A k, m \in DOMAIN sent' :
          sent'[k].at = "open" /\ sent'[m].at = "open" /\ sent'[k].created = sent'[m].created => k = m
    BY <1>4, <1>5 DEF GradesSound, TicketsDistinct
  <2> QED
    BY <1>3, <1>7, <2>1 DEF GradesSound, TicketsDistinct
<1>12. \A f \in events' : f.created <= ticket' /\ CompletedFor(f.card)'
  BY <1>3, <1>6, <1>7 DEF GradesSound, CompletedFor
<1>13. ASSUME NEW d \in Card PROVE CardSound(d)'
  <2>1. CardSound(d)
    BY DEF GradesSound
  <2>2. CASE saving[d] = n
    <3>1. d = c /\ saving'[d] = n /\ n # 0
      BY <1>1, <1>3, <2>1, <2>2, TaskTypes, <1>2 DEF CardSound
    <3>2. d \notin doubted => \A f \in events : f.card = d => f.created < e.created
      BY <1>2, <1>6, <2>1, <2>2, <3>1 DEF CardSound
    <3>3. \A f \in events : f.created \in Nat
      BY DEF GradesSound, FeedbackTypes, Events
    <3>4. d \notin doubted => Latest(d, e)'
      BY <1>3, <1>6, <1>7, <3>1, <3>2, <3>3 DEF Latest
    <3> QED
      BY <1>3, <1>4, <1>5, <1>6, <3>1, <3>4 DEF CardSound
  <2>3. CASE saving[d] # n
    <3>1. saving'[d] = saving[d] /\ (saving[d] # 0 => sent'[saving[d]] = sent[saving[d]])
      BY <1>3, <1>5, <2>3 DEF GradesSound, FeedbackTypes
    <3>2. CASE d \in doubted
      BY <1>3, <2>1, <3>1, <3>2 DEF CardSound
    <3>3. CASE d \notin doubted
      <4>1. d # c
        BY <1>1, <1>2, <2>3, <3>3 DEF TaskSound
      <4>2. \A f : f.card = d => (f \in events' <=> f \in events)
        BY <1>3, <1>6, <4>1
      <4>3. Tells(d)' <=> Tells(d)
        BY <1>3, <4>2 DEF Tells, Latest
      <4>4. saving[d] # 0 => EventOf(saving[d])' = EventOf(saving[d]) /\ EventOf(saving[d]).card = d
        BY <2>1, <3>1 DEF EventOf, CardSound
      <4>5. saving[d] # 0 /\ Latest(d, EventOf(saving[d])) => Latest(d, EventOf(saving[d]))'
        BY <4>2, <4>4 DEF Latest
      <4> QED
        BY <1>3, <2>1, <3>1, <4>2, <4>3, <4>5 DEF CardSound
    <3> QED
      BY <3>2, <3>3
  <2> QED
    BY <2>2, <2>3
<1> QED
  BY <1>3, <1>5, <1>8, <1>9, <1>10, <1>11, <1>12, <1>13 DEF GradesSound

LEMMA AnswerRecordedStep ==
  ASSUME GradesSound, NEW n \in DOMAIN sent, AnswerRecorded(n)
  PROVE  GradesSound'
<1>1. PICK c : c = sent[n].card
  OBVIOUS
<1>2. sent[n].at = "recorded" /\ c \in Card /\ sent[n] \in Grades /\ sent[n].grade \in Mark
  BY <1>1, TaskTypes DEF AnswerRecorded, Grades
<1>3. /\ sent' = [sent EXCEPT ![n] = Over]
      /\ saving' = IF saving[c] = n THEN [saving EXCEPT ![c] = 0] ELSE saving
      /\ told' = IF saving[c] = n THEN [told EXCEPT ![c] = sent[n].grade] ELSE told
      /\ UNCHANGED <<searched, events, ticket, doubted>>
  BY <1>1 DEF AnswerRecorded, Awaits, Unblocked
<1>4. told \in [Card -> Mark \union {NoMark}] /\ doubted \subseteq Card
  BY DEF GradesSound, FeedbackTypes
<1>5. told' \in [Card -> Mark \union {NoMark}] /\ \A d \in Card \ {c} : told'[d] = told[d]
  BY <1>2, <1>3, <1>4
<1>6. ASSUME c \notin doubted, saving[c] = n PROVE Tells(c)'
  <2>1. Latest(c, EventOf(n)) /\ EventOf(n).grade = sent[n].grade
    BY <1>2, <1>6, TaskTypes DEF GradesSound, CardSound, EventOf
  <2>2. told'[c] = sent[n].grade /\ told'[c] # NoMark
    BY <1>2, <1>3, <1>4, <1>6, FeedbackAssumption
  <2> QED
    BY <1>3, <2>1, <2>2 DEF Tells, Latest
<1> QED
  BY <1>1, <1>2, <1>3, <1>4, <1>5, <1>6, TaskEnds

LEMMA FailFeedbackStep ==
  ASSUME GradesSound, NEW n \in DOMAIN sent, FailFeedback(n)
  PROVE  GradesSound'
<1>1. PICK c : c = sent[n].card
  OBVIOUS
<1>2. sent[n].at \in {"queued", "open"} /\ c \in Card /\ TaskSound(n)
  BY <1>1, TaskTypes DEF FailFeedback, GradesSound
<1>3. /\ sent' = [sent EXCEPT ![n] = Over]
      /\ saving' = IF saving[c] = n THEN [saving EXCEPT ![c] = 0] ELSE saving
      /\ doubted' = IF saving[c] = n THEN doubted \union {c} ELSE doubted
      /\ events' = events \/ (sent[n].at = "open" /\ events' = events \union {EventOf(n)})
      /\ UNCHANGED <<searched, ticket, told>>
  BY <1>1 DEF FailFeedback, Awaits, Unblocked
<1>4. told \in [Card -> Mark \union {NoMark}] /\ doubted \subseteq Card
  BY DEF GradesSound, FeedbackTypes
<1>5. c \in doubted'
  BY <1>1, <1>2, <1>3 DEF TaskSound
<1>6. events \subseteq events' /\ \A e \in events' \ events : e = EventOf(n) /\ sent[n].at = "open"
  BY <1>3
<1> QED
  BY <1>1, <1>2, <1>3, <1>4, <1>5, <1>6, TaskEnds

LEMMA TimeOutStep ==
  ASSUME GradesSound, NEW c \in Card, TimeOut(c)
  PROVE  GradesSound'
<1>1. /\ saving' = [saving EXCEPT ![c] = 0] /\ doubted' = doubted \union {c}
      /\ UNCHANGED <<searched, sent, events, ticket, told>>
  BY DEF TimeOut, Unblocked
<1>2. FeedbackTypes'
  BY <1>1 DEF GradesSound, FeedbackTypes
<1>3. saving'[c] = 0 /\ \A d \in Card \ {c} : saving'[d] = saving[d]
  BY <1>1 DEF GradesSound, FeedbackTypes
<1>4. ASSUME NEW n \in DOMAIN sent PROVE TaskSound(n)'
  <2>1. TaskSound(n) /\ (sent[n].at # "ended" => sent[n].card \in Card)
    BY TaskTypes DEF GradesSound
  <2> QED
    BY <1>1, <1>3, <2>1 DEF TaskSound, EventOf, CompletedFor
<1>5. \A d \in Card : CardSound(d)'
  BY <1>1, <1>3 DEF GradesSound, CardSound, Tells, Latest, EventOf
<1> QED
  BY <1>1, <1>2, <1>4, <1>5 DEF GradesSound, TicketsDistinct, CompletedFor

-----------------------------------------------------------------------------
(* The metrics.                                                            *)

\* What a card tells is what the metrics judge by.
LEMMA JudgedAsTold ==
  ASSUME GradesSound, NEW c \in Settled
  PROVE  /\ c \in Card
         /\ c \in Judged <=> told[c] # NoMark
         /\ c \in Judged => LatestGrade(c).grade = told[c]
<1>1. c \in Card /\ Tells(c)
  BY DEF Settled, GradesSound, CardSound
<1>2. CASE told[c] = NoMark
  BY <1>1, <1>2 DEF Tells, Judged
<1>3. CASE told[c] # NoMark
  <2>1. PICK e \in events : e.grade = told[c] /\ Latest(c, e)
    BY <1>1, <1>3 DEF Tells
  <2>2. c \in Judged
    BY <1>1, <2>1 DEF Judged, Latest, GradesSound, CompletedFor
  <2>3. \A f \in events : f.created \in Nat
    BY DEF GradesSound, FeedbackTypes, Events
  <2>4. \A f \in events : f.card = c /\ (\A g \in events : g.card = c => g.created <= f.created) => f = e
    BY <2>1, <2>3 DEF Latest, GradesSound, TicketsDistinct
  <2>5. LatestGrade(c) = e
    BY <2>1, <2>4 DEF LatestGrade, Latest
  <2> QED
    BY <1>1, <1>3, <2>1, <2>2, <2>5
<1> QED
  BY <1>2, <1>3

LEMMA ReadFeedbackStep == ASSUME GradesSound, ReadFeedback PROVE ReportSaysAsTold'
<1>1. PICK grades, report, said :
        /\ grades = [c \in Judged |-> LatestGrade(c).grade]
        /\ report = FeedbackMetrics(grades, metrics.impressions)
        /\ said = [c \in Settled |-> told[c]]
  OBVIOUS
<1>2. metrics'.report = report /\ metrics'.said = said
  BY <1>1 DEF ReadFeedback
<1>3. /\ DOMAIN grades = Judged /\ DOMAIN said = Settled
      /\ \A c \in Judged : grades[c] = LatestGrade(c).grade
      /\ \A c \in Settled : said[c] = told[c]
  BY <1>1
<1>4. PICK top : top = {c \in Judged : RankOf(c) <= TopRanks}
  OBVIOUS
<1>5. PICK full : full = {q \in Search : Expected(q) # {} /\ {RankOf(c) : c \in {d \in top : d[1] = q}} = Expected(q)}
  OBVIOUS
<1>6. /\ report.judgments = grades /\ report.full = full
      /\ report.relevant =
           [q \in full |-> Cardinality({c \in {d \in top : d[1] = q} : grades[c] # "bad"})]
  BY <1>1, <1>3, <1>4, <1>5 DEF FeedbackMetrics
<1>7. \A c \in Settled : /\ c \in Judged <=> said[c] # NoMark
                         /\ c \in Judged => grades[c] = said[c]
  BY <1>3, JudgedAsTold
<1>8. ASSUME NEW q \in Search, NEW cards, cards = {c \in Card : c[1] = q /\ RankOf(c) <= TopRanks},
             cards # {}, cards \subseteq DOMAIN said
      PROVE  /\ q \in full <=> \A c \in cards : said[c] # NoMark
             /\ q \in full =>
                  report.relevant[q] = Cardinality({c \in cards : said[c] # "bad"})
  <2>1. {d \in top : d[1] = q} = cards \cap Judged
    BY <1>4, <1>8 DEF Judged
  <2>2. Expected(q) = {RankOf(c) : c \in cards}
    <3>1. ASSUME NEW r \in Expected(q) PROVE \E c \in cards : r = RankOf(c)
      <4>1. r \in DOMAIN ShownOf[q] /\ r <= TopRanks
        BY ExpectedRanks
      <4>2. PICK c : c = <<q, ShownOf[q][r]>>
        OBVIOUS
      <4>3. c \in Card /\ RankOf(c) = r /\ c[1] = q
        BY <4>1, <4>2, CardRanks
      <4> QED
        BY <1>8, <4>1, <4>3
    <3>2. \A c \in cards : RankOf(c) \in Expected(q)
      BY <1>8, CardRanks, ExpectedRanks
    <3> QED
      BY <3>1, <3>2
  <2>3. \A c, d \in cards : RankOf(c) = RankOf(d) => c = d
    BY <1>8, CardRanks
  <2>4. Expected(q) # {}
    BY <1>8, <2>2
  <2>5. {RankOf(c) : c \in cards \cap Judged} = Expected(q) <=> cards \subseteq Judged
    BY <2>2, <2>3
  <2>6. q \in full <=> cards \subseteq Judged
    BY <1>5, <2>1, <2>4, <2>5
  <2>7. cards \subseteq Judged <=> \A c \in cards : said[c] # NoMark
    BY <1>3, <1>7, <1>8
  <2>8. ASSUME q \in full
        PROVE  report.relevant[q] = Cardinality({c \in cards : said[c] # "bad"})
    <3>1. cards \subseteq Judged /\ \A c \in cards : grades[c] = said[c]
      BY <1>3, <1>7, <1>8, <2>6, <2>8
    <3>2. {c \in {d \in top : d[1] = q} : grades[c] # "bad"} = {c \in cards : said[c] # "bad"}
      BY <2>1, <3>1
    <3> QED
      BY <1>6, <2>8, <3>2
  <2> QED
    BY <2>6, <2>7, <2>8
<1>9. \A c \in DOMAIN said :
        IF said[c] = NoMark THEN c \notin DOMAIN report.judgments
        ELSE c \in DOMAIN report.judgments /\ report.judgments[c] = said[c]
  BY <1>3, <1>6, <1>7
<1>10. \A q \in Search :
         LET cards == {c \in Card : c[1] = q /\ RankOf(c) <= TopRanks} IN
         cards # {} /\ cards \subseteq DOMAIN said =>
           /\ q \in report.full <=> \A c \in cards : said[c] # NoMark
           /\ q \in report.full =>
                report.relevant[q] = Cardinality({c \in cards : said[c] # "bad"})
  BY <1>6, <1>8
<1> QED
  BY <1>2, <1>9, <1>10 DEF ReportSaysAsTold

LEMMA FeedbackInvStep == FeedbackInv /\ [FeedbackNext]_feedbackVars => FeedbackInv'
<1> SUFFICES ASSUME FeedbackInv, [FeedbackNext]_feedbackVars PROVE FeedbackInv'
  OBVIOUS
<1>1. GradesSound /\ ReportSaysAsTold
  BY DEF FeedbackInv
<1>2. ASSUME UNCHANGED <<searched, sent, saving, events, ticket, told, doubted>> PROVE GradesSound'
  <2>1. searched' \in [Search -> {"started", "shown", "completed"}]
    BY <1>1, <1>2 DEF GradesSound, FeedbackTypes
  <2> QED
    BY <1>1, <1>2, <2>1, SearchStep
<1>3. UNCHANGED metrics => ReportSaysAsTold'
  BY <1>1 DEF ReportSaysAsTold
<1>4. ASSUME NEW q \in Search, RecordShown(q) \/ CompleteSearch(q) PROVE FeedbackInv'
  <2>1. /\ searched' \in [Search -> {"started", "shown", "completed"}]
        /\ \A s \in Search : searched[s] = "completed" => searched'[s] = "completed"
        /\ UNCHANGED <<sent, saving, events, ticket, told, doubted, metrics>>
    BY <1>1, <1>4 DEF RecordShown, CompleteSearch, GradesSound, FeedbackTypes
  <2> QED
    BY <1>1, <1>3, <2>1, SearchStep DEF FeedbackInv
<1>5. ASSUME NEW c \in Card, TimeOut(c) PROVE FeedbackInv'
  BY <1>1, <1>3, <1>5, TimeOutStep DEF FeedbackInv, TimeOut
<1>6. ASSUME NEW c \in Card, NEW grade \in Mark, Send(c, grade) PROVE FeedbackInv'
  BY <1>1, <1>3, <1>6, SendStep DEF FeedbackInv, Send
<1>7. ASSUME NEW n \in DOMAIN sent,
             OpenFeedback(n) \/ CommitFeedback(n) \/ AnswerRecorded(n) \/ FailFeedback(n)
      PROVE  FeedbackInv'
  <2>1. UNCHANGED metrics
    BY <1>7 DEF OpenFeedback, CommitFeedback, AnswerRecorded, FailFeedback
  <2>2. GradesSound'
    BY <1>1, <1>7, OpenFeedbackStep, CommitFeedbackStep, AnswerRecordedStep, FailFeedbackStep
  <2> QED
    BY <1>3, <2>1, <2>2 DEF FeedbackInv
<1>8. CASE ReadImpressions
  <2>1. ReportSaysAsTold'
    BY <1>8 DEF ReadImpressions, ReportSaysAsTold
  <2> QED
    BY <1>2, <1>8, <2>1 DEF FeedbackInv, ReadImpressions
<1>9. CASE ReadFeedback
  BY <1>1, <1>2, <1>9, ReadFeedbackStep DEF FeedbackInv, ReadFeedback
<1>10. CASE UNCHANGED feedbackVars
  BY <1>2, <1>3, <1>10 DEF FeedbackInv, feedbackVars
<1> QED
  BY <1>4, <1>5, <1>6, <1>7, <1>8, <1>9, <1>10 DEF FeedbackNext

\* A report of the dashboard judges results as their visitors were told, however
\* grades were changed, lost, given up and recorded after all.
THEOREM ReportsAsTold == FeedbackSpec => []ReportSaysAsTold
<1>1. FeedbackInv => ReportSaysAsTold
  BY DEF FeedbackInv
<1> QED
  BY <1>1, InitFeedbackInv, FeedbackInvStep, PTL DEF FeedbackSpec

GradesCounted ==
  /\ Len(sent) <= MaxGrades
  /\ \A e \in events : e.card \in Card /\ e.grade \in Mark /\ e.created \in 1 .. ticket

LEMMA GradesCountedStep ==
  FeedbackInv /\ GradesCounted /\ [FeedbackNext]_feedbackVars => GradesCounted'
<1> SUFFICES ASSUME FeedbackInv, GradesCounted, [FeedbackNext]_feedbackVars PROVE GradesCounted'
  OBVIOUS
<1>1. FeedbackTypes /\ \A n \in DOMAIN sent : TaskSound(n)
  BY DEF FeedbackInv, GradesSound
<1>2. sent \in Seq(Grades \union {Over}) /\ ticket \in Nat /\ MaxGrades \in Nat
  BY <1>1, FeedbackAssumption DEF FeedbackTypes
\* The event of a task that is open.
<1>3. ASSUME NEW n \in DOMAIN sent, sent[n].at = "open"
      PROVE  EventOf(n).card \in Card /\ EventOf(n).grade \in Mark
             /\ EventOf(n).created \in 1 .. ticket
  <2>1. sent[n] \in Grades
    BY <1>2, <1>3 DEF Over
  <2>2. sent[n].created \in 1 .. ticket
    BY <1>1, <1>3 DEF TaskSound
  <2> QED
    BY <2>1, <2>2 DEF EventOf, Grades
<1>4. ASSUME NEW c \in Card, NEW grade \in Mark, Send(c, grade) PROVE GradesCounted'
  <2>1. Len(sent') = Len(sent) + 1 /\ Len(sent) < MaxGrades
    BY <1>2, <1>4 DEF Send
  <2> QED
    BY <1>2, <1>4, <2>1 DEF GradesCounted, Send
<1>5. ASSUME NEW n \in DOMAIN sent, OpenFeedback(n) PROVE GradesCounted'
  <2>1. Len(sent') = Len(sent) /\ events' = events /\ ticket' \in {ticket, ticket + 1}
    BY <1>2, <1>5 DEF OpenFeedback
  <2> QED
    BY <1>2, <2>1 DEF GradesCounted
<1>6. ASSUME NEW n \in DOMAIN sent, CommitFeedback(n) PROVE GradesCounted'
  <2>1. Len(sent') = Len(sent) /\ events' = events \union {EventOf(n)} /\ ticket' = ticket
    BY <1>2, <1>6 DEF CommitFeedback
  <2> QED
    BY <1>3, <1>6, <2>1 DEF GradesCounted, CommitFeedback
<1>7. ASSUME NEW n \in DOMAIN sent, AnswerRecorded(n) PROVE GradesCounted'
  <2>1. Len(sent') = Len(sent) /\ events' = events /\ ticket' = ticket
    BY <1>2, <1>7 DEF AnswerRecorded
  <2> QED
    BY <2>1 DEF GradesCounted
<1>8. ASSUME NEW n \in DOMAIN sent, FailFeedback(n) PROVE GradesCounted'
  <2>1. Len(sent') = Len(sent) /\ ticket' = ticket
    BY <1>2, <1>8 DEF FailFeedback
  <2>2. \/ events' = events
        \/ sent[n].at = "open" /\ events' = events \union {EventOf(n)}
    BY <1>8 DEF FailFeedback
  <2> QED
    BY <1>3, <2>1, <2>2 DEF GradesCounted
<1>9. CASE UNCHANGED <<sent, events, ticket>>
  BY <1>9 DEF GradesCounted
<1> QED
  BY <1>4, <1>5, <1>6, <1>7, <1>8, <1>9
     DEF FeedbackNext, feedbackVars, RecordShown, CompleteSearch, TimeOut, ReadImpressions,
         ReadFeedback

\* Every grade sent is one a card waits for or gave up, every event was
\* recorded by a transaction, and no more grades are sent than the bound allows.
THEOREM FeedbackTypeCorrect == FeedbackSpec => []FeedbackTypeOK
<1>1. FeedbackInit => GradesCounted
  BY FeedbackAssumption DEF FeedbackInit, GradesCounted
<1>2. ASSUME FeedbackInv, GradesCounted PROVE FeedbackTypeOK
  BY <1>2 DEF FeedbackInv, GradesSound, FeedbackTypes, GradesCounted, FeedbackTypeOK
<1> QED
  BY <1>1, <1>2, InitFeedbackInv, FeedbackInvStep, GradesCountedStep, PTL DEF FeedbackSpec

-----------------------------------------------------------------------------
(***************************************************************************)
(* Proofs about ReviewQueue for any reviewers, processes, picks and        *)
(* labels.                                                                 *)
(*                                                                         *)
(* A process reads the annotations on file and writes its own line under   *)
(* its lock, so what it read is still complete for its own lines when it   *)
(* writes (HandSound). A label names a decision no older than the one      *)
(* shown, whatever was decided and imported between the two (Judges).      *)
(***************************************************************************)

Looking == [at : {"looking"}, pick : Pick, seen : 1 .. MaxDecisions]
Labeled == [at : {"labeled"}, label : Label]
Writing ==
  [at : {"writing"}, label : Label, onFile : SUBSET (Pick \X Verdict \X (1 .. MaxDecisions))]

ReviewTypes ==
  /\ decided \in 0 .. MaxDecisions /\ dated \in 0 .. MaxLabels /\ torn \in BOOLEAN
  /\ file \in [Pick -> SUBSET (1 .. decided)] /\ rows \in [Pick -> SUBSET (1 .. decided)]
  /\ lines \in Seq(Label)
  /\ hand \in [Reviewer -> {NoHand} \union Looking \union Labeled \union Writing]

\* A label judges a decision that was there when the answer was given, and none
\* that is older than the one shown.
Judges(l) == l.seen <= l.source /\ l.source <= l.known

\* What a reviewer holds; onFile has every line of his own process.
HandSound(h, r) ==
  /\ h.at = "looking" /\ Serves(r) => h.seen \in rows[h.pick]
  /\ h.at \in {"labeled", "writing"} => h.label.by = r /\ Judges(h.label)
  /\ h.at = "writing" =>
       \A i \in DOMAIN lines :
         ProcessOf[lines[i].by] = ProcessOf[r] => Annotation(lines[i]) \in h.onFile

ReviewInv ==
  /\ ReviewTypes
  /\ \A r \in Reviewer : HandSound(hand[r], r)
  /\ \A q, r \in Reviewer :
       hand[q].at = "writing" /\ hand[r].at = "writing" /\ ProcessOf[q] = ProcessOf[r] => q = r
  /\ \A i \in DOMAIN lines : Judges(lines[i])
  /\ OneLinePerAnnotation

LEMMA InitReviewInv == ReviewInit => ReviewInv
<1> SUFFICES ASSUME ReviewInit PROVE ReviewInv
  OBVIOUS
<1>1. lines = <<>> /\ \A r \in Reviewer : hand[r] = NoHand
  BY DEF ReviewInit
<1>2. ReviewTypes
  <2>1. decided \in 0 .. MaxDecisions /\ dated \in 0 .. MaxLabels
    <3>1. MaxDecisions \in Nat /\ MaxLabels \in Nat
      BY ReviewAssumption
    <3> QED
      BY <3>1 DEF ReviewInit
  <2>4. torn \in BOOLEAN
    BY DEF ReviewInit
  <2>2. file \in [Pick -> SUBSET (1 .. decided)] /\ rows \in [Pick -> SUBSET (1 .. decided)]
    BY DEF ReviewInit
  <2>3. lines \in Seq(Label) /\ hand \in [Reviewer -> {NoHand} \union Looking \union Labeled \union Writing]
    BY DEF ReviewInit
  <2> QED
    BY <2>1, <2>2, <2>3, <2>4 DEF ReviewTypes
<1> QED
  BY <1>1, <1>2 DEF ReviewInv, HandSound, NoHand, OneLinePerAnnotation

LEMMA HandKinds ==
  ASSUME ReviewTypes, NEW r \in Reviewer
  PROVE  /\ hand[r].at = "looking" => hand[r] \in Looking
         /\ hand[r].at = "labeled" => hand[r] \in Labeled
         /\ hand[r].at = "writing" => hand[r] \in Writing
  BY DEF ReviewTypes, NoHand, Looking, Labeled, Writing

(* A set of numbers up to n has a greatest.                                *)
LEMMA GreatestOf ==
  ASSUME NEW n \in Nat, NEW S \in SUBSET (1 .. n), S # {}
  PROVE  Max(S) \in S /\ \A x \in S : x <= Max(S)
<1> DEFINE T == {n - x : x \in S}
<1>1. T \subseteq Nat /\ T # {}
  <2>1. \A x \in S : n - x \in Nat
    OBVIOUS
  <2> QED
    BY <2>1
<1> HIDE DEF T
<1>2. PICK m \in T : \A y \in T : <<y, m>> \notin OpToRel(<, Nat)
  BY <1>1, NatLessThanWellFounded, WFMin, Zenon
<1>3. \A y \in T : ~(y < m)
  BY <1>1, <1>2 DEF OpToRel
<1>4. PICK x \in S : m = n - x
  BY DEF T
<1>5. \A y \in S : x >= y
  <2> SUFFICES ASSUME NEW y \in S PROVE x >= y
    OBVIOUS
  <2>1. n - y \in T
    BY DEF T
  <2> QED
    BY <1>3, <1>4, <2>1
<1> QED
  BY <1>4, <1>5 DEF Max

\* Steps that leave the lines, in which at most one reviewer goes on.
LEMMA HandMoves ==
  ASSUME ReviewInv, NEW r \in Reviewer, NEW to,
         to \in {NoHand} \union Looking \union Labeled \union Writing,
         hand' = [hand EXCEPT ![r] = to],
         UNCHANGED <<decided, file, rows, lines>>,
         dated' \in 0 .. MaxLabels, torn' \in BOOLEAN,
         HandSound(to, r), to.at = "writing" => WriteLockFree(r)
  PROVE  ReviewInv'
<1>1. hand'[r] = to /\ \A q \in Reviewer \ {r} : hand'[q] = hand[q]
  BY DEF ReviewInv, ReviewTypes
<1>2. ReviewTypes'
  BY DEF ReviewInv, ReviewTypes
<1>3. \A q \in Reviewer : HandSound(hand[q], q)'
  BY <1>1 DEF ReviewInv, HandSound, Annotation, Judges, Serves
<1>4. \A q, s \in Reviewer :
        hand'[q].at = "writing" /\ hand'[s].at = "writing" /\ ProcessOf[q] = ProcessOf[s] => q = s
  BY <1>1 DEF ReviewInv, WriteLockFree
<1> QED
  BY <1>2, <1>3, <1>4 DEF ReviewInv, OneLinePerAnnotation, Annotation, Judges

\* A run decides, or its decisions are imported.
LEMMA DecisionsGrow ==
  ASSUME ReviewInv, decided \in Nat,
         decided' \in decided .. MaxDecisions,
         file' \in [Pick -> SUBSET (1 .. decided')],
         rows' \in [Pick -> SUBSET (1 .. decided')],
         \A c \in Pick : rows[c] \subseteq rows'[c],
         UNCHANGED <<dated, lines, torn, hand>>
  PROVE  ReviewInv'
<1>1. ReviewTypes'
  BY DEF ReviewInv, ReviewTypes
<1>2. ASSUME NEW q \in Reviewer PROVE HandSound(hand[q], q)'
  <2>1. hand[q].at = "looking" => hand[q].pick \in Pick
    BY HandKinds DEF ReviewInv, Looking
  <2> QED
    BY <2>1 DEF ReviewInv, HandSound, Annotation, Judges, Serves
<1> QED
  BY <1>1, <1>2 DEF ReviewInv, OneLinePerAnnotation, Annotation, Judges

LEMMA DecideStep == ASSUME ReviewInv, NEW c \in Pick, Decide(c) PROVE ReviewInv'
<1>1. decided \in Nat /\ decided' = decided + 1 /\ decided' \in 0 .. MaxDecisions
  BY ReviewAssumption DEF ReviewInv, ReviewTypes, Decide
<1>2. UNCHANGED <<rows, dated, lines, torn, hand>>
  BY DEF Decide
<1>3. PICK kept \in {file, [d \in Pick |-> {}]} : file' = [kept EXCEPT ![c] = @ \union {decided'}]
  BY DEF Decide
<1>4. kept \in [Pick -> SUBSET (1 .. decided)]
  BY DEF ReviewInv, ReviewTypes
<1>5. 1 .. decided \subseteq 1 .. decided' /\ decided' \in 1 .. decided'
  BY <1>1
<1>6. /\ file' \in [Pick -> SUBSET (1 .. decided')]
      /\ rows' \in [Pick -> SUBSET (1 .. decided')]
  BY <1>2, <1>3, <1>4, <1>5 DEF ReviewInv, ReviewTypes
<1> QED
  BY <1>1, <1>2, <1>6, DecisionsGrow

LEMMA ImportDecisionsStep == ASSUME ReviewInv, ImportDecisions PROVE ReviewInv'
<1>1. decided \in Nat /\ decided' \in decided .. MaxDecisions
  BY DEF ReviewInv, ReviewTypes, ImportDecisions
<1>2. /\ file' \in [Pick -> SUBSET (1 .. decided')]
      /\ rows' \in [Pick -> SUBSET (1 .. decided')]
      /\ \A c \in Pick : rows[c] \subseteq rows'[c]
  BY DEF ReviewInv, ReviewTypes, ImportDecisions
<1> QED
  BY <1>1, <1>2, DecisionsGrow DEF ImportDecisions

LEMMA LookStep ==
  ASSUME ReviewInv, NEW r \in Reviewer, NEW c \in Pick, ShowItem(r, c) \/ ExportItem(r, c)
  PROVE  ReviewInv'
<1>1. /\ decided \in Nat /\ 1 .. decided \subseteq 1 .. MaxDecisions
      /\ rows[c] \in SUBSET (1 .. decided) /\ file[c] \in SUBSET (1 .. decided)
  BY ReviewAssumption DEF ReviewInv, ReviewTypes
<1>2. PICK d \in 1 .. decided : Look(r, c, d) /\ (Serves(r) => d \in rows[c])
  <2>1. CASE ShowItem(r, c)
    BY <1>1, <2>1, GreatestOf DEF ShowItem, LatestRow
  <2>2. CASE ExportItem(r, c)
    BY <1>1, <2>2, GreatestOf DEF ExportItem, LatestInFile
  <2> QED
    BY <2>1, <2>2
<1>3. PICK to : to = [at |-> "looking", pick |-> c, seen |-> d]
  OBVIOUS
<1>4. /\ to \in Looking /\ HandSound(to, r) /\ to.at # "writing"
      /\ hand' = [hand EXCEPT ![r] = to] /\ UNCHANGED labelVars
  BY <1>1, <1>2, <1>3 DEF Look, Looking, HandSound
<1> QED
  BY <1>4, HandMoves DEF labelVars, ReviewInv, ReviewTypes

LEMMA AnswerStep ==
  ASSUME ReviewInv, NEW r \in Reviewer, NEW v \in Verdict, SubmitLabel(r, v) \/ ImportRow(r, v)
  PROVE  ReviewInv'
<1>1. PICK h : h = hand[r]
  OBVIOUS
<1>2. h \in Looking /\ h.pick \in Pick /\ h.seen \in 1 .. MaxDecisions
  BY <1>1, HandKinds DEF SubmitLabel, ImportRow, ReviewInv, Looking
<1>3. PICK all : all = file[h.pick] \union rows[h.pick] \union {h.seen}
  OBVIOUS
<1>4. /\ MaxDecisions \in Nat /\ all \in SUBSET (1 .. MaxDecisions) /\ h.seen \in all
      /\ rows[h.pick] \in SUBSET (1 .. MaxDecisions) /\ rows[h.pick] \subseteq all
  BY <1>2, <1>3, ReviewAssumption DEF ReviewInv, ReviewTypes
<1>5. Max(all) \in 1 .. MaxDecisions /\ \A x \in all : x <= Max(all)
  BY <1>4, GreatestOf
<1>6. PICK source : /\ Answers(r, v, source) /\ source \in all /\ h.seen <= source
  <2>1. CASE SubmitLabel(r, v)
    <3>1. h.seen \in rows[h.pick]
      BY <1>1, <2>1 DEF SubmitLabel, ReviewInv, HandSound
    <3>2. LatestRow(h.pick) \in rows[h.pick] /\ h.seen <= LatestRow(h.pick)
      BY <1>4, <3>1, GreatestOf DEF LatestRow
    <3> QED
      BY <1>1, <1>4, <2>1, <3>2 DEF SubmitLabel
  <2>2. CASE ImportRow(r, v)
    BY <1>1, <1>2, <1>4, <2>2 DEF ImportRow
  <2> QED
    BY <2>1, <2>2
<1>7. PICK l : l = [pick |-> h.pick, says |-> v, source |-> source, time |-> dated',
                    seen |-> h.seen, known |-> Max(all), by |-> r]
  OBVIOUS
<1>8. PICK to : to = [at |-> "labeled", label |-> l]
  OBVIOUS
<1>9. dated' \in 1 .. MaxLabels
  BY <1>6, ReviewAssumption DEF Answers, ReviewInv, ReviewTypes
<1>10. l \in Label /\ l.by = r /\ Judges(l)
  BY <1>2, <1>4, <1>5, <1>6, <1>7, <1>9 DEF Label, Judges
<1>11. to \in Labeled /\ HandSound(to, r) /\ to.at # "writing"
  BY <1>8, <1>10 DEF Labeled, HandSound
<1>12. hand' = [hand EXCEPT ![r] = to] /\ UNCHANGED <<decided, file, rows, lines, torn>>
  BY <1>1, <1>3, <1>6, <1>7, <1>8 DEF Answers
<1> QED
  <2>1. dated' \in 0 .. MaxLabels
    BY <1>9
  <2>2. torn' \in BOOLEAN
    BY <1>12 DEF ReviewInv, ReviewTypes
  <2>3. to \in {NoHand} \union Looking \union Labeled \union Writing
    BY <1>11
  <2> QED
    BY <1>11, <1>12, <2>1, <2>2, <2>3, HandMoves

LEMMA LinesOnFile ==
  ASSUME ReviewTypes
  PROVE  /\ \A i \in DOMAIN lines : lines[i] \in Label
         /\ AnnotationsOnFile \in SUBSET (Pick \X Verdict \X (1 .. MaxDecisions))
         /\ \A i \in DOMAIN lines : Annotation(lines[i]) \in AnnotationsOnFile
<1>1. \A i \in DOMAIN lines : lines[i] \in Label
  BY DEF ReviewTypes
<1> QED
  BY <1>1 DEF AnnotationsOnFile, ToSet, Annotation, Label

LEMMA ReadAnnotationsStep == ASSUME ReviewInv, NEW r \in Reviewer, ReadAnnotations(r) PROVE ReviewInv'
<1>1. PICK h, to : /\ h = hand[r]
                   /\ to = IF torn THEN NoHand
                           ELSE [at |-> "writing", label |-> h.label, onFile |-> AnnotationsOnFile]
  OBVIOUS
<1>2. /\ h \in Labeled /\ WriteLockFree(r) /\ hand' = [hand EXCEPT ![r] = to] /\ UNCHANGED labelVars
      /\ HandSound(h, r) /\ h.at = "labeled"
  BY <1>1, HandKinds DEF ReadAnnotations, ReviewInv
<1>3. to \in {NoHand} \union Writing
  BY <1>1, <1>2, LinesOnFile DEF ReviewInv, Writing, Labeled
<1>4. HandSound(to, r)
  BY <1>1, <1>2, LinesOnFile DEF ReviewInv, HandSound, NoHand
<1> QED
  BY <1>2, <1>3, <1>4, HandMoves DEF labelVars, ReviewInv, ReviewTypes

LEMMA WriteTornStep == ASSUME ReviewInv, NEW r \in Reviewer, WriteTorn(r) PROVE ReviewInv'
<1>1. HandSound(NoHand, r) /\ NoHand.at # "writing"
  BY DEF HandSound, NoHand
<1> QED
  BY <1>1, HandMoves DEF WriteTorn, ReviewInv, ReviewTypes

LEMMA WriteLabelStep == ASSUME ReviewInv, NEW r \in Reviewer, WriteLabel(r) PROVE ReviewInv'
<1>1. /\ hand[r].at = "writing" /\ hand' = [hand EXCEPT ![r] = NoHand]
      /\ UNCHANGED <<decided, file, rows, dated, torn>>
  BY DEF WriteLabel
<1>2. HandSound(NoHand, r) /\ NoHand.at # "writing"
  BY DEF HandSound, NoHand
<1>3. CASE lines' = lines
  BY <1>1, <1>2, <1>3, HandMoves DEF ReviewInv, ReviewTypes
<1>4. CASE lines' # lines
  <2>1. PICK l, n : l = hand[r].label /\ n = Len(lines) + 1
    OBVIOUS
  <2>2. lines' = Append(lines, l) /\ Annotation(l) \notin hand[r].onFile
    BY <1>4, <2>1 DEF WriteLabel
  <2>3. l \in Label /\ l.by = r /\ Judges(l)
    BY <1>1, <2>1, HandKinds DEF ReviewInv, Writing, HandSound
  <2>4. /\ lines \in Seq(Label) /\ lines' \in Seq(Label) /\ n \in Nat
        /\ DOMAIN lines = 1 .. (n - 1) /\ DOMAIN lines' = 1 .. n /\ lines'[n] = l
        /\ \A i \in DOMAIN lines : lines'[i] = lines[i]
    BY <2>1, <2>2, <2>3 DEF ReviewInv, ReviewTypes
  <2>5. hand'[r] = NoHand /\ \A q \in Reviewer \ {r} : hand'[q] = hand[q]
    BY <1>1 DEF ReviewInv, ReviewTypes
  <2>6. ReviewTypes'
    BY <1>1, <2>4 DEF ReviewInv, ReviewTypes
  <2>7. ASSUME NEW q \in Reviewer PROVE HandSound(hand[q], q)'
    <3>1. CASE q = r
      BY <2>5, <3>1 DEF HandSound, NoHand
    <3>2. CASE q # r
      <4>1. hand'[q] = hand[q] /\ HandSound(hand[q], q)
        BY <2>5, <3>2 DEF ReviewInv
      <4>2. hand[q].at = "writing" => ProcessOf[l.by] # ProcessOf[q]
        BY <1>1, <2>3, <3>2 DEF ReviewInv
      <4>3. ASSUME hand[q].at = "writing", NEW i \in DOMAIN lines', ProcessOf[lines'[i].by] = ProcessOf[q]
            PROVE  Annotation(lines'[i]) \in hand[q].onFile
        <5>1. i # n
          BY <2>4, <4>2, <4>3
        <5>2. i \in DOMAIN lines /\ lines'[i] = lines[i]
          BY <2>4, <5>1
        <5> QED
          BY <4>1, <4>3, <5>2 DEF HandSound
      <4> QED
        BY <1>1, <4>1, <4>3 DEF HandSound, Annotation, Judges, Serves
    <3> QED
      BY <3>1, <3>2
  <2>8. \A q, s \in Reviewer :
          hand'[q].at = "writing" /\ hand'[s].at = "writing" /\ ProcessOf[q] = ProcessOf[s] => q = s
    BY <1>2, <2>5 DEF ReviewInv
  <2>9. \A i \in DOMAIN lines' : Judges(lines'[i])
    BY <2>3, <2>4 DEF ReviewInv
  <2>10. ASSUME NEW i \in DOMAIN lines', NEW j \in DOMAIN lines', i < j,
                Annotation(lines'[i]) = Annotation(lines'[j])
         PROVE  ProcessOf[lines'[i].by] # ProcessOf[lines'[j].by]
    <3>1. CASE j # n
      BY <2>4, <2>10, <3>1 DEF ReviewInv, OneLinePerAnnotation
    <3>2. CASE j = n
      <4>1. i \in DOMAIN lines /\ lines'[i] = lines[i] /\ lines'[j] = l
        BY <2>4, <2>10, <3>2
      <4>2. ProcessOf[lines[i].by] = ProcessOf[r] => Annotation(lines[i]) \in hand[r].onFile
        BY <1>1, <4>1 DEF ReviewInv, HandSound
      <4> QED
        BY <2>2, <2>3, <2>10, <4>1, <4>2
    <3> QED
      BY <3>1, <3>2
  <2> QED
    BY <2>6, <2>7, <2>8, <2>9, <2>10 DEF ReviewInv, OneLinePerAnnotation, Annotation, Judges
<1> QED
  BY <1>3, <1>4

LEMMA ReviewInvStep == ReviewInv /\ [ReviewNext]_reviewVars => ReviewInv'
<1> SUFFICES ASSUME ReviewInv, [ReviewNext]_reviewVars PROVE ReviewInv'
  OBVIOUS
<1>1. CASE UNCHANGED reviewVars
  <2>1. decided \in Nat /\ decided' \in decided .. MaxDecisions
    BY <1>1 DEF ReviewInv, ReviewTypes, reviewVars
  <2> QED
    BY <1>1, <2>1, DecisionsGrow DEF reviewVars, ReviewInv, ReviewTypes
<1>2. ASSUME NEW c \in Pick, Decide(c) PROVE ReviewInv'
  BY <1>2, DecideStep
<1>3. CASE ImportDecisions
  BY <1>3, ImportDecisionsStep
<1>4. ASSUME NEW r \in Reviewer, NEW c \in Pick, ShowItem(r, c) \/ ExportItem(r, c) PROVE ReviewInv'
  BY <1>4, LookStep
<1>5. ASSUME NEW r \in Reviewer, NEW v \in Verdict, SubmitLabel(r, v) \/ ImportRow(r, v) PROVE ReviewInv'
  BY <1>5, AnswerStep
<1>6. ASSUME NEW r \in Reviewer, ReadAnnotations(r) \/ WriteLabel(r) \/ WriteTorn(r) PROVE ReviewInv'
  BY <1>6, ReadAnnotationsStep, WriteLabelStep, WriteTornStep
<1> QED
  BY <1>1, <1>2, <1>3, <1>4, <1>5, <1>6 DEF ReviewNext

\* A sample pairs a label of the file with the decision the label names.
LEMMA SamplesOfLines ==
  ASSUME NEW store, NEW s \in Samples(store)
  PROVE  s[1] \in ToSet(lines) /\ s[2] = s[1].source
<1>1. PICK l \in UNION {LatestLabels(c) : c \in Pick} : \E d \in DecisionForLabel(store[l.pick], l) : s = <<l, d>>
  BY DEF Samples
<1>2. l \in ToSet(lines)
  BY <1>1 DEF LatestLabels
<1> QED
  BY <1>1, <1>2 DEF DecisionForLabel

\* The label file holds no annotation twice, unless two processes wrote it.
THEOREM AnnotationsOnce == ReviewSpec => []OneLinePerAnnotation
<1>1. ReviewInv => OneLinePerAnnotation
  BY DEF ReviewInv
<1> QED
  BY <1>1, InitReviewInv, ReviewInvStep, PTL DEF ReviewSpec

\* An evaluation compares a label with a decision that was there when its
\* reviewer answered, and with none older than the one he was shown.
THEOREM LabelsJudgeTheSeen == ReviewSpec => []EvaluatedAsSeen
<1>1. ASSUME ReviewInv PROVE EvaluatedAsSeen
  <2> SUFFICES ASSUME NEW s \in DatabaseSamples \union FileSamples
               PROVE  s[1].seen <= s[2] /\ s[2] <= s[1].known
    BY DEF EvaluatedAsSeen
  <2>1. s[1] \in ToSet(lines) /\ s[2] = s[1].source
    BY SamplesOfLines DEF DatabaseSamples, FileSamples
  <2> QED
    BY <1>1, <2>1 DEF ReviewInv, ToSet, Judges
<1> QED
  BY <1>1, InitReviewInv, ReviewInvStep, PTL DEF ReviewSpec

\* What a reviewer has in hand is one of the steps of a review, and decisions in
\* both stores are decisions that were made.
THEOREM ReviewTypeCorrect == ReviewSpec => []ReviewTypeOK
<1>1. ASSUME ReviewInv PROVE ReviewTypeOK
  <2>1. ASSUME NEW r \in Reviewer
        PROVE  hand[r].at \in {"idle", "looking", "labeled", "writing"}
    <3>1. hand[r] \in {NoHand} \union Looking \union Labeled \union Writing
      BY <1>1 DEF ReviewInv, ReviewTypes
    <3> QED
      BY <3>1 DEF NoHand, Looking, Labeled, Writing
  <2> QED
    BY <1>1, <2>1 DEF ReviewInv, ReviewTypes, ReviewTypeOK
<1> QED
  BY <1>1, InitReviewInv, ReviewInvStep, PTL DEF ReviewSpec
-----------------------------------------------------------------------------
(***************************************************************************)
(* Proofs about FilterDecisions for any processes, batches, pictures,      *)
(* scores and configurations, and any number of failures.                  *)
(*                                                                         *)
(* Every embedding is what it is filed as: an entry of the store is of the *)
(* image and of the model its key names (Belongs), and what a process has  *)
(* looked up or computed at a row answers for the image of that row        *)
(* (VectorsSound, Embedded). That the rows agree after only the missing    *)
(* images went through the model is AscendingOf.                           *)
(***************************************************************************)

(* What a loop over an enumerated list keeps is each place, once.           *)
LEMMA AscendingOf ==
  ASSUME NEW n \in Nat, NEW kept \in SUBSET (1 .. n)
  PROVE  /\ Cardinality(kept) \in Nat
         /\ Ascending(kept) \in [1 .. Cardinality(kept) -> kept]
         /\ \A i \in kept : \E row \in 1 .. Cardinality(kept) : Ascending(kept)[row] = i
<1> DEFINE Below(i) == {j \in kept : j < i}
<1>1. IsFiniteSet(kept) /\ \A T \in SUBSET kept : IsFiniteSet(T) /\ Cardinality(T) \in Nat
  <2>1. IsFiniteSet(1 .. n)
    BY FS_Interval
  <2> QED
    BY <2>1, FS_Subset, FS_CardinalityType
<1>2. PICK many \in Nat : many = Cardinality(kept)
  BY <1>1
<1>3. ASSUME NEW i \in kept, NEW above \in SUBSET kept, above \in {kept} \union {Below(j) : j \in kept},
             Below(i) \subseteq above, i \in above
      PROVE  Cardinality(Below(i)) < Cardinality(above)
  <2>1. PICK low : low = Below(i)
    OBVIOUS
  <2>2. i \notin low /\ low \in SUBSET above
    BY <1>3, <2>1
  <2>3. /\ IsFiniteSet(above) /\ Cardinality(above) \in Nat /\ Cardinality(low) \in Nat
    BY <1>1, <2>2
  <2>4. Cardinality(low) <= Cardinality(above) /\ Cardinality(low) # Cardinality(above)
    BY <1>3, <2>2, <2>3, FS_Subset
  <2> QED
    BY <2>1, <2>3, <2>4
<1>4. ASSUME NEW i \in kept PROVE Cardinality(Below(i)) \in Nat /\ Cardinality(Below(i)) < many
  BY <1>1, <1>2, <1>3
<1>5. ASSUME NEW i \in kept, NEW j \in kept, Cardinality(Below(i)) = Cardinality(Below(j)) PROVE i = j
  <2>1. ASSUME NEW a \in kept, NEW b \in kept, a < b PROVE Cardinality(Below(a)) < Cardinality(Below(b))
    <3>1. a \in Nat /\ b \in Nat /\ \A x \in kept : x \in Nat
      OBVIOUS
    <3>2. \A x \in kept : x < a => x < b
      BY <2>1, <3>1
    <3>3. a \in Below(b) /\ Below(a) \subseteq Below(b) /\ Below(b) \in SUBSET kept
      BY <2>1, <3>2
    <3> HIDE DEF Below
    <3> QED
      BY <1>3, <3>3
  <2>2. i \in Nat /\ j \in Nat /\ Cardinality(Below(i)) \in Nat /\ Cardinality(Below(j)) \in Nat
    BY <1>4
  <2>3. ~(i < j) /\ ~(j < i)
    BY <1>5, <2>1, <2>2
  <2> QED
    BY <2>2, <2>3
<1>6. PICK rank : rank = [i \in kept |-> Cardinality(Below(i)) + 1]
  OBVIOUS
<1> HIDE DEF Below
<1>7. rank \in [kept -> 1 .. many]
  BY <1>4, <1>6
<1>8. rank \in Injection(kept, 1 .. many)
  BY <1>4, <1>5, <1>6, <1>7 DEF Injection, IsInjective
<1>9. rank \in Surjection(kept, 1 .. many)
  <2>1. IsFiniteSet(1 .. many) /\ Cardinality(1 .. many) = many
    BY FS_Interval
  <2> QED
    BY <1>2, <1>8, <2>1, FS_Injection
<1>10. ASSUME NEW row \in 1 .. many
       PROVE  \E i \in kept : Cardinality(Below(i)) = row - 1
  <2>1. PICK i \in kept : rank[i] = row
    BY <1>9 DEF Surjection
  <2> QED
    BY <1>4, <1>6, <2>1
<1>11. Ascending(kept) = [row \in 1 .. many |-> CHOOSE i \in kept : Cardinality(Below(i)) = row - 1]
  BY <1>2 DEF Ascending, Below
<1>12. PICK a : a = Ascending(kept)
  OBVIOUS
<1>13. \A row \in 1 .. many : a[row] \in kept /\ Cardinality(Below(a[row])) = row - 1
  BY <1>10, <1>11, <1>12
<1>14. a \in [1 .. many -> kept]
  BY <1>11, <1>12, <1>13
<1>15. ASSUME NEW i \in kept PROVE \E row \in 1 .. many : a[row] = i
  <2>1. rank[i] \in 1 .. many /\ Cardinality(Below(i)) = rank[i] - 1
    BY <1>4, <1>6, <1>7
  <2> QED
    BY <1>5, <1>13, <2>1
<1> QED
  BY <1>2, <1>12, <1>14, <1>15

(* The values of the variables.                                            *)
Verdicts == {"accept", "review", "reject", "error"}
Outcomes == [decision : Verdicts] \union [decision : Verdicts, vector : Vector, prompts : Vector]
Found == UNION {[S -> Picture \union {Nothing}] : S \in SUBSET Entry}
Results == UNION {[S -> Outcomes] : S \in SUBSET Entry}
Nets == [pin : {0, 1}, processor : Commits, model : Commits, named : Commits,
         prompts : Vector \union {Nothing}]
Waiting == [at : {"idle"}, by : Preparation, net : Nets, picture : Found, results : Results]
Busy == {"fetching", "loading", "looking", "saving", "recording", "persisting"}
Working == [at : Busy, by : Preparation, net : Nets, prepared : Seq(Entry), picture : Found,
            vectors : Seq(Vector \union {Nothing}), unsaved : Seq([key : Key, vector : Vector]),
            results : Results]

\* An embedding that may answer for x, of a model that net names.
Fits(v, x, net, by, mixes) ==
  /\ v \in Vector /\ v.of = x /\ v.by = by
  /\ net.named # 0 => v.model = net.model /\ (v.processor = v.model \/ v.model \in mixes)

\* An entry of the store is what its key says.
Belongs(v, k, mixes) ==
  /\ v \in Vector /\ v.of = k[1] /\ v.by = k[3]
  /\ k[2] # 0 => v.model = k[2] /\ (v.processor = v.model \/ v.model \in mixes)

NetSound(net, by, mixes) ==
  /\ net.named # 0 => net.named = net.model
                      /\ (net.processor = net.model \/ net.model \in mixes)
  /\ net.prompts # Nothing => net.model # 0 /\ Fits(net.prompts, Prompts, net, by, mixes)

OutcomeSound(w, e, mixes) ==
  "vector" \in DOMAIN w.results[e] =>
    /\ w.results[e].decision = DecisionFor(Disposition(w.picture[e]), ScoresOf[w.picture[e]])
    /\ Fits(w.results[e].vector, w.picture[e], w.net, w.by, mixes)
    /\ Fits(w.results[e].prompts, Prompts, w.net, w.by, mixes)

\* A process between two batches.
WaitingSound(w, mixes) ==
  /\ NetSound(w.net, w.by, mixes)
  /\ \A e \in DOMAIN w.results : OutcomeSound(w, e, mixes)

VectorsSound(w, mixes) ==
  /\ Len(w.vectors) <= Len(w.prepared)
  /\ \A i \in 1 .. Len(w.prepared) : w.picture[w.prepared[i]] \in Picture
  /\ \A i \in 1 .. Len(w.vectors) : w.vectors[i] # Nothing =>
       Fits(w.vectors[i], w.picture[w.prepared[i]], w.net, w.by, mixes)

\* Where a process stands in its batch.
Embedded(w, mixes) ==
  /\ Len(w.vectors) = Len(w.prepared)
  /\ \A i \in 1 .. Len(w.vectors) :
       Fits(w.vectors[i], w.picture[w.prepared[i]], w.net, w.by, mixes)
  /\ \A i \in 1 .. Len(w.unsaved) : Belongs(w.unsaved[i].vector, w.unsaved[i].key, mixes)

WorkingSound(w, mixes) ==
  /\ VectorsSound(w, mixes)
  /\ w.at # "persisting" => \A e \in DOMAIN w.results : "vector" \notin DOMAIN w.results[e]
  /\ w.at \in {"fetching", "loading"} => w.vectors = <<>> /\ w.net.model = 0
  /\ w.at \in {"looking", "saving", "recording"} => w.net.model # 0
  /\ w.at \in {"saving", "recording"} => Embedded(w, mixes)
  /\ w.at = "recording" => w.unsaved # <<>>

SiftSound(w, mixes) ==
  /\ w \in {Off} \union Waiting \union Working
  /\ w.at # "off" => WaitingSound(w, mixes)
  /\ w.at \in Busy => WorkingSound(w, mixes)

DecisionInv ==
  /\ arrays \in [Key -> Vector \union {Nothing}] /\ records \subseteq Key
  /\ branch \in 1 .. CommitCount /\ mixed \subseteq Commits
  /\ DOMAIN sifting = Sifter
  /\ \A k \in Key : arrays[k] # Nothing => Belongs(arrays[k], k, mixed)
  /\ \A s \in Sifter : SiftSound(sifting[s], mixed)

LEMMA SoundStays ==
  ASSUME NEW w, NEW mixes, NEW more, SiftSound(w, mixes), mixes \subseteq more
  PROVE  SiftSound(w, more)
<1>1. \A v, x, net, by : Fits(v, x, net, by, mixes) => Fits(v, x, net, by, more)
  BY DEF Fits
<1>2. \A v, k : Belongs(v, k, mixes) => Belongs(v, k, more)
  BY DEF Belongs
<1>3. WaitingSound(w, mixes) => WaitingSound(w, more)
  BY <1>1 DEF WaitingSound, NetSound, OutcomeSound
<1>4. WorkingSound(w, mixes) => WorkingSound(w, more)
  BY <1>1, <1>2 DEF WorkingSound, VectorsSound, Embedded
<1> QED
  BY <1>3, <1>4 DEF SiftSound

LEMMA SiftStep ==
  ASSUME DecisionInv, NEW s \in Sifter, NEW w, SiftSound(w, mixed'),
         DOMAIN sifting' = Sifter, sifting'[s] = w, \A q \in Sifter \ {s} : sifting'[q] = sifting[q], mixed \subseteq mixed', mixed' \subseteq Commits,
         branch' = branch, records' \subseteq Key,
         arrays' \in [Key -> Vector \union {Nothing}],
         \A k \in Key : arrays'[k] # Nothing => Belongs(arrays'[k], k, mixed')
  PROVE  DecisionInv'
<1>1. PICK before, after : before = mixed /\ after = mixed'
  OBVIOUS
<1>2. ASSUME NEW q \in Sifter PROVE SiftSound(sifting'[q], after)
  <2>1. CASE q = s
    BY <1>1, <2>1 DEF DecisionInv
  <2>2. CASE q # s
    <3>1. SiftSound(sifting[q], before) /\ sifting'[q] = sifting[q]
      BY <1>1, <2>2 DEF DecisionInv
    <3>2. PICK v : v = sifting[q]
      OBVIOUS
    <3>3. SiftSound(v, after)
      BY <1>1, <3>1, <3>2, SoundStays
    <3> QED
      BY <3>1, <3>2, <3>3
  <2> QED
    BY <2>1, <2>2
<1>3. \A q \in Sifter : SiftSound(sifting[q], mixed)'
  BY <1>1, <1>2
<1>4. \A k \in Key : (arrays[k] # Nothing => Belongs(arrays[k], k, mixed))'
  BY DEF Belongs
<1> QED
  BY <1>3, <1>4 DEF DecisionInv

\* The same, of a step that leaves the store and the models alone.
LEMMA QuietStep ==
  ASSUME DecisionInv, NEW s \in Sifter, NEW w, SiftSound(w, mixed),
         DOMAIN sifting' = Sifter, sifting'[s] = w, \A q \in Sifter \ {s} : sifting'[q] = sifting[q], UNCHANGED <<arrays, records, branch, mixed>>
  PROVE  DecisionInv'
<1>1. \A k \in Key : arrays'[k] # Nothing => Belongs(arrays'[k], k, mixed')
  BY DEF DecisionInv, Belongs
<1>2. PICK m : m = mixed /\ m = mixed'
  OBVIOUS
<1>3. SiftSound(w, mixed')
  BY <1>2
<1> QED
  BY <1>1, <1>3, SiftStep DEF DecisionInv

\* What an inductive step knows of the process that takes it.
LEMMA Stands ==
  ASSUME DecisionInv, NEW s \in Sifter
  PROVE  /\ sifting[s].at \in Busy =>
              /\ sifting[s] \in Working
              /\ WaitingSound(sifting[s], mixed) /\ WorkingSound(sifting[s], mixed)
         /\ sifting[s].at = "idle" => sifting[s] \in Waiting /\ WaitingSound(sifting[s], mixed)
<1>1. SiftSound(sifting[s], mixed)
  BY DEF DecisionInv
<1> QED
  BY <1>1 DEF SiftSound, Off, Waiting, Working, Busy

LEMMA FetchProcessorStep ==
  ASSUME DecisionInv, NEW s \in Sifter, FetchProcessor(s)
  PROVE  DecisionInv'
<1>1. PICK w : w = sifting[s]
  OBVIOUS
<1>2. /\ w \in Working /\ w.at = "fetching"
      /\ WaitingSound(w, mixed) /\ WorkingSound(w, mixed)
  BY <1>1, Stands DEF FetchProcessor, Doing, Busy
<1>3. PICK p : p = (IF w.net.pin = 0 THEN branch ELSE w.net.pin)
  OBVIOUS
<1>4. p \in Commits /\ w.net \in Nets
  BY <1>2, <1>3, DecisionAssumption DEF DecisionInv, Commits, Working, Nets
<1>5. PICK net : net = [w.net EXCEPT !.processor = p]
  OBVIOUS
<1>6. net \in Nets /\ net.model = w.net.model /\ net.named = w.net.named /\ net.prompts = w.net.prompts
  BY <1>4, <1>5 DEF Nets
<1>7. PICK new : new = [w EXCEPT !.at = "loading", !.net = net]
  OBVIOUS
<1>8. /\ new \in Working /\ new.at = "loading" /\ new.by = w.by /\ new.net = net
      /\ new.prepared = w.prepared /\ new.picture = w.picture /\ new.vectors = w.vectors
      /\ new.unsaved = w.unsaved /\ new.results = w.results
  BY <1>2, <1>6, <1>7 DEF Working, Busy
<1>9. w.net.model = 0 /\ w.net.named = 0 /\ w.net.prompts = Nothing /\ w.vectors = <<>>
  BY <1>2 DEF WorkingSound, WaitingSound, NetSound
<1>10. SiftSound(new, mixed)
  <2>1. WaitingSound(new, mixed)
    BY <1>2, <1>6, <1>8, <1>9 DEF WaitingSound, NetSound, OutcomeSound, WorkingSound
  <2>2. WorkingSound(new, mixed)
    BY <1>2, <1>6, <1>8, <1>9 DEF WorkingSound, VectorsSound
  <2> QED
    BY <1>8, <2>1, <2>2 DEF SiftSound
<1>11. DOMAIN sifting' = Sifter /\ sifting'[s] = new /\ \A q \in Sifter \ {s} : sifting'[q] = sifting[q]
  <2>1. sifting' = [sifting EXCEPT ![s].at = "loading", ![s].net.processor = p]
    BY <1>1, <1>3 DEF FetchProcessor, Net
  <2>2. DOMAIN sifting' = Sifter /\ \A q \in Sifter \ {s} : sifting'[q] = sifting[q]
    BY <2>1 DEF DecisionInv
  <2>3. sifting'[s] = [w EXCEPT !.at = "loading", !.net.processor = p]
    BY <1>1, <2>1 DEF DecisionInv
  <2>4. [w EXCEPT !.at = "loading", !.net.processor = p] = new
    BY <1>2, <1>5, <1>7 DEF Working
  <2> QED
    BY <2>2, <2>3, <2>4
<1> QED
  BY <1>10, <1>11, QuietStep DEF FetchProcessor

\* What the store answers, and what the model computes, at a process that has
\* its model.
LEMMA AnswersOf ==
  ASSUME DecisionInv, NEW s \in Sifter, sifting[s] \in Working,
         NetSound(sifting[s].net, sifting[s].by, mixed), NEW x \in Subject
  PROVE  /\ KeyOf(s, x) \in Key /\ Cached(KeyOf(s, x)) \in Vector \union {Nothing}
         /\ Cached(KeyOf(s, x)) # Nothing =>
              Fits(Cached(KeyOf(s, x)), x, sifting[s].net, sifting[s].by, mixed)
         /\ VectorOf(s, x) \in Vector /\ Fits(VectorOf(s, x), x, sifting[s].net, sifting[s].by, mixed)
         /\ Belongs(VectorOf(s, x), KeyOf(s, x), mixed)
<1>1. PICK w \in Working : w = sifting[s]
  OBVIOUS
<1>2. PICK net \in Nets, by \in Preparation : net = w.net /\ by = w.by
  BY <1>1 DEF Working
<1>3. PICK k : k = <<x, net.named, by>>
  OBVIOUS
<1>4. /\ k = KeyOf(s, x) /\ k \in Key /\ k[1] = x /\ k[2] = net.named /\ k[3] = by
  BY <1>1, <1>2, <1>3 DEF KeyOf, Key, Net, Nets
<1>5. net.named # 0 => net.named = net.model /\ (net.processor = net.model \/ net.model \in mixed)
  BY <1>1, <1>2 DEF NetSound
<1>6. /\ Cached(k) \in Vector \union {Nothing}
      /\ Cached(k) # Nothing => Belongs(Cached(k), k, mixed)
  BY <1>4 DEF Cached, DecisionInv
<1>7. Cached(k) # Nothing => Fits(Cached(k), x, net, by, mixed)
  BY <1>4, <1>5, <1>6 DEF Belongs, Fits
<1>8. PICK v : v = [of |-> x, model |-> net.model, processor |-> net.processor, by |-> by]
  OBVIOUS
<1>9. v = VectorOf(s, x) /\ v \in Vector
  BY <1>1, <1>2, <1>8 DEF VectorOf, Vector, Net, Nets
<1>10. Fits(v, x, net, by, mixed) /\ Belongs(v, k, mixed)
  BY <1>4, <1>5, <1>8, <1>9 DEF Fits, Belongs
<1> QED
  BY <1>1, <1>2, <1>4, <1>6, <1>7, <1>9, <1>10

LEMMA FetchModelStep ==
  ASSUME DecisionInv, NEW s \in Sifter, FetchModel(s)
  PROVE  DecisionInv'
<1>1. PICK w : w = sifting[s]
  OBVIOUS
<1>2. /\ w \in Working /\ w.at = "loading"
      /\ WaitingSound(w, mixed) /\ WorkingSound(w, mixed)
  BY <1>1, Stands DEF FetchModel, Doing, Busy
<1>3. PICK p : p = (IF w.net.pin = 0 THEN branch ELSE w.net.pin)
  OBVIOUS
<1>4. p \in Commits /\ p # 0 /\ w.net \in Nets /\ w.net.pin \in Commits
  BY <1>2, <1>3, DecisionAssumption DEF DecisionInv, Commits, Working, Nets
<1>5. PICK named : /\ named \in {p, w.net.pin} /\ mixed' = mixed \union ({p} \ {w.net.processor})
                   /\ sifting' = [sifting EXCEPT ![s].at = "looking", ![s].net.model = p, ![s].net.named = named]
  BY <1>1, <1>3 DEF FetchModel, Net
<1>6. PICK net : net = [w.net EXCEPT !.model = p, !.named = named]
  OBVIOUS
<1>7. /\ net \in Nets /\ net.model = p /\ net.named = named /\ net.processor = w.net.processor
      /\ net.prompts = w.net.prompts
  BY <1>4, <1>5, <1>6 DEF Nets
<1>8. PICK new : new = [w EXCEPT !.at = "looking", !.net = net]
  OBVIOUS
<1>9. /\ new \in Working /\ new.at = "looking" /\ new.by = w.by /\ new.net = net
      /\ new.prepared = w.prepared /\ new.picture = w.picture /\ new.vectors = w.vectors
      /\ new.unsaved = w.unsaved /\ new.results = w.results
  BY <1>2, <1>7, <1>8 DEF Working, Busy
<1>10. w.net.prompts = Nothing /\ w.vectors = <<>> /\ named # 0 => named = p
  BY <1>2, <1>3, <1>5 DEF WorkingSound, WaitingSound, NetSound
<1>11. PICK after : after = mixed'
  OBVIOUS
<1>12. /\ mixed \subseteq after /\ after \subseteq Commits
       /\ net.processor = net.model \/ net.model \in after
  BY <1>4, <1>5, <1>7, <1>11 DEF DecisionInv
<1>13. w.net.prompts = Nothing /\ w.vectors = <<>> /\ w.net.model = 0
  BY <1>2 DEF WorkingSound, WaitingSound, NetSound
<1>14. SiftSound(new, after)
  <2>1. WaitingSound(new, after)
    BY <1>2, <1>5, <1>7, <1>9, <1>10, <1>12, <1>13 DEF WaitingSound, NetSound, OutcomeSound, WorkingSound
  <2>2. WorkingSound(new, after)
    BY <1>2, <1>4, <1>7, <1>9, <1>13 DEF WorkingSound, VectorsSound
  <2> QED
    BY <1>9, <2>1, <2>2 DEF SiftSound
<1>15. DOMAIN sifting' = Sifter /\ sifting'[s] = new /\ \A q \in Sifter \ {s} : sifting'[q] = sifting[q]
  <2>1. DOMAIN sifting' = Sifter /\ \A q \in Sifter \ {s} : sifting'[q] = sifting[q]
    BY <1>5 DEF DecisionInv
  <2>2. sifting'[s] = [w EXCEPT !.at = "looking", !.net.model = p, !.net.named = named]
    BY <1>1, <1>5 DEF DecisionInv
  <2>3. [w EXCEPT !.at = "looking", !.net.model = p, !.net.named = named] = new
    BY <1>2, <1>6, <1>8 DEF Working
  <2> QED
    BY <2>1, <2>2, <2>3
<1>16. arrays' = arrays /\ records' = records /\ branch' = branch
  BY DEF FetchModel
<1>17. \A k \in Key : arrays'[k] # Nothing => Belongs(arrays'[k], k, after)
  BY <1>12, <1>16 DEF DecisionInv, Belongs
<1>18. SiftSound(new, mixed') /\ \A k \in Key : arrays'[k] # Nothing => Belongs(arrays'[k], k, mixed')
  BY <1>11, <1>14, <1>17
<1> QED
  BY <1>11, <1>12, <1>15, <1>16, <1>18, SiftStep DEF DecisionInv

\* What a look-up leaves sound: the embedding of the next image, or none.
LEMMA Appended ==
  ASSUME NEW w \in Working, NEW mixes, WaitingSound(w, mixes), WorkingSound(w, mixes),
         w.at = "looking", Len(w.vectors) < Len(w.prepared),
         NEW v \in Vector \union {Nothing},
         v # Nothing =>
           Fits(v, w.picture[w.prepared[Len(w.vectors) + 1]], w.net, w.by, mixes),
         NEW new \in Working, new.at = "looking", new.by = w.by, new.net = w.net,
         new.prepared = w.prepared, new.picture = w.picture, new.results = w.results,
         new.vectors = Append(w.vectors, v)
  PROVE  SiftSound(new, mixes)
<1>1. WaitingSound(new, mixes)
  BY DEF WaitingSound, OutcomeSound
<1>2. w.vectors \in Seq(Vector \union {Nothing}) /\ w.prepared \in Seq(Entry)
  BY DEF Working
<1>3. /\ Len(new.vectors) = Len(w.vectors) + 1 /\ new.vectors[Len(w.vectors) + 1] = v
      /\ \A i \in 1 .. Len(w.vectors) : new.vectors[i] = w.vectors[i]
      /\ Len(w.vectors) \in Nat /\ Len(w.prepared) \in Nat
  BY <1>2
<1>4. VectorsSound(w, mixes)
  BY DEF WorkingSound
<1>5. VectorsSound(new, mixes)
  <2>1. Len(new.vectors) <= Len(new.prepared)
    BY <1>3
  <2>2. ASSUME NEW i \in 1 .. Len(new.vectors), new.vectors[i] # Nothing
        PROVE  Fits(new.vectors[i], new.picture[new.prepared[i]], new.net, new.by, mixes)
    <3>1. CASE i = Len(w.vectors) + 1
      BY <1>3, <2>2, <3>1
    <3>2. CASE i # Len(w.vectors) + 1
      <4>1. i \in 1 .. Len(w.vectors)
        BY <1>3, <3>2
      <4> QED
        BY <1>3, <1>4, <2>2, <4>1 DEF VectorsSound
    <3> QED
      BY <3>1, <3>2
  <2> QED
    BY <1>4, <2>1, <2>2 DEF VectorsSound
<1>6. WorkingSound(new, mixes)
  BY <1>5 DEF WorkingSound
<1> QED
  BY <1>1, <1>6 DEF SiftSound

\* What a process with images to look up stands on.
LEMMA AtLookUp ==
  ASSUME DecisionInv, NEW s \in Sifter, LookingUp(s)
  PROVE  /\ sifting[s] \in Working /\ sifting[s].at = "looking"
         /\ WaitingSound(sifting[s], mixed) /\ WorkingSound(sifting[s], mixed)
         /\ Len(sifting[s].vectors) < Len(sifting[s].prepared)
         /\ NextKey(s) \in Key /\ Cached(NextKey(s)) \in Vector \union {Nothing}
         /\ Cached(NextKey(s)) # Nothing =>
              Fits(Cached(NextKey(s)),
                      sifting[s].picture[sifting[s].prepared[Len(sifting[s].vectors) + 1]],
                      sifting[s].net, sifting[s].by, mixed)
<1>1. /\ sifting[s] \in Working /\ sifting[s].at = "looking"
      /\ WaitingSound(sifting[s], mixed) /\ WorkingSound(sifting[s], mixed)
      /\ Len(sifting[s].vectors) < Len(sifting[s].prepared)
  BY Stands DEF LookingUp, Doing, Busy
<1>2. PICK i : i = Len(sifting[s].vectors) + 1
  OBVIOUS
<1>3. i \in 1 .. Len(sifting[s].prepared)
  BY <1>1, <1>2 DEF Working
<1>4. PictureAt(s, i) \in Subject
  BY <1>1, <1>3 DEF WorkingSound, VectorsSound, PictureAt, Subject
<1>5. PICK x \in Subject : x = PictureAt(s, i)
  BY <1>4
<1>6. NetSound(sifting[s].net, sifting[s].by, mixed)
  BY <1>1 DEF WaitingSound
<1>7. NextKey(s) = KeyOf(s, x)
  BY <1>2, <1>5 DEF NextKey
<1>8. x = sifting[s].picture[sifting[s].prepared[Len(sifting[s].vectors) + 1]]
  BY <1>2, <1>5 DEF PictureAt
<1> QED
  BY <1>1, <1>5, <1>6, <1>7, <1>8, AnswersOf

LEMMA LookUpStep ==
  ASSUME DecisionInv, NEW s \in Sifter, LookUp(s)
  PROVE  DecisionInv'
<1>1. LookingUp(s)
  BY DEF LookUp
<1>2. PICK w, v : w = sifting[s] /\ v = Cached(NextKey(s))
  OBVIOUS
<1>3. /\ w \in Working /\ w.at = "looking" /\ WaitingSound(w, mixed) /\ WorkingSound(w, mixed)
      /\ Len(w.vectors) < Len(w.prepared) /\ v \in Vector \union {Nothing}
      /\ v # Nothing => Fits(v, w.picture[w.prepared[Len(w.vectors) + 1]], w.net, w.by, mixed)
  BY <1>1, <1>2, AtLookUp
<1>4. PICK vectors : vectors = Append(w.vectors, v)
  OBVIOUS
<1>5. vectors \in Seq(Vector \union {Nothing})
  BY <1>3, <1>4 DEF Working
<1>6. PICK new : new = [w EXCEPT !.vectors = vectors]
  OBVIOUS
<1>7. /\ new \in Working /\ new.at = "looking" /\ new.by = w.by /\ new.net = w.net
      /\ new.prepared = w.prepared /\ new.picture = w.picture /\ new.vectors = vectors
      /\ new.unsaved = w.unsaved /\ new.results = w.results
  BY <1>3, <1>5, <1>6 DEF Working, Busy
<1>8. SiftSound(new, mixed)
  BY <1>3, <1>4, <1>7, Appended
<1>9. DOMAIN sifting' = Sifter /\ sifting'[s] = new /\ \A q \in Sifter \ {s} : sifting'[q] = sifting[q]
  <2>1. sifting' = [sifting EXCEPT ![s].vectors = Append(@, v)]
    BY <1>2 DEF LookUp
  <2>2. sifting'[s] = [w EXCEPT !.vectors = Append(@, v)]
    BY <1>2, <2>1 DEF DecisionInv
  <2> QED
    BY <1>3, <1>4, <1>6, <2>1, <2>2 DEF DecisionInv, Working
<1> QED
  BY <1>8, <1>9, QuietStep DEF LookUp

LEMMA LookUpFailsStep ==
  ASSUME DecisionInv, NEW s \in Sifter, LookUpFails(s)
  PROVE  DecisionInv'
<1>1. LookingUp(s)
  BY DEF LookUpFails
<1>2. PICK w, k : w = sifting[s] /\ k = NextKey(s)
  OBVIOUS
<1>3. /\ w \in Working /\ w.at = "looking" /\ WaitingSound(w, mixed) /\ WorkingSound(w, mixed)
      /\ Len(w.vectors) < Len(w.prepared) /\ k \in Key
  BY <1>1, <1>2, AtLookUp
<1>4. PICK vectors : vectors = Append(w.vectors, Nothing)
  OBVIOUS
<1>5. vectors \in Seq(Vector \union {Nothing})
  BY <1>3, <1>4 DEF Working
<1>6. PICK new : new = [w EXCEPT !.vectors = vectors]
  OBVIOUS
<1>7. /\ new \in Working /\ new.at = "looking" /\ new.by = w.by /\ new.net = w.net
      /\ new.prepared = w.prepared /\ new.picture = w.picture /\ new.vectors = vectors
      /\ new.unsaved = w.unsaved /\ new.results = w.results
  BY <1>3, <1>5, <1>6 DEF Working, Busy
<1>8. SiftSound(new, mixed)
  BY <1>3, <1>4, <1>7, Appended
<1>9. DOMAIN sifting' = Sifter /\ sifting'[s] = new /\ \A q \in Sifter \ {s} : sifting'[q] = sifting[q]
  <2>1. sifting' = [sifting EXCEPT ![s].vectors = Append(@, Nothing)]
    BY <1>2 DEF LookUpFails
  <2>2. sifting'[s] = [w EXCEPT !.vectors = Append(@, Nothing)]
    BY <1>2, <2>1 DEF DecisionInv
  <2> QED
    BY <1>3, <1>4, <1>6, <2>1, <2>2 DEF DecisionInv, Working
<1>10. /\ arrays' = [arrays EXCEPT ![k] = Nothing] /\ records' = records \ {k}
       /\ branch' = branch /\ mixed' = mixed
  BY <1>2 DEF LookUpFails
<1>11. PICK files, mixes : files = arrays' /\ mixes = mixed'
  OBVIOUS
<1>12. /\ files \in [Key -> Vector \union {Nothing}]
       /\ \A j \in Key : files[j] # Nothing => files[j] = arrays[j]
  BY <1>3, <1>10, <1>11 DEF DecisionInv
<1>13. SiftSound(new, mixed')
  BY <1>8, <1>10, <1>11
<1>14. mixed \subseteq mixed' /\ mixed' \subseteq Commits /\ records' \subseteq Key
  BY <1>10 DEF DecisionInv
<1>15. \A j \in Key : files[j] # Nothing => Belongs(files[j], j, mixed)
  BY <1>12 DEF DecisionInv
<1>16. /\ arrays' \in [Key -> Vector \union {Nothing}]
       /\ \A j \in Key : arrays'[j] # Nothing => Belongs(arrays'[j], j, mixed')
  BY <1>10, <1>11, <1>12, <1>15
<1> QED
  BY <1>9, <1>10, <1>13, <1>14, <1>16, SiftStep

\* A process that saves has the embedding of each of its images, and what it
\* has yet to save is what its key says.
LEMMA Saving ==
  ASSUME DecisionInv, NEW s \in Sifter, sifting[s].at \in {"saving", "recording"}
  PROVE  /\ sifting[s] \in Working
         /\ WaitingSound(sifting[s], mixed) /\ WorkingSound(sifting[s], mixed)
         /\ Embedded(sifting[s], mixed)
         /\ sifting[s].unsaved # <<>> =>
              /\ Head(sifting[s].unsaved).key \in Key
              /\ Belongs(Head(sifting[s].unsaved).vector, Head(sifting[s].unsaved).key, mixed)
              /\ Tail(sifting[s].unsaved) \in Seq([key : Key, vector : Vector])
              /\ \A i \in 1 .. Len(Tail(sifting[s].unsaved)) :
                   Belongs(Tail(sifting[s].unsaved)[i].vector, Tail(sifting[s].unsaved)[i].key, mixed)
<1>1. PICK w : w = sifting[s]
  OBVIOUS
<1>2. w \in Working /\ WaitingSound(w, mixed) /\ WorkingSound(w, mixed) /\ Embedded(w, mixed)
  BY <1>1, Stands DEF Busy, WorkingSound
<1>3. PICK u \in Seq([key : Key, vector : Vector]) : u = w.unsaved
  BY <1>2 DEF Working
<1>4. ASSUME u # <<>>
      PROVE  /\ Head(u) = u[1] /\ 1 \in 1 .. Len(u)
             /\ Tail(u) \in Seq([key : Key, vector : Vector]) /\ Len(Tail(u)) = Len(u) - 1
             /\ \A i \in 1 .. Len(Tail(u)) : Tail(u)[i] = u[i + 1] /\ i + 1 \in 1 .. Len(u)
  <2>1. PICK S : S = [key : Key, vector : Vector]
    OBVIOUS
  <2>2. u \in Seq(S)
    BY <2>1
  <2>3. /\ Len(u) \in Nat /\ Len(u) # 0 /\ Head(u) = u[1] /\ Tail(u) \in Seq(S)
        /\ Len(Tail(u)) = Len(u) - 1
    BY <1>4, <2>2
  <2>4. \A i \in 1 .. Len(Tail(u)) : Tail(u)[i] = u[i + 1]
    BY <1>4, <2>2
  <2> QED
    BY <2>1, <2>3, <2>4
<1>5. \A i \in 1 .. Len(u) : Belongs(u[i].vector, u[i].key, mixed)
  BY <1>2, <1>3 DEF Embedded
<1>6. ASSUME u # <<>>
      PROVE  \A i \in 1 .. Len(Tail(u)) : Belongs(Tail(u)[i].vector, Tail(u)[i].key, mixed)
  BY <1>4, <1>5, <1>6
<1>7. ASSUME u # <<>>
      PROVE  Head(u).key \in Key /\ Belongs(Head(u).vector, Head(u).key, mixed)
  <2>1. u[1] \in [key : Key, vector : Vector] /\ 1 \in 1 .. Len(u) /\ Head(u) = u[1]
    <3>1. PICK S : S = [key : Key, vector : Vector]
      OBVIOUS
    <3>2. u \in Seq(S)
      BY <3>1
    <3>3. \A i \in 1 .. Len(u) : u[i] \in S
      BY <3>2
    <3> QED
      BY <1>4, <1>7, <3>1, <3>3
  <2>2. u[1].key \in Key
    BY <2>1
  <2> QED
    BY <1>5, <2>1, <2>2
<1>8. u # <<>> => Tail(u) \in Seq([key : Key, vector : Vector])
  BY <1>4
<1>9. PICK head, tail : head = Head(u) /\ tail = Tail(u)
  OBVIOUS
<1> QED
  BY <1>1, <1>2, <1>3, <1>6, <1>7, <1>8, <1>9

\* A process that goes on saving.
LEMMA SavesOn ==
  ASSUME NEW w \in Working, NEW mixes, WaitingSound(w, mixes), WorkingSound(w, mixes),
         Embedded(w, mixes), w.at \in {"saving", "recording"},
         NEW new \in Working, new.at \in {"saving", "recording"}, new.by = w.by, new.net = w.net,
         new.prepared = w.prepared, new.picture = w.picture, new.results = w.results,
         new.vectors = w.vectors, new.at = "recording" => new.unsaved # <<>>,
         \A i \in 1 .. Len(new.unsaved) : Belongs(new.unsaved[i].vector, new.unsaved[i].key, mixes)
  PROVE  SiftSound(new, mixes)
<1>1. WaitingSound(new, mixes)
  BY DEF WaitingSound, OutcomeSound
<1>2. VectorsSound(new, mixes) /\ Embedded(new, mixes)
  BY DEF WorkingSound, VectorsSound, Embedded
<1>3. WorkingSound(new, mixes)
  BY <1>2 DEF WorkingSound
<1> QED
  BY <1>1, <1>3 DEF SiftSound

LEMMA SaveArrayStep ==
  ASSUME DecisionInv, NEW s \in Sifter, SaveArray(s)
  PROVE  DecisionInv'
<1>1. sifting[s].at = "saving" /\ sifting[s].unsaved # <<>>
  BY DEF SaveArray, Doing
<1>2. PICK w, k, v : w = sifting[s] /\ k = Head(w.unsaved).key /\ v = Head(w.unsaved).vector
  OBVIOUS
<1>3. /\ w \in Working /\ w.at = "saving" /\ w.unsaved # <<>>
      /\ WaitingSound(w, mixed) /\ WorkingSound(w, mixed) /\ Embedded(w, mixed)
      /\ k \in Key /\ Belongs(v, k, mixed)
  BY <1>1, <1>2, Saving
<1>4. PICK new : new = [w EXCEPT !.at = "recording"]
  OBVIOUS
<1>5. /\ new \in Working /\ new.at = "recording" /\ new.by = w.by /\ new.net = w.net
      /\ new.prepared = w.prepared /\ new.picture = w.picture /\ new.vectors = w.vectors
      /\ new.unsaved = w.unsaved /\ new.results = w.results
  BY <1>3, <1>4 DEF Working, Busy
<1>6. SiftSound(new, mixed)
  <2>1. \A i \in 1 .. Len(new.unsaved) : Belongs(new.unsaved[i].vector, new.unsaved[i].key, mixed)
    BY <1>3, <1>5 DEF Embedded
  <2> QED
    BY <1>3, <1>5, <2>1, SavesOn
<1>7. DOMAIN sifting' = Sifter /\ sifting'[s] = new /\ \A q \in Sifter \ {s} : sifting'[q] = sifting[q]
  BY <1>2, <1>4 DEF SaveArray, DecisionInv
<1>8. /\ arrays' = [arrays EXCEPT ![k] = v] /\ records' = records
      /\ branch' = branch /\ mixed' = mixed
  BY <1>2 DEF SaveArray
<1>9. PICK files : files = arrays'
  OBVIOUS
<1>10. /\ files \in [Key -> Vector \union {Nothing}]
       /\ \A j \in Key : files[j] # Nothing => Belongs(files[j], j, mixed)
  <2>1. v \in Vector
    BY <1>3 DEF Belongs
  <2>2. files \in [Key -> Vector \union {Nothing}]
    BY <1>3, <1>8, <1>9, <2>1 DEF DecisionInv
  <2>3. files[k] = v /\ \A j \in Key \ {k} : files[j] = arrays[j]
    BY <1>3, <1>8, <1>9 DEF DecisionInv
  <2>4. \A j \in Key : arrays[j] # Nothing => Belongs(arrays[j], j, mixed)
    BY DEF DecisionInv
  <2> QED
    BY <1>3, <2>2, <2>3, <2>4
<1>11. SiftSound(new, mixed')
  BY <1>6, <1>8
<1>12. mixed \subseteq mixed' /\ mixed' \subseteq Commits /\ records' \subseteq Key
  BY <1>8 DEF DecisionInv
<1>13. /\ arrays' \in [Key -> Vector \union {Nothing}]
       /\ \A j \in Key : arrays'[j] # Nothing => Belongs(arrays'[j], j, mixed')
  BY <1>8, <1>9, <1>10
<1> QED
  BY <1>7, <1>8, <1>11, <1>12, <1>13, SiftStep

LEMMA SaveRecordStep ==
  ASSUME DecisionInv, NEW s \in Sifter, SaveRecord(s)
  PROVE  DecisionInv'
<1>1. sifting[s].at = "recording"
  BY DEF SaveRecord, Doing
<1>2. PICK w, k : w = sifting[s] /\ k = Head(w.unsaved).key
  OBVIOUS
<1>3. /\ w \in Working /\ w.at = "recording" /\ WaitingSound(w, mixed) /\ WorkingSound(w, mixed)
      /\ Embedded(w, mixed)
  BY <1>1, <1>2, Saving
<1>4. w.unsaved # <<>>
  BY <1>3 DEF WorkingSound
<1>5. PICK rest : rest = Tail(w.unsaved)
  OBVIOUS
<1>6. /\ k \in Key /\ rest \in Seq([key : Key, vector : Vector])
      /\ \A i \in 1 .. Len(rest) : Belongs(rest[i].vector, rest[i].key, mixed)
  BY <1>1, <1>2, <1>4, <1>5, Saving
<1>7. PICK new : new = [w EXCEPT !.at = "saving", !.unsaved = rest]
  OBVIOUS
<1>8. /\ new \in Working /\ new.at = "saving" /\ new.by = w.by /\ new.net = w.net
      /\ new.prepared = w.prepared /\ new.picture = w.picture /\ new.vectors = w.vectors
      /\ new.unsaved = rest /\ new.results = w.results
  BY <1>3, <1>6, <1>7 DEF Working, Busy
<1>9. SiftSound(new, mixed)
  BY <1>3, <1>6, <1>8, SavesOn
<1>10. DOMAIN sifting' = Sifter /\ sifting'[s] = new /\ \A q \in Sifter \ {s} : sifting'[q] = sifting[q]
  <2>1. sifting' = [sifting EXCEPT ![s].at = "saving", ![s].unsaved = Tail(@)]
    BY DEF SaveRecord
  <2>2. sifting'[s] = [w EXCEPT !.at = "saving", !.unsaved = Tail(@)]
    BY <1>2, <2>1 DEF DecisionInv
  <2> QED
    BY <1>3, <1>5, <1>7, <2>1, <2>2 DEF DecisionInv, Working
<1>11. arrays' = arrays /\ records' = records \union {k} /\ branch' = branch /\ mixed' = mixed
  BY <1>2 DEF SaveRecord
<1>12. SiftSound(new, mixed')
  BY <1>9, <1>11
<1>13. mixed \subseteq mixed' /\ mixed' \subseteq Commits /\ records' \subseteq Key
  BY <1>6, <1>11 DEF DecisionInv
<1>14. \A j \in Key : arrays[j] # Nothing => Belongs(arrays[j], j, mixed)
  BY DEF DecisionInv
<1>15. /\ arrays' \in [Key -> Vector \union {Nothing}]
       /\ \A j \in Key : arrays'[j] # Nothing => Belongs(arrays'[j], j, mixed')
  BY <1>11, <1>14 DEF DecisionInv
<1> QED
  BY <1>10, <1>11, <1>12, <1>13, <1>15, SiftStep

LEMMA SaveFailsStep ==
  ASSUME DecisionInv, NEW s \in Sifter, SaveFails(s)
  PROVE  DecisionInv'
<1>1. PICK w : w = sifting[s]
  OBVIOUS
<1>2. w.at \in {"saving", "recording"} /\ (w.at = "saving" => w.unsaved # <<>>)
  BY <1>1 DEF SaveFails, Doing
<1>3. /\ w \in Working /\ WaitingSound(w, mixed) /\ WorkingSound(w, mixed)
      /\ Embedded(w, mixed)
  BY <1>1, <1>2, Saving
<1>4. w.unsaved # <<>>
  BY <1>2, <1>3 DEF WorkingSound
<1>5. PICK rest : rest = Tail(w.unsaved)
  OBVIOUS
<1>6. /\ rest \in Seq([key : Key, vector : Vector])
      /\ \A i \in 1 .. Len(rest) : Belongs(rest[i].vector, rest[i].key, mixed)
  BY <1>1, <1>2, <1>4, <1>5, Saving
<1>7. PICK new : new = [w EXCEPT !.at = "saving", !.unsaved = rest]
  OBVIOUS
<1>8. /\ new \in Working /\ new.at = "saving" /\ new.by = w.by /\ new.net = w.net
      /\ new.prepared = w.prepared /\ new.picture = w.picture /\ new.vectors = w.vectors
      /\ new.unsaved = rest /\ new.results = w.results
  BY <1>3, <1>6, <1>7 DEF Working, Busy
<1>9. SiftSound(new, mixed)
  BY <1>2, <1>3, <1>6, <1>8, SavesOn
<1>10. DOMAIN sifting' = Sifter /\ sifting'[s] = new /\ \A q \in Sifter \ {s} : sifting'[q] = sifting[q]
  <2>1. sifting' = [sifting EXCEPT ![s].at = "saving", ![s].unsaved = Tail(@)]
    BY DEF SaveFails
  <2>2. sifting'[s] = [w EXCEPT !.at = "saving", !.unsaved = Tail(@)]
    BY <1>1, <2>1 DEF DecisionInv
  <2> QED
    BY <1>3, <1>5, <1>7, <2>1, <2>2 DEF DecisionInv, Working
<1> QED
  BY <1>9, <1>10, QuietStep DEF SaveFails

LEMMA DieStep ==
  ASSUME DecisionInv, NEW s \in Sifter, Die(s)
  PROVE  DecisionInv'
<1>1. SiftSound(Off, mixed)
  BY DEF SiftSound, Off, Busy
<1>2. DOMAIN sifting' = Sifter /\ sifting'[s] = Off /\ \A q \in Sifter \ {s} : sifting'[q] = sifting[q]
  BY DEF Die, DecisionInv
<1> QED
  BY <1>1, <1>2, QuietStep DEF Die

\* Nothing but the branch changes.
LEMMA ElseStep ==
  ASSUME DecisionInv, UNCHANGED <<arrays, records, mixed, sifting>>, branch' \in 1 .. CommitCount
  PROVE  DecisionInv'
<1>1. PICK now, mixes : now = sifting /\ mixes = mixed /\ now = sifting' /\ mixes = mixed'
  OBVIOUS
<1>2. \A s \in Sifter : SiftSound(now[s], mixes)
  BY <1>1 DEF DecisionInv
<1>3. \A s \in Sifter : SiftSound(sifting[s], mixed)'
  BY <1>1, <1>2
<1>4. \A k \in Key : (arrays[k] # Nothing => Belongs(arrays[k], k, mixed))'
  BY DEF DecisionInv, Belongs
<1> QED
  BY <1>3, <1>4 DEF DecisionInv

LEMMA PersistStep ==
  ASSUME DecisionInv, NEW s \in Sifter, Persist(s)
  PROVE  DecisionInv'
<1>1. PICK w : w = sifting[s]
  OBVIOUS
<1>2. w \in Working /\ w.at = "persisting" /\ WaitingSound(w, mixed)
  BY <1>1, Stands DEF Persist, Doing, Busy
<1>3. PICK new : new = Returned(s, w.results)
  OBVIOUS
<1>4. /\ new \in Waiting /\ new.at = "idle" /\ new.by = w.by /\ new.net = w.net
      /\ new.picture = w.picture /\ new.results = w.results
  BY <1>1, <1>2, <1>3 DEF Returned, Net, Waiting, Working
<1>5. SiftSound(new, mixed)
  <2>1. WaitingSound(new, mixed)
    BY <1>2, <1>4 DEF WaitingSound, OutcomeSound
  <2> QED
    BY <1>4, <2>1 DEF SiftSound, Busy
<1>6. DOMAIN sifting' = Sifter /\ sifting'[s] = new /\ \A q \in Sifter \ {s} : sifting'[q] = sifting[q]
  <2>1. sifting' = [sifting EXCEPT ![s] = new]
    BY <1>1, <1>3 DEF Persist
  <2> QED
    BY <2>1 DEF DecisionInv
<1> QED
  BY <1>5, <1>6, QuietStep DEF Persist

LEMMA ErrorOutcome == Error \in Outcomes /\ "vector" \notin DOMAIN Error
  BY DEF Error, Outcomes, Verdicts

LEMMA PersistFailsStep ==
  ASSUME DecisionInv, NEW s \in Sifter, PersistFails(s)
  PROVE  DecisionInv'
<1>1. PICK w : w = sifting[s]
  OBVIOUS
<1>2. w \in Working /\ w.at = "persisting" /\ WaitingSound(w, mixed)
  BY <1>1, Stands DEF PersistFails, Doing, Busy
<1>3. PICK r : r = [e \in DOMAIN w.results |-> Error]
  OBVIOUS
<1>4. r \in Results /\ \A e \in DOMAIN r : "vector" \notin DOMAIN r[e]
  <2>1. PICK S \in SUBSET Entry : w.results \in [S -> Outcomes]
    BY <1>2 DEF Working, Results
  <2>2. r \in [S -> Outcomes] /\ \A e \in S : r[e] = Error
    BY <1>3, <2>1, ErrorOutcome
  <2> QED
    BY <2>2, ErrorOutcome DEF Results
<1>5. PICK new : new = Returned(s, r)
  OBVIOUS
<1>6. /\ new \in Waiting /\ new.at = "idle" /\ new.by = w.by /\ new.net = w.net
      /\ new.picture = w.picture /\ new.results = r
  BY <1>1, <1>2, <1>4, <1>5 DEF Returned, Net, Waiting, Working
<1>7. SiftSound(new, mixed)
  <2>1. WaitingSound(new, mixed)
    BY <1>2, <1>4, <1>6 DEF WaitingSound, OutcomeSound
  <2> QED
    BY <1>6, <2>1 DEF SiftSound, Busy
<1>8. DOMAIN sifting' = Sifter /\ sifting'[s] = new /\ \A q \in Sifter \ {s} : sifting'[q] = sifting[q]
  <2>1. sifting' = [sifting EXCEPT ![s] = new]
    BY <1>1, <1>3, <1>5 DEF PersistFails
  <2> QED
    BY <2>1 DEF DecisionInv
<1> QED
  BY <1>7, <1>8, QuietStep DEF PersistFails

LEMMA GetPromptsStep ==
  ASSUME DecisionInv, NEW s \in Sifter, GetPrompts(s)
  PROVE  DecisionInv'
<1>1. PICK w : w = sifting[s]
  OBVIOUS
<1>2. w.at = "saving" /\ w.unsaved = <<>> /\ w.net.prompts = Nothing
  BY <1>1 DEF GetPrompts, Saved, Doing, Net
<1>3. /\ w \in Working /\ WaitingSound(w, mixed) /\ WorkingSound(w, mixed)
      /\ Embedded(w, mixed)
  BY <1>1, <1>2, Saving
<1>4. PICK k, c, v : k = KeyOf(s, Prompts) /\ c = Cached(KeyOf(s, Prompts)) /\ v = VectorOf(s, Prompts)
  OBVIOUS
<1>5. /\ k \in Key /\ c \in Vector \union {Nothing}
      /\ c # Nothing => Fits(c, Prompts, w.net, w.by, mixed)
      /\ v \in Vector /\ Fits(v, Prompts, w.net, w.by, mixed) /\ Belongs(v, k, mixed)
  <2>1. NetSound(w.net, w.by, mixed) /\ Prompts \in Subject
    BY <1>3 DEF WaitingSound, Subject
  <2> QED
    BY <1>1, <1>3, <1>4, <2>1, AnswersOf
<1>6. PICK p : p = (IF c = Nothing THEN v ELSE c)
  OBVIOUS
<1>7. p \in Vector /\ Fits(p, Prompts, w.net, w.by, mixed)
  BY <1>5, <1>6
<1>8. PICK item, u : item = [key |-> k, vector |-> v] /\ u = (IF c = Nothing THEN <<item>> ELSE <<>>)
  OBVIOUS
<1>9. /\ u \in Seq([key : Key, vector : Vector])
      /\ \A i \in 1 .. Len(u) : Belongs(u[i].vector, u[i].key, mixed)
  <2>1. PICK S : S = [key : Key, vector : Vector]
    OBVIOUS
  <2>2. item \in S /\ item.key = k /\ item.vector = v
    BY <1>5, <1>8, <2>1
  <2>3. u \in Seq(S) /\ \A i \in 1 .. Len(u) : u[i] = item
    BY <1>8, <2>2
  <2> QED
    BY <1>5, <2>1, <2>2, <2>3
<1>10. PICK net : net = [w.net EXCEPT !.prompts = p]
  OBVIOUS
<1>11. /\ net \in Nets /\ net.model = w.net.model /\ net.named = w.net.named
       /\ net.processor = w.net.processor /\ net.prompts = p
  <2>1. w.net \in Nets
    BY <1>3 DEF Working
  <2> QED
    BY <1>7, <1>10, <2>1 DEF Nets
<1>12. PICK new : new = [w EXCEPT !.net = net, !.unsaved = u]
  OBVIOUS
<1>13. /\ new \in Working /\ new.at = "saving" /\ new.by = w.by /\ new.net = net
       /\ new.prepared = w.prepared /\ new.picture = w.picture /\ new.vectors = w.vectors
       /\ new.unsaved = u /\ new.results = w.results
  BY <1>2, <1>3, <1>9, <1>11, <1>12 DEF Working, Busy
<1>14. \A a, x : Fits(a, x, w.net, w.by, mixed) => Fits(a, x, net, w.by, mixed)
  BY <1>11 DEF Fits
<1>15. SiftSound(new, mixed)
  <2>1. WaitingSound(new, mixed)
    BY <1>2, <1>3, <1>7, <1>11, <1>13, <1>14 DEF WaitingSound, WorkingSound, OutcomeSound, NetSound
  <2>2. VectorsSound(new, mixed) /\ Embedded(new, mixed)
    BY <1>3, <1>9, <1>13, <1>14 DEF WorkingSound, VectorsSound, Embedded
  <2>3. WorkingSound(new, mixed)
    BY <1>2, <1>3, <1>11, <1>13, <2>2 DEF WorkingSound
  <2> QED
    BY <1>13, <2>1, <2>3 DEF SiftSound
<1>16. DOMAIN sifting' = Sifter /\ sifting'[s] = new /\ \A q \in Sifter \ {s} : sifting'[q] = sifting[q]
  <2>1. sifting' = [sifting EXCEPT ![s].net.prompts = p, ![s].unsaved = u]
    BY <1>1, <1>4, <1>6, <1>8 DEF GetPrompts
  <2>2. sifting'[s] = [w EXCEPT !.net.prompts = p, !.unsaved = u]
    BY <1>1, <2>1 DEF DecisionInv
  <2>3. [w EXCEPT !.net.prompts = p, !.unsaved = u] = new
    BY <1>3, <1>10, <1>12 DEF Working
  <2> QED
    BY <2>1, <2>2, <2>3 DEF DecisionInv
<1> QED
  BY <1>15, <1>16, QuietStep DEF GetPrompts

\* A batch that has its results.
LEMMA ResultsIn ==
  ASSUME NEW w \in Working, NEW mixes, WaitingSound(w, mixes), WorkingSound(w, mixes),
         NEW new \in Working, new.at = "persisting", new.by = w.by, new.net = w.net,
         new.prepared = w.prepared, new.picture = w.picture, new.vectors = w.vectors,
         \A e \in DOMAIN new.results : OutcomeSound(new, e, mixes)
  PROVE  SiftSound(new, mixes)
<1>1. WaitingSound(new, mixes)
  BY DEF WaitingSound
<1>2. VectorsSound(new, mixes)
  BY DEF WorkingSound, VectorsSound
<1>3. WorkingSound(new, mixes)
  BY <1>2 DEF WorkingSound
<1> QED
  BY <1>1, <1>3 DEF SiftSound

LEMMA BatchFailsStep ==
  ASSUME DecisionInv, NEW s \in Sifter, BatchFails(s)
  PROVE  DecisionInv'
<1>1. PICK w : w = sifting[s]
  OBVIOUS
<1>2. w.at \in {"fetching", "loading", "looking", "saving"}
  BY <1>1 DEF BatchFails, Doing, LookedUp, Saved
<1>3. w \in Working /\ WaitingSound(w, mixed) /\ WorkingSound(w, mixed)
  BY <1>1, <1>2, Stands DEF Busy
<1>4. PICK r : /\ r = [e \in DOMAIN w.results |->
                         IF \E i \in DOMAIN w.prepared : w.prepared[i] = e THEN Error ELSE w.results[e]]
               /\ sifting' = [sifting EXCEPT ![s].at = "persisting", ![s].results = r]
  BY <1>1 DEF BatchFails, ResultsWith
<1>5. r \in Results /\ \A e \in DOMAIN r : "vector" \notin DOMAIN r[e]
  <2>1. PICK S \in SUBSET Entry : w.results \in [S -> Outcomes]
    BY <1>3 DEF Working, Results
  <2>2. \A e \in S : "vector" \notin DOMAIN w.results[e]
    BY <1>2, <1>3, <2>1 DEF WorkingSound
  <2>3. r \in [S -> Outcomes] /\ \A e \in S : r[e] \in {Error, w.results[e]}
    BY <1>4, <2>1, ErrorOutcome
  <2> QED
    BY <2>2, <2>3, ErrorOutcome DEF Results
<1>6. PICK new : new = [w EXCEPT !.at = "persisting", !.results = r]
  OBVIOUS
<1>7. /\ new \in Working /\ new.at = "persisting" /\ new.by = w.by /\ new.net = w.net
      /\ new.prepared = w.prepared /\ new.picture = w.picture /\ new.vectors = w.vectors
      /\ new.unsaved = w.unsaved /\ new.results = r
  BY <1>3, <1>5, <1>6 DEF Working, Busy
<1>8. SiftSound(new, mixed)
  <2>1. \A e \in DOMAIN new.results : OutcomeSound(new, e, mixed)
    BY <1>5, <1>7 DEF OutcomeSound
  <2> QED
    BY <1>3, <1>7, <2>1, ResultsIn
<1>9. DOMAIN sifting' = Sifter /\ sifting'[s] = new /\ \A q \in Sifter \ {s} : sifting'[q] = sifting[q]
  BY <1>1, <1>4, <1>6 DEF DecisionInv
<1> QED
  BY <1>8, <1>9, QuietStep DEF BatchFails

LEMMA DecisionIsVerdict ==
  \A disposition, score : DecisionFor(disposition, score) \in Verdicts
  BY DecisionAssumption DEF DecisionFor, VisualDecision, Verdicts

LEMMA ScoreStep ==
  ASSUME DecisionInv, NEW s \in Sifter, Score(s)
  PROVE  DecisionInv'
<1>1. PICK w : w = sifting[s]
  OBVIOUS
<1>2. w.at = "saving" /\ w.net.prompts # Nothing
  BY <1>1 DEF Score, Doing, Saved, Net
<1>3. w \in Working /\ WaitingSound(w, mixed) /\ WorkingSound(w, mixed) /\ Embedded(w, mixed)
  BY <1>1, <1>2, Saving
<1> DEFINE Row(e) == CHOOSE i \in DOMAIN w.prepared : w.prepared[i] = e
           Outcome(i) ==
             [decision |-> DecisionFor(Disposition(w.picture[w.prepared[i]]), ScoresOf[w.vectors[i].of]),
              vector |-> w.vectors[i], prompts |-> w.net.prompts]
<1>4. PICK r : /\ r = [e \in DOMAIN w.results |->
                         IF \E i \in DOMAIN w.prepared : w.prepared[i] = e THEN Outcome(Row(e))
                         ELSE w.results[e]]
               /\ sifting' = [sifting EXCEPT ![s].at = "persisting", ![s].results = r]
  BY <1>1 DEF Score, ResultsWith, PictureAt, Net
<1>5. PICK p \in Vector : p = w.net.prompts /\ Fits(p, Prompts, w.net, w.by, mixed)
  <2>1. Fits(w.net.prompts, Prompts, w.net, w.by, mixed)
    BY <1>2, <1>3 DEF WaitingSound, NetSound
  <2> QED
    BY <2>1 DEF Fits
<1>6. ASSUME NEW i \in DOMAIN w.prepared
      PROVE  /\ Outcome(i) \in Outcomes
             /\ Outcome(i).decision = DecisionFor(Disposition(w.picture[w.prepared[i]]), ScoresOf[w.picture[w.prepared[i]]])
             /\ Fits(Outcome(i).vector, w.picture[w.prepared[i]], w.net, w.by, mixed)
             /\ Outcome(i).prompts = p
  <2>1. i \in 1 .. Len(w.vectors)
    BY <1>3 DEF Embedded, Working
  <2>2. PICK v, x : v = w.vectors[i] /\ x = w.picture[w.prepared[i]]
    OBVIOUS
  <2>3. Fits(v, x, w.net, w.by, mixed)
    BY <1>3, <2>1, <2>2 DEF Embedded
  <2>4. v \in Vector /\ v.of = x
    BY <2>3 DEF Fits
  <2>5. PICK d \in Verdicts : d = DecisionFor(Disposition(x), ScoresOf[x])
    BY DecisionIsVerdict
  <2>6. Outcome(i) = [decision |-> d, vector |-> v, prompts |-> p]
    BY <1>5, <2>2, <2>4, <2>5
  <2> QED
    BY <2>2, <2>3, <2>4, <2>5, <2>6 DEF Outcomes
<1>7. PICK S \in SUBSET Entry : w.results \in [S -> Outcomes]
  BY <1>3 DEF Working, Results
<1>8. \A e \in S : "vector" \notin DOMAIN w.results[e]
  BY <1>2, <1>3, <1>7 DEF WorkingSound
<1> HIDE DEF Outcome
<1>9. \A e \in S : \/ \E i \in DOMAIN w.prepared : w.prepared[i] = e /\ r[e] = Outcome(i)
                   \/ r[e] = w.results[e]
  BY <1>4, <1>7
<1>10. r \in Results
  <2>1. \A e \in S : r[e] \in Outcomes
    BY <1>6, <1>7, <1>9
  <2>2. r \in [S -> Outcomes]
    BY <1>4, <1>7, <2>1
  <2> QED
    BY <2>2 DEF Results
<1>11. PICK new : new = [w EXCEPT !.at = "persisting", !.results = r]
  OBVIOUS
<1>12. /\ new \in Working /\ new.at = "persisting" /\ new.by = w.by /\ new.net = w.net
       /\ new.prepared = w.prepared /\ new.picture = w.picture /\ new.vectors = w.vectors
       /\ new.unsaved = w.unsaved /\ new.results = r
  BY <1>3, <1>10, <1>11 DEF Working, Busy
<1>13. ASSUME NEW e \in DOMAIN r PROVE OutcomeSound(new, e, mixed)
  <2>1. e \in S
    BY <1>4, <1>7
  <2>2. CASE \E i \in DOMAIN w.prepared : w.prepared[i] = e /\ r[e] = Outcome(i)
    BY <1>5, <1>6, <1>12, <2>2 DEF OutcomeSound
  <2>3. CASE r[e] = w.results[e]
    BY <1>8, <1>12, <2>1, <2>3 DEF OutcomeSound
  <2> QED
    BY <1>9, <2>1, <2>2, <2>3
<1>14. SiftSound(new, mixed)
  BY <1>3, <1>12, <1>13, ResultsIn
<1>15. DOMAIN sifting' = Sifter /\ sifting'[s] = new /\ \A q \in Sifter \ {s} : sifting'[q] = sifting[q]
  BY <1>1, <1>4, <1>11 DEF DecisionInv
<1> QED
  BY <1>14, <1>15, QuietStep DEF Score

LEMMA EncodeStep ==
  ASSUME DecisionInv, NEW s \in Sifter, Encode(s)
  PROVE  DecisionInv'
<1>1. PICK w : w = sifting[s]
  OBVIOUS
<1>2. w.at = "looking" /\ Len(w.vectors) = Len(w.prepared)
  BY <1>1 DEF Encode, LookedUp, Doing
<1>3. w \in Working /\ WaitingSound(w, mixed) /\ WorkingSound(w, mixed)
  BY <1>1, <1>2, Stands DEF Busy
<1>4. PICK n \in Nat : n = Len(w.prepared)
  BY <1>3 DEF Working
<1>5. DOMAIN w.prepared = 1 .. n /\ DOMAIN w.vectors = 1 .. n
  BY <1>2, <1>3, <1>4 DEF Working
<1>6. PICK lost, many, missing :
        /\ lost = {i \in 1 .. n : w.vectors[i] = Nothing}
        /\ many = Cardinality(lost) /\ missing = Ascending(lost)
  OBVIOUS
<1>7. /\ many \in Nat /\ missing \in [1 .. many -> lost] /\ lost \subseteq 1 .. n
      /\ \A i \in lost : \E row \in 1 .. many : missing[row] = i
  <2>1. lost \in SUBSET (1 .. n)
    BY <1>6
  <2>2. /\ Cardinality(lost) \in Nat /\ Ascending(lost) \in [1 .. Cardinality(lost) -> lost]
        /\ \A i \in lost : \E row \in 1 .. Cardinality(lost) : Ascending(lost)[row] = i
    BY <1>4, <2>1, AscendingOf
  <2> QED
    BY <1>6, <2>1, <2>2
<1>8. missing = Missing(s)
  BY <1>1, <1>5, <1>6 DEF Missing
<1>9. \A i \in 1 .. n : PictureAt(s, i) = w.picture[w.prepared[i]] /\ PictureAt(s, i) \in Subject
  BY <1>1, <1>3, <1>4 DEF PictureAt, WorkingSound, VectorsSound, Subject
<1>10. ASSUME NEW i \in 1 .. n
       PROVE  /\ KeyOf(s, PictureAt(s, i)) \in Key /\ VectorOf(s, PictureAt(s, i)) \in Vector
              /\ Fits(VectorOf(s, PictureAt(s, i)), w.picture[w.prepared[i]], w.net, w.by, mixed)
              /\ Belongs(VectorOf(s, PictureAt(s, i)), KeyOf(s, PictureAt(s, i)), mixed)
  <2>1. PICK x \in Subject : x = PictureAt(s, i)
    BY <1>9
  <2>2. NetSound(sifting[s].net, sifting[s].by, mixed)
    BY <1>1, <1>3 DEF WaitingSound
  <2> QED
    BY <1>1, <1>3, <1>9, <2>1, <2>2, AnswersOf
<1>11. PICK computed : computed = [row \in 1 .. many |-> VectorOf(s, PictureAt(s, missing[row]))]
  OBVIOUS
<1>12. computed = Computed(s)
  BY <1>7, <1>8, <1>11 DEF Computed
<1>13. PICK vectors : vectors = [i \in 1 .. n |-> IF w.vectors[i] = Nothing
                                                  THEN computed[RowFor(missing, i)] ELSE w.vectors[i]]
  OBVIOUS
<1>14. ASSUME NEW i \in 1 .. n
       PROVE  Fits(vectors[i], w.picture[w.prepared[i]], w.net, w.by, mixed)
  <2>1. CASE i \in lost
    <3>1. PICK row : row = RowFor(missing, i)
      OBVIOUS
    <3>2. row \in 1 .. many /\ missing[row] = i
      BY <1>7, <2>1, <3>1 DEF RowFor
    <3>3. vectors[i] = VectorOf(s, PictureAt(s, i))
      BY <1>6, <1>11, <1>13, <2>1, <3>1, <3>2
    <3> QED
      BY <1>10, <3>3
  <2>2. CASE i \notin lost
    <3>1. vectors[i] = w.vectors[i] /\ w.vectors[i] # Nothing /\ i \in 1 .. Len(w.vectors)
      BY <1>2, <1>4, <1>6, <1>13, <2>2
    <3> QED
      BY <1>3, <3>1 DEF WorkingSound, VectorsSound
  <2> QED
    BY <2>1, <2>2
<1>15. vectors \in Seq(Vector \union {Nothing}) /\ Len(vectors) = n
  <2>1. vectors \in [1 .. n -> Vector \union {Nothing}]
    BY <1>13, <1>14 DEF Fits
  <2>2. PICK S : S = Vector \union {Nothing}
    OBVIOUS
  <2>3. vectors \in [1 .. n -> S]
    BY <2>1, <2>2
  <2> QED
    BY <1>4, <2>2, <2>3
<1>16. PICK unsaved : unsaved =
         [row \in 1 .. many |-> [key |-> KeyOf(s, PictureAt(s, missing[row])), vector |-> computed[row]]]
  OBVIOUS
<1>17. /\ unsaved \in Seq([key : Key, vector : Vector])
       /\ \A i \in 1 .. Len(unsaved) : Belongs(unsaved[i].vector, unsaved[i].key, mixed)
  <2>1. PICK S : S = [key : Key, vector : Vector]
    OBVIOUS
  <2>2. ASSUME NEW row \in 1 .. many
        PROVE  unsaved[row] \in S /\ Belongs(unsaved[row].vector, unsaved[row].key, mixed)
    <3>1. PICK i \in 1 .. n : i = missing[row]
      BY <1>7
    <3>2. PICK k, v : k = KeyOf(s, PictureAt(s, i)) /\ v = VectorOf(s, PictureAt(s, i))
      OBVIOUS
    <3>3. k \in Key /\ v \in Vector /\ Belongs(v, k, mixed)
      BY <1>10, <3>2
    <3>4. unsaved[row] = [key |-> k, vector |-> v]
      BY <1>11, <1>16, <3>1, <3>2
    <3> QED
      BY <2>1, <3>3, <3>4
  <2>3. unsaved \in [1 .. many -> S]
    BY <1>16, <2>2
  <2>4. unsaved \in Seq(S) /\ Len(unsaved) = many
    BY <1>7, <2>3
  <2> QED
    BY <2>1, <2>2, <2>4
<1>18. PICK new : new = [w EXCEPT !.at = "saving", !.vectors = vectors, !.unsaved = unsaved]
  OBVIOUS
<1>19. /\ new \in Working /\ new.at = "saving" /\ new.by = w.by /\ new.net = w.net
       /\ new.prepared = w.prepared /\ new.picture = w.picture /\ new.vectors = vectors
       /\ new.unsaved = unsaved /\ new.results = w.results
  BY <1>3, <1>15, <1>17, <1>18 DEF Working, Busy
<1>20. SiftSound(new, mixed)
  <2>1. WaitingSound(new, mixed)
    BY <1>3, <1>19 DEF WaitingSound, OutcomeSound
  <2>2. VectorsSound(new, mixed) /\ Embedded(new, mixed)
    BY <1>3, <1>4, <1>14, <1>15, <1>17, <1>19 DEF WorkingSound, VectorsSound, Embedded
  <2>3. WorkingSound(new, mixed)
    BY <1>2, <1>3, <1>19, <2>2 DEF WorkingSound
  <2> QED
    BY <1>19, <2>1, <2>3 DEF SiftSound
<1>21. DOMAIN sifting' = Sifter /\ sifting'[s] = new /\ \A q \in Sifter \ {s} : sifting'[q] = sifting[q]
  <2>1. DOMAIN missing = 1 .. many
    BY <1>7
  <2>2. sifting' = [sifting EXCEPT ![s].at = "saving", ![s].vectors = vectors, ![s].unsaved = unsaved]
    BY <1>1, <1>5, <1>8, <1>12, <1>13, <1>16, <2>1 DEF Encode
  <2> QED
    BY <1>1, <1>18, <2>2 DEF DecisionInv
<1> QED
  BY <1>20, <1>21, QuietStep DEF Encode

\* What a process brings to a batch.
LEMMA StandingSound ==
  ASSUME DecisionInv, NEW s \in Sifter, NEW was \in Standing(s)
  PROVE  was.by \in Preparation /\ was.net \in Nets /\ NetSound(was.net, was.by, mixed)
<1>1. CASE sifting[s].at = "idle"
  <2>1. was = sifting[s]
    BY <1>1 DEF Standing, Doing
  <2> QED
    BY <1>1, <2>1, Stands DEF Waiting, WaitingSound
<1>2. CASE sifting[s].at # "idle"
  <2>1. PICK c \in Setting : was = Fresh(c.pin, c.by)
    BY <1>2 DEF Standing, Doing
  <2>2. was.net = [pin |-> c.pin, processor |-> 0, model |-> 0, named |-> 0, prompts |-> Nothing]
        /\ was.by = c.by
    BY <2>1 DEF Fresh, Unloaded
  <2>3. c.pin \in {0, 1} /\ c.by \in Preparation /\ 0 \in Commits
    BY DecisionAssumption DEF Preparation, Commits
  <2> QED
    BY <2>2, <2>3 DEF Nets, NetSound
<1> QED
  BY <1>1, <1>2

LEMMA TakeBatchStep ==
  ASSUME DecisionInv, NEW s \in Sifter, TakeBatch(s)
  PROVE  DecisionInv'
<1>1. PICK was \in Standing(s), batch \in Batch : \E picture \in Loads(batch) :
        LET Prepared(e) == picture[e] # Nothing /\ Disposition(picture[e]) # "force_reject"
            kept     == Ascending({i \in DOMAIN batch : Prepared(batch[i])})
            prepared == [row \in DOMAIN kept |-> batch[kept[row]]]
        IN  sifting' = [sifting EXCEPT ![s] =
              [at |-> IF prepared = <<>> THEN "persisting"
                      ELSE IF was.net.model = 0 THEN "fetching" ELSE "looking",
               by |-> was.by, net |-> was.net, prepared |-> prepared, picture |-> picture,
               vectors |-> <<>>, unsaved |-> <<>>,
               results |-> [e \in Members(batch) |->
                              IF picture[e] = Nothing THEN Error ELSE ByRules]]]
  BY DEF TakeBatch
<1>2. PICK picture \in Loads(batch) :
        LET Prepared(e) == picture[e] # Nothing /\ Disposition(picture[e]) # "force_reject"
            kept     == Ascending({i \in DOMAIN batch : Prepared(batch[i])})
            prepared == [row \in DOMAIN kept |-> batch[kept[row]]]
        IN  sifting' = [sifting EXCEPT ![s] =
              [at |-> IF prepared = <<>> THEN "persisting"
                      ELSE IF was.net.model = 0 THEN "fetching" ELSE "looking",
               by |-> was.by, net |-> was.net, prepared |-> prepared, picture |-> picture,
               vectors |-> <<>>, unsaved |-> <<>>,
               results |-> [e \in Members(batch) |->
                              IF picture[e] = Nothing THEN Error ELSE ByRules]]]
  BY <1>1
<1> DEFINE Prepared(e) == picture[e] # Nothing /\ Disposition(picture[e]) # "force_reject"
           places   == {i \in DOMAIN batch : Prepared(batch[i])}
           kept     == Ascending(places)
           prepared == [row \in DOMAIN kept |-> batch[kept[row]]]
           r  == [e \in Members(batch) |-> IF picture[e] = Nothing THEN Error ELSE ByRules]
           at == IF prepared = <<>> THEN "persisting"
                 ELSE IF was.net.model = 0 THEN "fetching" ELSE "looking"
           by == was.by
           net == was.net
           new == [at |-> at, by |-> by, net |-> net, prepared |-> prepared, picture |-> picture,
                   vectors |-> <<>>, unsaved |-> <<>>, results |-> r]
<1>3. sifting' = [sifting EXCEPT ![s] = new]
  BY <1>2
<1>4. /\ at \in {"persisting", "fetching", "looking"}
      /\ at = "fetching" => net.model = 0
      /\ at = "looking" => net.model # 0
  OBVIOUS
<1>5. /\ \A i \in places : i \in DOMAIN batch /\ picture[batch[i]] # Nothing
      /\ prepared = [row \in DOMAIN kept |-> batch[kept[row]]] /\ kept = Ascending(places)
      /\ r = [e \in Members(batch) |-> IF picture[e] = Nothing THEN Error ELSE ByRules]
      /\ new = [at |-> at, by |-> by, net |-> net, prepared |-> prepared, picture |-> picture,
                vectors |-> <<>>, unsaved |-> <<>>, results |-> r]
  OBVIOUS
<1>6. by \in Preparation /\ net \in Nets /\ NetSound(net, by, mixed)
  BY StandingSound
<1> HIDE DEF at, by, net, places, kept, prepared, r, new
<1>7. PICK n \in Nat : n = Len(batch) /\ DOMAIN batch = 1 .. n /\ batch \in [1 .. n -> Entry]
  BY DecisionAssumption
<1>8. Members(batch) \in SUBSET Entry /\ \A i \in 1 .. n : batch[i] \in Members(batch)
  BY <1>7 DEF Members
<1>9. picture \in [Members(batch) -> Picture \union {Nothing}]
  BY DEF Loads
<1>10. PICK many \in Nat : kept \in [1 .. many -> places] /\ places \subseteq 1 .. n
  <2>1. places \in SUBSET (1 .. n)
    BY <1>7, <1>5
  <2> QED
    BY <1>7, <1>5, <2>1, AscendingOf
<1>11. /\ prepared \in [1 .. many -> Entry]
       /\ \A row \in 1 .. many : picture[prepared[row]] \in Picture
  BY <1>5, <1>7, <1>8, <1>9, <1>10
<1>12. prepared \in Seq(Entry) /\ Len(prepared) = many
  BY <1>11
<1>13. r \in Results /\ \A e \in DOMAIN r : "vector" \notin DOMAIN r[e]
  <2>1. ByRules \in Outcomes /\ "vector" \notin DOMAIN ByRules
    BY DEF ByRules, Outcomes, Verdicts
  <2>2. r \in [Members(batch) -> Outcomes]
    BY <1>5, <2>1, ErrorOutcome
  <2> QED
    BY <1>5, <1>8, <2>1, <2>2, ErrorOutcome DEF Results
<1>14. picture \in Found
  BY <1>8, <1>9 DEF Found
<1>15. /\ new \in Working /\ new.at = at /\ new.by = by /\ new.net = net
       /\ new.prepared = prepared /\ new.picture = picture /\ new.vectors = <<>>
       /\ new.unsaved = <<>> /\ new.results = r
  <2>1. at \in Busy
    BY <1>4 DEF Busy
  <2>2. /\ <<>> \in Seq(Vector \union {Nothing}) /\ <<>> \in Seq([key : Key, vector : Vector])
    OBVIOUS
  <2> QED
    BY <1>6, <1>12, <1>13, <1>14, <1>5, <2>1, <2>2 DEF Working
<1>16. SiftSound(new, mixed)
  <2>1. WaitingSound(new, mixed)
    BY <1>6, <1>13, <1>15 DEF WaitingSound, OutcomeSound
  <2>2. VectorsSound(new, mixed)
    BY <1>11, <1>12, <1>15 DEF VectorsSound
  <2>3. WorkingSound(new, mixed)
    BY <1>13, <1>4, <1>15, <2>2 DEF WorkingSound
  <2> QED
    BY <1>15, <2>1, <2>3 DEF SiftSound
<1>17. DOMAIN sifting' = Sifter /\ sifting'[s] = new /\ \A q \in Sifter \ {s} : sifting'[q] = sifting[q]
  BY <1>3 DEF DecisionInv
<1> QED
  BY <1>16, <1>17, QuietStep DEF TakeBatch

LEMMA DecisionInvInit == DecisionInit => DecisionInv
<1> SUFFICES ASSUME DecisionInit PROVE DecisionInv
  OBVIOUS
<1>1. \A s \in Sifter : SiftSound(sifting[s], mixed)
  BY DEF DecisionInit, SiftSound, Off, Busy
<1> QED
  BY <1>1, DecisionAssumption DEF DecisionInit, DecisionInv, Commits

LEMMA DecisionInvNext == DecisionInv /\ [DecisionNext]_decisionVars => DecisionInv'
<1> SUFFICES ASSUME DecisionInv, [DecisionNext]_decisionVars PROVE DecisionInv'
  OBVIOUS
<1>1. CASE BranchMoves
  BY <1>1, ElseStep, DecisionAssumption DEF BranchMoves, DecisionInv
<1>2. CASE UNCHANGED decisionVars
  BY <1>2, ElseStep DEF decisionVars, DecisionInv
<1>3. ASSUME NEW s \in Sifter,
             \/ TakeBatch(s) \/ FetchProcessor(s) \/ FetchModel(s)
             \/ LookUp(s) \/ LookUpFails(s) \/ Encode(s) \/ GetPrompts(s)
             \/ SaveArray(s) \/ SaveRecord(s) \/ SaveFails(s)
             \/ Score(s) \/ BatchFails(s) \/ Persist(s) \/ PersistFails(s) \/ Die(s)
      PROVE  DecisionInv'
  BY <1>3, TakeBatchStep, FetchProcessorStep, FetchModelStep, LookUpStep, LookUpFailsStep,
     EncodeStep, GetPromptsStep, SaveArrayStep, SaveRecordStep, SaveFailsStep, ScoreStep,
     BatchFailsStep, PersistStep, PersistFailsStep, DieStep
<1> QED
  BY <1>1, <1>2, <1>3 DEF DecisionNext

\* The store, its index of entries and the model's commits keep their types.
THEOREM DecisionTypeSafety == DecisionSpec => []DecisionTypeOK
<1>1. DecisionInv => DecisionTypeOK
  BY DEF DecisionInv, DecisionTypeOK
<1> QED
  BY <1>1, DecisionInvInit, DecisionInvNext, PTL DEF DecisionSpec

\* Whatever other processes wrote, lost or left half written in the cache, and
\* whenever the model's branch moved, a candidate that the model decided was
\* decided on the embedding of its own picture and as that picture deserves.
THEOREM DecidedAsDeserved == DecisionSpec => []DecidedOnOwnImage
<1>1. DecisionInv => DecidedOnOwnImage
  <2> SUFFICES ASSUME DecisionInv, NEW s \in Sifter, sifting[s].at = "idle",
                      NEW e \in DOMAIN sifting[s].results,
                      "vector" \in DOMAIN sifting[s].results[e]
               PROVE  LET result == sifting[s].results[e]
                          picture == sifting[s].picture[e]
                      IN  /\ result.decision = DecisionFor(Disposition(picture), ScoresOf[picture])
                          /\ result.vector.of = picture /\ result.prompts.of = Prompts
                          /\ Net(s).named # 0 =>
                               \A v \in {result.vector, result.prompts} :
                                 /\ v.model = Net(s).model /\ v.by = sifting[s].by
                                 /\ v.model \in mixed \/ v.processor = v.model
    BY DEF DecidedOnOwnImage, Doing
  <2>1. OutcomeSound(sifting[s], e, mixed)
    BY Stands DEF WaitingSound
  <2> QED
    BY <2>1 DEF OutcomeSound, Fits, Net
<1> QED
  BY <1>1, DecisionInvInit, DecisionInvNext, PTL DEF DecisionSpec
=============================================================================
