------------------------- MODULE EventStreamProofs -------------------------
(***************************************************************************)
(* Theorems about the event stream, for any number of dashboards, chargers *)
(* and snapshots and any capacity of the channels.                         *)
(***************************************************************************)
EXTENDS EventStream, SequenceTheorems, TLAPS

\* The newest version that has been emitted.
Emitted(g) == IF unsent[g] THEN snap[g] - 1 ELSE snap[g]

\* The news of charger g come in order in s, those of s before those of t, and
\* none after version v.
Ascending(s, g) ==
  \A i, j \in 1 .. Len(s) :
    i < j /\ NewsOf(s[i], g) /\ NewsOf(s[j], g) => s[i].ver < s[j].ver
Precedes(s, t, g) ==
  \A i \in 1 .. Len(s), j \in 1 .. Len(t) :
    NewsOf(s[i], g) /\ NewsOf(t[j], g) => s[i].ver < t[j].ver
UpTo(s, g, v) == \A i \in 1 .. Len(s) : NewsOf(s[i], g) => s[i].ver <= v
Carries(s, g, v) == \E i \in 1 .. Len(s) : NewsOf(s[i], g) /\ s[i].ver = v
NoNews(s, g) == \A i \in 1 .. Len(s) : ~NewsOf(s[i], g)
Own(s, g) == \A i \in 1 .. Len(s) : NewsOf(s[i], g)

\* The queue o of a dashboard, what the fanout of charger g holds and the
\* events of g are in order, from v downwards.
Ordered(o, h, e, g, v) ==
  /\ UpTo(o, g, v) /\ UpTo(h, g, v) /\ UpTo(e, g, v)
  /\ Ascending(o, g) /\ Ascending(e, g)
  /\ Precedes(o, h, g) /\ Precedes(o, e, g) /\ Precedes(h, e, g)

\* Version v of charger g is on that way, or is the last that was shown (s), or
\* is not newer than the registration (r), or was dropped (d).
Known(o, h, e, g, v, s, r, d) ==
  \/ r >= v \/ d = v
  \/ Carries(o, g, v) \/ Carries(h, g, v) \/ Carries(e, g, v)
  \/ s = v /\ NoNews(o, g) /\ NoNews(h, g) /\ NoNews(e, g)

-----------------------------------------------------------------------------
(* The invariant                                                           *)

\* A charger has a snapshot once it is configured, which is the first it emits,
\* and its fanout is live while it is the current one.
Configured ==
  /\ \A g \in Gens : snap[g] = 0 <=> g > made
  /\ \A g \in Gens : unsent[g] => snap[g] >= 2
  /\ \A g \in Gens : fan[g] = "live" => g = current
  /\ \A c \in Clients : sees[c] <= made

\* The channels of a charger carry its own snapshots.
OwnNews == \A g \in Gens : Own(held[g], g) /\ Own(events[g], g)

\* Up to a dashboard they are in the order they were emitted in.
InOrder ==
  \A c \in Clients, g \in Gens : Ordered(outCh[c], held[g], events[g], g, Emitted(g))

\* A dashboard is registered while it is served and its queue is open, and
\* before that nothing has been queued or shown.
Open ==
  \A c \in Clients :
    /\ c \in clients => ~closed[c]
    /\ stage[c] # "serving" =>
         outCh[c] = <<>> /\ c \notin clients /\ ~closed[c] /\ \A g \in Gens : seen[c][g] = 0

\* A greeting is of a configured charger; in a queue it is the first, and
\* nothing was shown before it.
Greeting(e, m) == e.greet /\ e.gen <= m
GreetFirst ==
  \A c \in Clients :
    /\ Len(greeting[c]) <= 1
    /\ \A j \in 1 .. Len(greeting[c]) : Greeting(greeting[c][j], made)
    /\ \A j \in 1 .. Len(outCh[c]) : outCh[c][j].greet =>
         j = 1 /\ Greeting(outCh[c][j], made) /\ \A g \in Gens : seen[c][g] = 0

\* The newest version that was emitted is accounted for.
Accounted ==
  \A c \in Clients, g \in Gens :
    /\ dropped[c][g] <= Emitted(g) /\ regAt[c][g] <= snap[g]
    /\ c \in clients =>
         Known(outCh[c], held[g], events[g], g, Emitted(g), seen[c][g], regAt[c][g], dropped[c][g])

StreamInv ==
  TypeOK /\ Configured /\ OwnNews /\ InOrder /\ Open /\ GreetFirst /\ Accounted

-----------------------------------------------------------------------------
(* Sequences of events                                                     *)

\* What a sequence of events holds.
LEMMA Typed ==
  ASSUME NEW s \in Seq(Event)
  PROVE  /\ Len(s) \in Nat
         /\ \A i \in 1 .. Len(s) : s[i] \in Event /\ s[i].ver \in Nat /\ s[i].ver >= 1
<1>1. Len(s) \in Nat
  BY LenProperties
<1>2. ASSUME NEW i \in 1 .. Len(s) PROVE s[i] \in Event /\ s[i].ver \in Nat /\ s[i].ver >= 1
  <2>1. s[i] \in Event
    BY ElementOfSeq
  <2> QED
    BY <2>1, StreamAssumption DEF Event
<1> QED
  BY <1>1, <1>2

\* A sequence of one event, and none.
LEMMA Single ==
  /\ <<>> \in Seq(Event) /\ Len(<<>>) = 0 /\ 1 .. 0 = {}
  /\ \A x \in Event : <<x>> \in Seq(Event) /\ Len(<<x>>) = 1 /\ <<x>>[1] = x /\ <<x>> # <<>>
  /\ \A i \in 1 .. 1 : i = 1
OBVIOUS

\* The head of a sequence and what follows it.
LEMMA HeadTail ==
  ASSUME NEW s \in Seq(Event), s # <<>>
  PROVE  /\ Head(s) = s[1] /\ Head(s) \in Event /\ 1 \in 1 .. Len(s)
         /\ Tail(s) \in Seq(Event) /\ Len(Tail(s)) = Len(s) - 1
         /\ \A i \in 1 .. Len(Tail(s)) : Tail(s)[i] = s[i + 1] /\ i + 1 \in 1 .. Len(s) /\ i \in Nat
         /\ \A i \in 1 .. Len(s) : i = 1 \/ (i - 1 \in 1 .. Len(Tail(s)) /\ s[i] = Tail(s)[i - 1])
<1>1. Len(s) \in Nat \ {0}
  BY EmptySeq
<1>2. Tail(s) \in Seq(Event) /\ Head(s) \in Event /\ Len(Tail(s)) = Len(s) - 1
      /\ \A i \in 1 .. Len(Tail(s)) : Tail(s)[i] = s[i + 1]
  BY HeadTailProperties
<1>3. ASSUME NEW i \in 1 .. Len(s), i # 1
      PROVE  i - 1 \in 1 .. Len(Tail(s)) /\ s[i] = Tail(s)[i - 1]
  BY <1>1, <1>2, <1>3
<1> QED
  BY <1>1, <1>2, <1>3

\* An event at the end of a sequence.
LEMMA AtEnd ==
  ASSUME NEW s \in Seq(Event), NEW x \in Event
  PROVE  /\ Append(s, x) \in Seq(Event) /\ Len(Append(s, x)) = Len(s) + 1
         /\ \A i \in 1 .. Len(s) : Append(s, x)[i] = s[i] /\ i \in 1 .. Len(Append(s, x))
         /\ Append(s, x)[Len(s) + 1] = x /\ Len(s) + 1 \in 1 .. Len(Append(s, x))
         /\ \A i \in 1 .. Len(Append(s, x)) : i \in 1 .. Len(s) \/ i = Len(s) + 1
<1>1. Len(s) \in Nat
  BY LenProperties
<1> QED
  BY <1>1, AppendProperties

\* What holds of a sequence holds of its tail.
LEMMA OfTail ==
  ASSUME NEW s \in Seq(Event), s # <<>>, NEW g, NEW v
  PROVE  /\ UpTo(s, g, v) => UpTo(Tail(s), g, v)
         /\ Ascending(s, g) => Ascending(Tail(s), g)
         /\ \A t : Precedes(t, s, g) => Precedes(t, Tail(s), g)
         /\ \A t : Precedes(s, t, g) => Precedes(Tail(s), t, g)
         /\ NoNews(s, g) => NoNews(Tail(s), g) /\ ~NewsOf(Head(s), g)
         /\ Own(s, g) => Own(Tail(s), g) /\ NewsOf(Head(s), g)
         /\ Carries(s, g, v) => Carries(Tail(s), g, v) \/ (NewsOf(Head(s), g) /\ Head(s).ver = v)
<1> DEFINE t == Tail(s)
<1>1. /\ Head(s) = s[1] /\ 1 \in 1 .. Len(s)
      /\ \A i \in 1 .. Len(t) : t[i] = s[i + 1] /\ i + 1 \in 1 .. Len(s) /\ i \in Nat
      /\ \A i \in 1 .. Len(s) : i = 1 \/ (i - 1 \in 1 .. Len(t) /\ s[i] = t[i - 1])
  BY HeadTail
<1> HIDE DEF t
<1>2. UpTo(s, g, v) => UpTo(t, g, v)
  BY <1>1 DEF UpTo
<1>3. ASSUME Ascending(s, g), NEW i \in 1 .. Len(t), NEW j \in 1 .. Len(t), i < j,
             NewsOf(t[i], g), NewsOf(t[j], g)
      PROVE  t[i].ver < t[j].ver
  <2>1. t[i] = s[i + 1] /\ t[j] = s[j + 1] /\ i + 1 \in 1 .. Len(s) /\ j + 1 \in 1 .. Len(s) /\ i + 1 < j + 1
    BY <1>1, <1>3
  <2> QED
    BY <1>3, <2>1 DEF Ascending
<1>4. ASSUME NEW u, Precedes(u, s, g) PROVE Precedes(u, t, g)
  BY <1>1, <1>4 DEF Precedes
<1>5. ASSUME NEW u, Precedes(s, u, g) PROVE Precedes(t, u, g)
  BY <1>1, <1>5 DEF Precedes
<1>6. NoNews(s, g) => NoNews(t, g) /\ ~NewsOf(Head(s), g)
  BY <1>1 DEF NoNews
<1>7. Own(s, g) => Own(t, g) /\ NewsOf(Head(s), g)
  BY <1>1 DEF Own
<1>8. Carries(s, g, v) => Carries(t, g, v) \/ (NewsOf(Head(s), g) /\ Head(s).ver = v)
  BY <1>1 DEF Carries
<1>9. Ascending(s, g) => Ascending(t, g)
  BY <1>3 DEF Ascending
<1> QED
  BY <1>2, <1>4, <1>5, <1>6, <1>7, <1>8, <1>9 DEF t

\* What holds of one event and of a sequence holds of both together.
LEMMA OfAppend ==
  ASSUME NEW s \in Seq(Event), NEW x \in Event, NEW g, NEW v
  PROVE  /\ UpTo(s, g, v) /\ (NewsOf(x, g) => x.ver <= v) => UpTo(Append(s, x), g, v)
         /\ Ascending(s, g) /\ Precedes(s, <<x>>, g) => Ascending(Append(s, x), g)
         /\ \A t : Precedes(t, s, g) /\ Precedes(t, <<x>>, g) => Precedes(t, Append(s, x), g)
         /\ \A t : Precedes(s, t, g) /\ Precedes(<<x>>, t, g) => Precedes(Append(s, x), t, g)
         /\ NoNews(s, g) /\ ~NewsOf(x, g) => NoNews(Append(s, x), g)
         /\ Own(s, g) /\ NewsOf(x, g) => Own(Append(s, x), g)
         /\ Carries(s, g, v) => Carries(Append(s, x), g, v)
         /\ NewsOf(x, g) /\ x.ver = v => Carries(Append(s, x), g, v)
<1> DEFINE a == Append(s, x)
           n == Len(s) + 1
<1>1. /\ \A i \in 1 .. Len(s) : a[i] = s[i] /\ i \in 1 .. Len(a)
      /\ a[n] = x /\ n \in 1 .. Len(a)
      /\ \A i \in 1 .. Len(a) : i \in 1 .. Len(s) \/ i = n
  BY AtEnd
<1>2. /\ Len(<<x>>) = 1 /\ <<x>>[1] = x /\ 1 \in 1 .. Len(<<x>>) /\ Len(s) \in Nat
  BY Single, Typed
<1> HIDE DEF a
<1>3. UpTo(s, g, v) /\ (NewsOf(x, g) => x.ver <= v) => UpTo(a, g, v)
  BY <1>1 DEF UpTo
<1>4. ASSUME Ascending(s, g), Precedes(s, <<x>>, g),
             NEW i \in 1 .. Len(a), NEW j \in 1 .. Len(a), i < j, NewsOf(a[i], g), NewsOf(a[j], g)
      PROVE  a[i].ver < a[j].ver
  <2>1. i \in 1 .. Len(s) /\ a[i] = s[i]
    BY <1>1, <1>2, <1>4
  <2>2. CASE j \in 1 .. Len(s)
    BY <1>1, <1>4, <2>1, <2>2 DEF Ascending
  <2>3. CASE j = n
    BY <1>1, <1>2, <1>4, <2>1, <2>3 DEF Precedes
  <2> QED
    BY <1>1, <2>2, <2>3
<1> HIDE DEF n
<1>5. ASSUME NEW t, Precedes(t, s, g), Precedes(t, <<x>>, g) PROVE Precedes(t, a, g)
  BY <1>1, <1>2, <1>5 DEF Precedes
<1>6. ASSUME NEW t, Precedes(s, t, g), Precedes(<<x>>, t, g) PROVE Precedes(a, t, g)
  BY <1>1, <1>2, <1>6 DEF Precedes
<1>7. NoNews(s, g) /\ ~NewsOf(x, g) => NoNews(a, g)
  BY <1>1 DEF NoNews
<1>8. Own(s, g) /\ NewsOf(x, g) => Own(a, g)
  BY <1>1 DEF Own
<1>9. /\ Carries(s, g, v) => Carries(a, g, v)
      /\ NewsOf(x, g) /\ x.ver = v => Carries(a, g, v)
  BY <1>1 DEF Carries
<1>10. Ascending(s, g) /\ Precedes(s, <<x>>, g) => Ascending(a, g)
  BY <1>4 DEF Ascending
<1> QED
  BY <1>3, <1>5, <1>6, <1>7, <1>8, <1>9, <1>10 DEF a

\* What holds of one event holds of the sequence of it, and of none.
LEMMA OfSingle ==
  ASSUME NEW x \in Event, NEW g, NEW v
  PROVE  /\ UpTo(<<x>>, g, v) <=> (NewsOf(x, g) => x.ver <= v)
         /\ \A t : Precedes(t, <<x>>, g) <=>
              \A i \in 1 .. Len(t) : NewsOf(t[i], g) /\ NewsOf(x, g) => t[i].ver < x.ver
         /\ \A t : Precedes(<<x>>, t, g) <=>
              \A i \in 1 .. Len(t) : NewsOf(x, g) /\ NewsOf(t[i], g) => x.ver < t[i].ver
         /\ NoNews(<<x>>, g) <=> ~NewsOf(x, g)
         /\ Own(<<x>>, g) <=> NewsOf(x, g)
         /\ Carries(<<x>>, g, v) <=> NewsOf(x, g) /\ x.ver = v
         /\ UpTo(<<>>, g, v) /\ NoNews(<<>>, g) /\ Own(<<>>, g) /\ ~Carries(<<>>, g, v)
         /\ Ascending(<<>>, g) /\ \A t : Precedes(<<>>, t, g) /\ Precedes(t, <<>>, g)
<1>1. /\ Len(<<x>>) = 1 /\ <<x>>[1] = x /\ Len(<<>>) = 0 /\ 1 .. 0 = {} /\ 1 \in 1 .. 1
      /\ \A i \in 1 .. 1 : i = 1
  BY Single
<1> DEFINE o == <<x>>
           z == <<>>
<1>2. /\ Len(o) = 1 /\ o[1] = x /\ Len(z) = 0 /\ 1 .. 0 = {} /\ 1 \in 1 .. 1
      /\ \A i \in 1 .. 1 : i = 1
  BY <1>1
<1> HIDE DEF o, z
<1>3. /\ UpTo(o, g, v) <=> (NewsOf(x, g) => x.ver <= v)
      /\ NoNews(o, g) <=> ~NewsOf(x, g)
      /\ Own(o, g) <=> NewsOf(x, g)
      /\ Carries(o, g, v) <=> NewsOf(x, g) /\ x.ver = v
  BY <1>2 DEF UpTo, NoNews, Own, Carries
<1>4. /\ \A t : Precedes(t, o, g) <=>
           \A i \in 1 .. Len(t) : NewsOf(t[i], g) /\ NewsOf(x, g) => t[i].ver < x.ver
      /\ \A t : Precedes(o, t, g) <=>
           \A i \in 1 .. Len(t) : NewsOf(x, g) /\ NewsOf(t[i], g) => x.ver < t[i].ver
  BY <1>2 DEF Precedes
<1>5. /\ UpTo(z, g, v) /\ NoNews(z, g) /\ Own(z, g) /\ ~Carries(z, g, v)
      /\ Ascending(z, g) /\ \A t : Precedes(z, t, g) /\ Precedes(t, z, g)
  BY <1>2 DEF UpTo, NoNews, Own, Carries, Ascending, Precedes
<1> QED
  BY <1>3, <1>4, <1>5 DEF o, z

-----------------------------------------------------------------------------
(* What the actions do to the way of the events                            *)

\* A newer version is emitted, and reaches the channel or not.
LEMMA Emitting ==
  ASSUME NEW o \in Seq(Event), NEW h \in Seq(Event), NEW e \in Seq(Event),
         NEW g \in Gens, NEW v \in Nat, v + 1 \in 1 .. MaxVersion, Ordered(o, h, e, g, v)
  PROVE  /\ Ordered(o, h, Append(e, News(g, v + 1)), g, v + 1)
         /\ Carries(Append(e, News(g, v + 1)), g, v + 1)
         /\ Own(e, g) => Own(Append(e, News(g, v + 1)), g)
         /\ Append(e, News(g, v + 1)) \in Seq(Event)
         /\ Ordered(o, h, e, g, v + 1)
<1> DEFINE x == News(g, v + 1)
           a == Append(e, x)
<1>1. x \in Event /\ NewsOf(x, g) /\ x.ver = v + 1
  BY DEF News, Event, NewsOf
<1> HIDE DEF x
<1>2. ASSUME NEW t \in Seq(Event), UpTo(t, g, v)
      PROVE  UpTo(t, g, v + 1) /\ Precedes(t, <<x>>, g)
  <2>1. \A i \in 1 .. Len(t) : NewsOf(t[i], g) => t[i].ver <= v /\ t[i].ver \in Nat
    BY <1>2, Typed DEF UpTo
  <2>2. \A i \in 1 .. Len(t) : NewsOf(t[i], g) => t[i].ver <= v + 1 /\ t[i].ver < x.ver
    BY <1>1, <2>1
  <2>3. Precedes(t, <<x>>, g)
    BY <1>1, <2>2, OfSingle
  <2> QED
    BY <2>2, <2>3 DEF UpTo
<1>3. Ordered(o, h, e, g, v + 1)
  BY <1>2 DEF Ordered
<1>4. Ordered(o, h, a, g, v + 1)
  BY <1>1, <1>2, <1>3, OfAppend DEF Ordered
<1>5. a \in Seq(Event)
  BY <1>1, AtEnd
<1> QED
  BY <1>1, <1>3, <1>4, <1>5, OfAppend DEF x

\* The fanout takes the next event.
LEMMA Taking ==
  ASSUME NEW o \in Seq(Event), NEW e \in Seq(Event), e # <<>>, NEW g \in Gens, NEW v,
         Ordered(o, <<>>, e, g, v)
  PROVE  /\ Ordered(o, <<Head(e)>>, Tail(e), g, v)
         /\ Own(e, g) => Own(<<Head(e)>>, g) /\ Own(Tail(e), g)
         /\ \A s, r, d : Known(o, <<>>, e, g, v, s, r, d) =>
                         Known(o, <<Head(e)>>, Tail(e), g, v, s, r, d)
<1> DEFINE x == Head(e)
           t == Tail(e)
<1>1. /\ x \in Event /\ x = e[1] /\ 1 \in 1 .. Len(e)
      /\ \A i \in 1 .. Len(t) : t[i] = e[i + 1] /\ i + 1 \in 1 .. Len(e) /\ i + 1 > 1
  BY HeadTail
<1> HIDE DEF x
<1>2. UpTo(<<x>>, g, v) /\ Precedes(o, <<x>>, g)
  BY <1>1, OfSingle DEF Ordered, UpTo, Precedes
<1>3. Precedes(<<x>>, t, g)
  <2>1. \A i \in 1 .. Len(t) : NewsOf(x, g) /\ NewsOf(t[i], g) => x.ver < t[i].ver
    BY <1>1 DEF Ordered, Ascending
  <2> QED
    BY <1>1, <2>1, OfSingle
<1>4. Ordered(o, <<x>>, t, g, v)
  BY <1>2, <1>3, OfTail DEF Ordered
<1>5. ASSUME NEW s, NEW r, NEW d, Known(o, <<>>, e, g, v, s, r, d)
      PROVE  Known(o, <<x>>, t, g, v, s, r, d)
  <2>1. ~Carries(<<>>, g, v)
    BY <1>1, OfSingle
  <2>2. Carries(e, g, v) => Carries(<<x>>, g, v) \/ Carries(t, g, v)
    BY <1>1, OfTail, OfSingle DEF x
  <2>3. NoNews(e, g) => NoNews(<<x>>, g) /\ NoNews(t, g)
    BY <1>1, OfTail, OfSingle DEF x
  <2> QED
    BY <1>5, <2>1, <2>2, <2>3 DEF Known
<1>6. Own(e, g) => Own(<<x>>, g) /\ Own(t, g)
  BY <1>1, OfTail, OfSingle DEF x
<1> QED
  BY <1>4, <1>5, <1>6 DEF x

\* The fanout queues what it holds of its charger for a dashboard that has room.
LEMMA Sending ==
  ASSUME NEW o \in Seq(Event), NEW e \in Seq(Event), NEW x \in Event, NEW g \in Gens, NEW v,
         NewsOf(x, g), Ordered(o, <<x>>, e, g, v)
  PROVE  /\ Ordered(Append(o, x), <<>>, e, g, v)
         /\ \A s, r, d : Known(o, <<x>>, e, g, v, s, r, d) =>
                         Known(Append(o, x), <<>>, e, g, v, s, r, d)
<1>1. UpTo(Append(o, x), g, v) /\ Ascending(Append(o, x), g) /\ Precedes(Append(o, x), e, g)
  BY OfAppend, OfSingle DEF Ordered
<1>2. Ordered(Append(o, x), <<>>, e, g, v)
  BY <1>1, OfSingle DEF Ordered
<1>3. ASSUME NEW s, NEW r, NEW d, Known(o, <<x>>, e, g, v, s, r, d)
      PROVE  Known(Append(o, x), <<>>, e, g, v, s, r, d)
  BY <1>3, OfAppend, OfSingle DEF Known
<1> QED
  BY <1>2, <1>3

\* It drops what it holds for one that has none.
LEMMA Losing ==
  ASSUME NEW o \in Seq(Event), NEW e \in Seq(Event), NEW x \in Event, NEW g \in Gens, NEW v,
         NewsOf(x, g), Ordered(o, <<x>>, e, g, v)
  PROVE  /\ Ordered(o, <<>>, e, g, v)
         /\ x.ver <= v
         /\ \A s, r, d : Known(o, <<x>>, e, g, v, s, r, d) =>
                         x.ver = v \/ Known(o, <<>>, e, g, v, s, r, d)
BY OfSingle DEF Ordered, Known

\* To the way of another charger's events this changes nothing.
LEMMA Foreign ==
  ASSUME NEW o \in Seq(Event), NEW h, NEW e \in Seq(Event), NEW x \in Event, NEW g \in Gens, NEW v,
         ~NewsOf(x, g)
  PROVE  /\ Ordered(o, h, e, g, v) => Ordered(Append(o, x), h, e, g, v)
         /\ \A s, r, d : Known(o, h, e, g, v, s, r, d) => Known(Append(o, x), h, e, g, v, s, r, d)
<1>1. \A t : Precedes(<<x>>, t, g) /\ Precedes(t, <<x>>, g)
  BY OfSingle
<1>2. Ordered(o, h, e, g, v) => Ordered(Append(o, x), h, e, g, v)
  BY <1>1, OfAppend DEF Ordered
<1>3. ASSUME NEW s, NEW r, NEW d, Known(o, h, e, g, v, s, r, d)
      PROVE  Known(Append(o, x), h, e, g, v, s, r, d)
  BY <1>3, OfAppend DEF Known
<1> QED
  BY <1>2, <1>3

\* The dashboard shows the next event of its queue, which is no greeting.
LEMMA Showing ==
  ASSUME NEW o \in Seq(Event), o # <<>>, NEW h \in Seq(Event), NEW e \in Seq(Event),
         NEW g \in Gens, NEW v \in Nat, Ordered(o, h, e, g, v)
  PROVE  /\ Ordered(Tail(o), h, e, g, v)
         /\ \A s, r, d : ~NewsOf(Head(o), g) /\ Known(o, h, e, g, v, s, r, d)
                         => Known(Tail(o), h, e, g, v, s, r, d)
         /\ \A s, r, d : NewsOf(Head(o), g) /\ Known(o, h, e, g, v, s, r, d)
                         => Known(Tail(o), h, e, g, v, Head(o).ver, r, d)
<1> DEFINE x == Head(o)
           t == Tail(o)
<1>1. Ordered(t, h, e, g, v)
  BY OfTail DEF Ordered
<1>2. ASSUME NEW s, NEW r, NEW d, ~NewsOf(x, g), Known(o, h, e, g, v, s, r, d)
      PROVE  Known(t, h, e, g, v, s, r, d)
  BY <1>2, OfTail DEF Known
<1>3. ASSUME NewsOf(x, g), x.ver = v
      PROVE  NoNews(t, g) /\ NoNews(h, g) /\ NoNews(e, g)
  <2>1. /\ x = o[1] /\ 1 \in 1 .. Len(o) /\ t \in Seq(Event)
        /\ \A i \in 1 .. Len(t) : t[i] = o[i + 1] /\ i + 1 \in 1 .. Len(o) /\ i + 1 > 1
    BY HeadTail
  <2> HIDE DEF x, t
  <2>2. ASSUME NEW i \in 1 .. Len(t), NewsOf(t[i], g) PROVE FALSE
    <3>1. v < t[i].ver /\ t[i].ver <= v /\ t[i].ver \in Nat
      BY <1>1, <1>3, <2>1, <2>2, Typed DEF Ordered, Ascending, UpTo
    <3> QED
      BY <3>1
  <2>3. ASSUME NEW u \in Seq(Event), Precedes(o, u, g), UpTo(u, g, v), NEW i \in 1 .. Len(u), NewsOf(u[i], g)
        PROVE  FALSE
    <3>1. v < u[i].ver /\ u[i].ver <= v /\ u[i].ver \in Nat
      BY <1>3, <2>1, <2>3, Typed DEF Precedes, UpTo
    <3> QED
      BY <3>1
  <2> QED
    BY <2>2, <2>3 DEF Ordered, NoNews
<1>4. ASSUME NEW s, NEW r, NEW d, NewsOf(x, g), Known(o, h, e, g, v, s, r, d)
      PROVE  Known(t, h, e, g, v, x.ver, r, d)
  <2>1. ~NoNews(o, g)
    BY <1>4, OfTail
  <2> QED
    BY <1>3, <1>4, <2>1, OfTail DEF Known
<1> QED
  BY <1>1, <1>2, <1>4

-----------------------------------------------------------------------------
(* Each action preserves the invariant                                     *)

\* The types of what the proofs calculate with.
LEMMA Types ==
  ASSUME TypeOK
  PROVE  /\ MaxGen \in Nat /\ MaxVersion \in Nat \ {0} /\ OutCap \in Nat \ {0} /\ EventCap \in Nat \ {0}
         /\ made \in Nat /\ made <= MaxGen /\ current \in Nat /\ current <= made
         /\ \A g \in Gens : /\ g \in Nat \ {0} /\ g <= MaxGen /\ snap[g] \in Nat /\ snap[g] <= MaxVersion
                            /\ unsent[g] \in BOOLEAN
                            /\ events[g] \in Seq(Event) /\ held[g] \in Seq(Event)
         /\ \A c \in Clients : outCh[c] \in Seq(Event) /\ greeting[c] \in Seq(Event)
         /\ \A c \in Clients, g \in Gens :
              seen[c][g] \in Nat /\ regAt[c][g] \in Nat /\ dropped[c][g] \in Nat
<1>1. MaxGen \in Nat /\ MaxVersion \in Nat \ {0} /\ OutCap \in Nat \ {0} /\ EventCap \in Nat \ {0}
  BY StreamAssumption
<1>2. made \in 0 .. MaxGen /\ current \in 0 .. made
  BY DEF TypeOK
<1>3. made \in Nat /\ made <= MaxGen /\ current \in Nat /\ current <= made
  BY <1>1, <1>2
<1>4. ASSUME NEW g \in Gens
      PROVE  /\ g \in Nat \ {0} /\ g <= MaxGen /\ snap[g] \in Nat /\ snap[g] <= MaxVersion
             /\ unsent[g] \in BOOLEAN
             /\ events[g] \in Seq(Event) /\ held[g] \in Seq(Event)
  <2>1. snap[g] \in 0 .. MaxVersion /\ g \in 1 .. MaxGen
    BY DEF TypeOK, Gens
  <2>2. unsent[g] \in BOOLEAN /\ events[g] \in Seq(Event) /\ held[g] \in Seq(Event)
    BY DEF TypeOK
  <2> QED
    BY <1>1, <2>1, <2>2
<1>5. ASSUME NEW c \in Clients, NEW g \in Gens
      PROVE  seen[c][g] \in Nat /\ regAt[c][g] \in Nat /\ dropped[c][g] \in Nat
  <2>1. seen[c][g] \in 0 .. MaxVersion /\ regAt[c][g] \in 0 .. MaxVersion /\ dropped[c][g] \in 0 .. MaxVersion
    BY DEF TypeOK
  <2> QED
    BY <1>1, <2>1
<1>6. \A c \in Clients : outCh[c] \in Seq(Event) /\ greeting[c] \in Seq(Event)
  BY DEF TypeOK
<1> QED
  BY <1>1, <1>3, <1>4, <1>5, <1>6

\* At first nothing is configured, queued or registered.
LEMMA StreamInit == Init => StreamInv
<1> SUFFICES ASSUME Init PROVE StreamInv
  OBVIOUS
<1>1. TypeOK
  BY StreamAssumption DEF Init, TypeOK, PerGen, PerClient, Gens
<1>2. Configured /\ OwnNews /\ Open
  BY StreamAssumption DEF Init, Configured, OwnNews, Open, Own, PerGen, PerClient, Gens
<1>3. InOrder
  BY DEF Init, InOrder, Ordered, UpTo, Ascending, Precedes, PerGen, PerClient
<1>4. GreetFirst
  <2> DEFINE z == <<>>
  <2>1. \A c \in Clients : greeting[c] = z /\ outCh[c] = z
    BY DEF Init, PerClient
  <2>2. Len(z) = 0 /\ 1 .. 0 = {} /\ 0 <= 1
    BY Single
  <2> HIDE DEF z
  <2>3. ASSUME NEW c \in Clients PROVE Len(greeting[c]) <= 1 /\ 1 .. Len(greeting[c]) = {} /\ 1 .. Len(outCh[c]) = {}
    BY <2>1, <2>2
  <2> QED
    BY <2>3 DEF GreetFirst
<1>5. Accounted
  BY DEF Init, Accounted, Emitted, PerGen, PerClient
<1> QED
  BY <1>1, <1>2, <1>3, <1>4, <1>5 DEF StreamInv

\* The dashboards' side of the invariant is only about their own variables.
LEMMA SeatsUnchanged ==
  ASSUME Open, GreetFirst, made' = made,
         UNCHANGED <<stage, greeting, clients, outCh, closed, seen>>
  PROVE  Open' /\ GreetFirst'
<1>1. Open'
  BY DEF Open
<1>2. GreetFirst'
  BY DEF GreetFirst, Greeting
<1> QED
  BY <1>1, <1>2

\* A snapshot is stored.
LEMMA StoreStep ==
  ASSUME StreamInv, NEW g \in Gens, StoreSnapshot(g)
  PROVE  StreamInv'
<1> USE Types DEF StreamInv
<1>1. /\ snap[g] >= 1 /\ snap[g] < MaxVersion /\ ~unsent[g]
      /\ snap' = [snap EXCEPT ![g] = @ + 1] /\ unsent' = [unsent EXCEPT ![g] = TRUE]
      /\ UNCHANGED <<made, current, events, fan, held, clientVars, dropped>>
  BY DEF StoreSnapshot, Configured, fanVars
<1>2. TypeOK'
  BY <1>1 DEF TypeOK, clientVars
<1>3. \A k \in Gens : Emitted(k)' = Emitted(k) /\ snap'[k] >= snap[k] /\ (snap'[k] = 0 <=> snap[k] = 0)
                      /\ (unsent'[k] => snap'[k] >= 2)
  BY <1>1 DEF Emitted, TypeOK, Configured
<1>4. Configured'
  BY <1>1, <1>3 DEF Configured, clientVars
<1>5. OwnNews' /\ Open' /\ GreetFirst'
  BY <1>1 DEF OwnNews, Open, GreetFirst, Greeting, clientVars
<1>6. InOrder'
  BY <1>1, <1>3 DEF InOrder, clientVars
<1>7. Accounted'
  BY <1>1, <1>3 DEF Accounted, clientVars
<1> QED
  BY <1>2, <1>4, <1>5, <1>6, <1>7

\* It is emitted, into the channel or past it.
LEMMA EmitStep ==
  ASSUME StreamInv, NEW g \in Gens, EmitSnapshot(g)
  PROVE  StreamInv'
<1> DEFINE v == snap[g] - 1
           x == News(g, v + 1)
<1> USE Types DEF StreamInv
<1>1. /\ unsent[g] /\ snap[g] >= 2 /\ v \in Nat /\ v + 1 \in 1 .. MaxVersion /\ v + 1 = snap[g]
      /\ Emitted(g) = v /\ x = News(g, snap[g]) /\ x \in Event /\ x.ver = v + 1 /\ x.gen = g
      /\ unsent' = [unsent EXCEPT ![g] = FALSE]
      /\ UNCHANGED <<made, current, snap, fan, held, clientVars>>
  <2>1. /\ unsent[g] /\ unsent' = [unsent EXCEPT ![g] = FALSE]
        /\ UNCHANGED <<made, current, snap, fan, held, clientVars>>
    BY DEF EmitSnapshot, fanVars
  <2>2. snap[g] >= 2 /\ snap[g] \in Nat /\ snap[g] <= MaxVersion
    BY <2>1 DEF Configured
  <2>3. v \in Nat /\ v + 1 \in 1 .. MaxVersion /\ v + 1 = snap[g] /\ Emitted(g) = v
    BY <2>1, <2>2 DEF Emitted
  <2>4. x = News(g, snap[g]) /\ x \in Event /\ x.ver = v + 1 /\ x.gen = g
    BY <2>3 DEF News, Event
  <2> QED
    BY <2>1, <2>2, <2>3, <2>4
<1> HIDE DEF v, x
<1>2. \A k \in Gens : Emitted(k)' = IF k = g THEN v + 1 ELSE Emitted(k)
  BY <1>1 DEF Emitted, TypeOK
<1>3. Configured' /\ Open' /\ GreetFirst'
  <2>1. Configured'
    BY <1>1 DEF Configured, clientVars, TypeOK
  <2>2. Open' /\ GreetFirst'
    BY <1>1, SeatsUnchanged DEF clientVars
  <2> QED
    BY <2>1, <2>2
<1>4. CASE Len(events[g]) < EventCap /\ events' = [events EXCEPT ![g] = Append(@, x)] /\ UNCHANGED dropped
  <2>1. events'[g] = Append(events[g], x) /\ \A k \in Gens : k # g => events'[k] = events[k]
    BY <1>4 DEF TypeOK
  <2>2. events'[g] \in Seq(Event) /\ Len(events'[g]) <= EventCap
    BY <1>1, <1>4, <2>1, AtEnd, LenProperties
  <2>3. TypeOK'
    BY <1>1, <1>4, <2>1, <2>2 DEF TypeOK, clientVars
  <2>4. ASSUME NEW c \in Clients
        PROVE  Ordered(outCh[c], held[g], events'[g], g, v + 1)
    BY <1>1, <2>1, Emitting DEF InOrder, x
  <2>5. Carries(events'[g], g, v + 1) /\ Own(events'[g], g)
    <3>1. Len(events[g]) \in Nat /\ NewsOf(x, g)
      BY <1>1, LenProperties DEF NewsOf, News, x
    <3>2. Own(events[g], g)
      BY DEF OwnNews
    <3>3. Carries(Append(events[g], x), g, v + 1) /\ Own(Append(events[g], x), g)
      BY <1>1, <3>1, <3>2, OfAppend
    <3> QED
      BY <2>1, <3>3
  <2>6. OwnNews' /\ InOrder'
    <3>1. OwnNews'
      BY <1>1, <2>1, <2>5 DEF OwnNews
    <3>2. ASSUME NEW c \in Clients, NEW k \in Gens
          PROVE  Ordered(outCh'[c], held'[k], events'[k], k, Emitted(k)')
      <4>1. CASE k = g
        BY <1>1, <1>2, <2>4, <4>1 DEF clientVars
      <4>2. CASE k # g
        BY <1>1, <1>2, <2>1, <4>2 DEF InOrder, clientVars
      <4> QED
        BY <4>1, <4>2
    <3> QED
      BY <3>1, <3>2 DEF InOrder
  <2>7. Accounted'
    <3> SUFFICES ASSUME NEW c \in Clients, NEW k \in Gens
                 PROVE  /\ dropped'[c][k] <= Emitted(k)' /\ regAt'[c][k] <= snap'[k]
                        /\ c \in clients' =>
                           Known(outCh'[c], held'[k], events'[k], k, Emitted(k)', seen'[c][k], regAt'[c][k], dropped'[c][k])
      BY DEF Accounted
    <3>1. dropped[c][k] <= Emitted(k)
      BY DEF Accounted
    <3>2. dropped'[c][k] <= Emitted(k)' /\ regAt'[c][k] <= snap'[k]
      <4>1. regAt'[c][k] <= snap'[k] /\ dropped'[c][k] = dropped[c][k]
        BY <1>1, <1>4 DEF Accounted, clientVars
      <4>2. CASE k = g
        BY <1>1, <1>2, <3>1, <4>1, <4>2
      <4>3. CASE k # g
        BY <1>2, <3>1, <4>1, <4>3
      <4> QED
        BY <4>1, <4>2, <4>3
    <3>3. CASE k = g
      BY <1>2, <2>5, <3>2, <3>3 DEF Known
    <3>4. CASE k # g
      BY <1>1, <1>2, <1>4, <2>1, <3>2, <3>4 DEF Accounted, clientVars
    <3> QED
      BY <3>3, <3>4
  <2> QED
    BY <1>3, <2>3, <2>6, <2>7
<1>5. CASE dropped' = [c \in Clients |-> Dropping(c, x)] /\ UNCHANGED events
  <2>1. ASSUME NEW c \in Clients, NEW k \in Gens
        PROVE  dropped'[c][k] = IF k = g /\ v + 1 > dropped[c][g] THEN v + 1 ELSE dropped[c][k]
    BY <1>1, <1>5 DEF Dropping, TypeOK
  <2>2. TypeOK'
    <3>1. dropped' \in [Clients -> [Gens -> 0 .. MaxVersion]]
      BY <1>1, <1>5 DEF Dropping, TypeOK
    <3> QED
      BY <1>1, <1>5, <3>1 DEF TypeOK, clientVars
  <2>3. ASSUME NEW c \in Clients
        PROVE  Ordered(outCh[c], held[g], events[g], g, v + 1)
    BY <1>1, Emitting DEF InOrder
  <2>4. OwnNews' /\ InOrder'
    <3>1. OwnNews'
      BY <1>1, <1>5 DEF OwnNews
    <3>2. ASSUME NEW c \in Clients, NEW k \in Gens
          PROVE  Ordered(outCh'[c], held'[k], events'[k], k, Emitted(k)')
      <4>1. CASE k = g
        BY <1>1, <1>2, <1>5, <2>3, <4>1 DEF clientVars
      <4>2. CASE k # g
        BY <1>1, <1>2, <1>5, <4>2 DEF InOrder, clientVars
      <4> QED
        BY <4>1, <4>2
    <3> QED
      BY <3>1, <3>2 DEF InOrder
  <2>5. Accounted'
    <3> SUFFICES ASSUME NEW c \in Clients, NEW k \in Gens
                 PROVE  /\ dropped'[c][k] <= Emitted(k)' /\ regAt'[c][k] <= snap'[k]
                        /\ c \in clients' =>
                           Known(outCh'[c], held'[k], events'[k], k, Emitted(k)', seen'[c][k], regAt'[c][k], dropped'[c][k])
      BY DEF Accounted
    <3>1. /\ dropped[c][k] <= Emitted(k) /\ regAt'[c][k] <= snap'[k]
          /\ c \in clients =>
             Known(outCh[c], held[k], events[k], k, Emitted(k), seen[c][k], regAt[c][k], dropped[c][k])
      BY <1>1 DEF Accounted, clientVars
    <3>2. CASE k = g
      <4>1. dropped'[c][k] = v + 1 /\ Emitted(k)' = v + 1
        BY <1>1, <1>2, <2>1, <3>1, <3>2
      <4> QED
        BY <1>1, <3>1, <4>1 DEF Known
    <3>3. CASE k # g
      <4>1. dropped'[c][k] = dropped[c][k]
        BY <2>1, <3>3
      <4> QED
        BY <1>1, <1>2, <1>5, <3>1, <3>3, <4>1 DEF clientVars
    <3> QED
      BY <3>2, <3>3
  <2> QED
    BY <1>3, <2>2, <2>4, <2>5
<1> QED
  BY <1>1, <1>4, <1>5 DEF EmitSnapshot, Published

\* The fanout takes an event.
LEMMA TakeStep ==
  ASSUME StreamInv, NEW g \in Gens, FanoutTakes(g)
  PROVE  StreamInv'
<1> USE Types DEF StreamInv
<1>1. /\ held[g] = <<>> /\ events[g] # <<>>
      /\ held' = [held EXCEPT ![g] = <<Head(events[g])>>] /\ events' = [events EXCEPT ![g] = Tail(@)]
      /\ UNCHANGED <<made, current, snap, unsent, fan, clientVars, dropped>>
  BY DEF FanoutTakes, TakeEvent
<1>2. /\ held'[g] = <<Head(events[g])>> /\ events'[g] = Tail(events[g])
      /\ \A k \in Gens : k # g => held'[k] = held[k] /\ events'[k] = events[k]
      /\ \A k \in Gens : Emitted(k)' = Emitted(k)
  BY <1>1 DEF TypeOK, Emitted
<1>3. TypeOK'
  <2>1. held'[g] \in Seq(Event) /\ Len(held'[g]) <= 1
    BY <1>1, <1>2, HeadTail, Single
  <2>2. events'[g] \in Seq(Event) /\ Len(events'[g]) <= EventCap
    BY <1>1, <1>2, HeadTail, LenProperties DEF TypeOK
  <2> QED
    BY <1>1, <1>2, <2>1, <2>2 DEF TypeOK, clientVars
<1>4. Configured' /\ Open' /\ GreetFirst'
  <2>1. Configured'
    BY <1>1 DEF Configured, clientVars
  <2>2. Open' /\ GreetFirst'
    BY <1>1, SeatsUnchanged DEF clientVars
  <2> QED
    BY <2>1, <2>2
<1>5. OwnNews'
  <2>1. Own(Tail(events[g]), g) /\ NewsOf(Head(events[g]), g) /\ Head(events[g]) \in Event
    BY <1>1, OfTail, HeadTail DEF OwnNews
  <2>2. Own(<<Head(events[g])>>, g)
    BY <2>1, OfSingle
  <2> QED
    BY <1>2, <2>1, <2>2 DEF OwnNews
<1>6. ASSUME NEW c \in Clients
      PROVE  /\ Ordered(outCh[c], held'[g], events'[g], g, Emitted(g))
             /\ \A s, r, d : Known(outCh[c], held[g], events[g], g, Emitted(g), s, r, d) =>
                             Known(outCh[c], held'[g], events'[g], g, Emitted(g), s, r, d)
  <2>1. Ordered(outCh[c], <<>>, events[g], g, Emitted(g))
    BY <1>1 DEF InOrder
  <2> QED
    BY <1>1, <1>2, <2>1, Taking
<1>7. InOrder'
  BY <1>1, <1>2, <1>6 DEF InOrder, clientVars
<1>8. Accounted'
  <2> SUFFICES ASSUME NEW c \in Clients, NEW k \in Gens
               PROVE  /\ dropped'[c][k] <= Emitted(k)' /\ regAt'[c][k] <= snap'[k]
                      /\ c \in clients' =>
                         Known(outCh'[c], held'[k], events'[k], k, Emitted(k)', seen'[c][k], regAt'[c][k], dropped'[c][k])
    BY DEF Accounted
  <2>1. /\ dropped[c][k] <= Emitted(k) /\ regAt[c][k] <= snap[k]
        /\ c \in clients =>
           Known(outCh[c], held[k], events[k], k, Emitted(k), seen[c][k], regAt[c][k], dropped[c][k])
    BY DEF Accounted
  <2>2. CASE k = g
    <3>1. Known(outCh[c], held[g], events[g], g, Emitted(g), seen[c][g], regAt[c][g], dropped[c][g]) =>
          Known(outCh[c], held'[g], events'[g], g, Emitted(g), seen[c][g], regAt[c][g], dropped[c][g])
      BY <1>6
    <3> QED
      BY <1>1, <1>2, <2>1, <2>2, <3>1 DEF clientVars
  <2>3. CASE k # g
    BY <1>1, <1>2, <2>1, <2>3 DEF clientVars
  <2> QED
    BY <2>2, <2>3
<1> QED
  BY <1>3, <1>4, <1>5, <1>7, <1>8

\* It passes the event on to the dashboards that have room.
LEMMA SendStep ==
  ASSUME StreamInv, NEW g \in Gens, FanoutSends(g)
  PROVE  StreamInv'
<1> DEFINE x == Head(held[g])
<1> USE Types DEF StreamInv
<1>1. /\ held[g] # <<>> /\ held' = [held EXCEPT ![g] = <<>>]
      /\ UNCHANGED <<made, current, snap, unsent, events, fan, stage, sees, greeting, clients, closed, seen, regAt>>
      /\ outCh' = [c \in Clients |-> IF c \in clients /\ HasRoom(c) THEN Append(outCh[c], x) ELSE outCh[c]]
      /\ dropped' = [c \in Clients |-> IF c \in clients /\ ~HasRoom(c) THEN Dropping(c, x) ELSE dropped[c]]
  BY DEF FanoutSends, Deliver, actorVars
<1>2. x \in Event /\ x = held[g][1] /\ Len(held[g]) = 1 /\ NewsOf(x, g) /\ x.gen = g /\ ~x.greet /\ held[g] = <<x>>
  <2>1. x \in Event /\ x = held[g][1] /\ 1 \in 1 .. Len(held[g]) /\ Len(held[g]) <= 1 /\ Len(held[g]) \in Nat
    BY <1>1, HeadTail, LenProperties DEF TypeOK
  <2>2. NewsOf(x, g)
    BY <2>1 DEF OwnNews, Own
  <2>3. held[g] = <<x>>
    BY <2>1
  <2> QED
    BY <2>1, <2>2, <2>3 DEF NewsOf
<1> HIDE DEF x
<1>3. \A k \in Gens : /\ Emitted(k)' = Emitted(k) /\ (k # g => held'[k] = held[k] /\ ~NewsOf(x, k))
                      /\ held'[g] = <<>>
  BY <1>1, <1>2 DEF TypeOK, Emitted, NewsOf
<1>4. ASSUME NEW c \in Clients, c \in clients, HasRoom(c)
      PROVE  /\ outCh'[c] = Append(outCh[c], x) /\ dropped'[c] = dropped[c] /\ outCh'[c] \in Seq(Event)
             /\ Len(outCh'[c]) <= OutCap /\ stage[c] = "serving"
             /\ \A j \in 1 .. Len(outCh'[c]) : outCh'[c][j].greet => j \in 1 .. Len(outCh[c]) /\ outCh'[c][j] = outCh[c][j]
  <2>1. outCh'[c] = Append(outCh[c], x) /\ dropped'[c] = dropped[c] /\ Len(outCh[c]) < OutCap
    BY <1>1, <1>4 DEF HasRoom
  <2>2. /\ Append(outCh[c], x) \in Seq(Event) /\ Len(Append(outCh[c], x)) = Len(outCh[c]) + 1
        /\ \A i \in 1 .. Len(outCh[c]) : Append(outCh[c], x)[i] = outCh[c][i]
        /\ Append(outCh[c], x)[Len(outCh[c]) + 1] = x
        /\ \A i \in 1 .. Len(Append(outCh[c], x)) : i \in 1 .. Len(outCh[c]) \/ i = Len(outCh[c]) + 1
    BY <1>2, AtEnd
  <2>3. Len(outCh[c]) \in Nat
    BY LenProperties
  <2>4. stage[c] = "serving"
    BY <1>4 DEF Open
  <2> QED
    BY <1>2, <2>1, <2>2, <2>3, <2>4
<1>5. ASSUME NEW c \in Clients, ~(c \in clients /\ HasRoom(c))
      PROVE  outCh'[c] = outCh[c]
  BY <1>1, <1>5
<1>6. ASSUME NEW c \in Clients, c \in clients, ~HasRoom(c), NEW k \in Gens
      PROVE  dropped'[c][k] = IF k = g /\ x.ver > dropped[c][k] THEN x.ver ELSE dropped[c][k]
  BY <1>1, <1>2, <1>6 DEF Dropping, TypeOK
<1>7. TypeOK'
  <2>1. outCh' \in [Clients -> Seq(Event)] /\ \A c \in Clients : Len(outCh'[c]) <= OutCap
    <3>1. ASSUME NEW c \in Clients PROVE outCh'[c] \in Seq(Event) /\ Len(outCh'[c]) <= OutCap
      BY <1>4, <1>5 DEF TypeOK
    <3> QED
      BY <1>1, <3>1
  <2>2. dropped' \in [Clients -> [Gens -> 0 .. MaxVersion]]
    <3>1. x.ver \in 0 .. MaxVersion
      BY <1>2 DEF Event
    <3>2. ASSUME NEW c \in Clients PROVE Dropping(c, x) \in [Gens -> 0 .. MaxVersion]
      <4>1. dropped[c] \in [Gens -> 0 .. MaxVersion] /\ x.gen \in Gens
        BY <1>2 DEF TypeOK
      <4>2. (IF x.ver > dropped[c][x.gen] THEN x.ver ELSE dropped[c][x.gen]) \in 0 .. MaxVersion
        BY <3>1, <4>1
      <4> QED
        BY <4>1, <4>2 DEF Dropping
    <3> QED
      BY <1>1, <3>2 DEF TypeOK
  <2>3. held' \in [Gens -> Seq(Event)] /\ \A k \in Gens : Len(held'[k]) <= 1
    <3>1. ASSUME NEW k \in Gens PROVE held'[k] \in Seq(Event) /\ Len(held'[k]) <= 1
      <4>1. CASE k = g
        <5>1. <<>> \in Seq(Event) /\ Len(<<>>) <= 1
          BY Single
        <5> QED
          BY <1>3, <4>1, <5>1
      <4>2. CASE k # g
        BY <1>3, <4>2 DEF TypeOK
      <4> QED
        BY <4>1, <4>2
    <3> QED
      BY <1>1, <3>1 DEF TypeOK
  <2> QED
    BY <1>1, <2>1, <2>2, <2>3 DEF TypeOK
<1>8. Configured'
  BY <1>1 DEF Configured
<1>9. OwnNews'
  <2>1. Own(<<>>, g)
    BY <1>2, OfSingle
  <2> QED
    BY <1>1, <1>3, <2>1 DEF OwnNews
<1>10. Open'
  <2>1. \A c \in Clients : stage[c] # "serving" => outCh'[c] = outCh[c]
    BY <1>4, <1>5
  <2> QED
    BY <1>1, <2>1 DEF Open
<1>11. GreetFirst'
  <2>1. ASSUME NEW c \in Clients, NEW j \in 1 .. Len(outCh'[c]), outCh'[c][j].greet
        PROVE  j \in 1 .. Len(outCh[c]) /\ outCh'[c][j] = outCh[c][j]
    BY <1>4, <1>5, <2>1
  <2> QED
    BY <1>1, <2>1 DEF GreetFirst, Greeting
<1>12. ASSUME NEW c \in Clients, NEW k \in Gens
       PROVE  Ordered(outCh'[c], held'[k], events'[k], k, Emitted(k)')
  <2>1. Ordered(outCh[c], held[k], events[k], k, Emitted(k))
    BY DEF InOrder
  <2>2. CASE k = g
    <3>1. Ordered(Append(outCh[c], x), <<>>, events[g], g, Emitted(g)) /\ Ordered(outCh[c], <<>>, events[g], g, Emitted(g))
      BY <1>2, <2>1, <2>2, Sending, Losing
    <3> QED
      BY <1>1, <1>3, <1>4, <1>5, <2>2, <3>1
  <2>3. CASE k # g
    <3>1. Ordered(Append(outCh[c], x), held[k], events[k], k, Emitted(k))
      BY <1>2, <1>3, <2>1, <2>3, Foreign
    <3> QED
      BY <1>1, <1>3, <1>4, <1>5, <2>1, <2>3, <3>1
  <2> QED
    BY <2>2, <2>3
<1>13. InOrder'
  BY <1>12 DEF InOrder
<1>14. ASSUME NEW c \in Clients, NEW k \in Gens
       PROVE  /\ dropped'[c][k] <= Emitted(k)' /\ regAt'[c][k] <= snap'[k]
              /\ c \in clients' =>
                 Known(outCh'[c], held'[k], events'[k], k, Emitted(k)', seen'[c][k], regAt'[c][k], dropped'[c][k])
  <2>1. /\ dropped[c][k] <= Emitted(k) /\ regAt[c][k] <= snap[k]
        /\ c \in clients =>
           Known(outCh[c], held[k], events[k], k, Emitted(k), seen[c][k], regAt[c][k], dropped[c][k])
    BY DEF Accounted
  <2>2. CASE c \notin clients
    BY <1>1, <1>3, <2>1, <2>2
  <2>3. CASE c \in clients /\ HasRoom(c)
    <3>1. outCh'[c] = Append(outCh[c], x) /\ dropped'[c] = dropped[c]
      BY <1>4, <2>3
    <3>2. CASE k = g
      <4>1. Known(Append(outCh[c], x), <<>>, events[g], g, Emitted(g), seen[c][g], regAt[c][g], dropped[c][g])
        BY <1>2, <2>1, <2>3, <3>2, Sending DEF InOrder
      <4> QED
        BY <1>1, <1>3, <2>1, <3>1, <3>2, <4>1
    <3>3. CASE k # g
      <4>1. Known(Append(outCh[c], x), held[k], events[k], k, Emitted(k), seen[c][k], regAt[c][k], dropped[c][k])
        BY <1>2, <1>3, <2>1, <2>3, <3>3, Foreign
      <4> QED
        BY <1>1, <1>3, <2>1, <3>1, <3>3, <4>1
    <3> QED
      BY <3>2, <3>3
  <2>4. CASE c \in clients /\ ~HasRoom(c)
    <3>1. outCh'[c] = outCh[c] /\ dropped'[c][k] = IF k = g /\ x.ver > dropped[c][k] THEN x.ver ELSE dropped[c][k]
      BY <1>5, <1>6, <2>4
    <3>2. CASE k = g
      <4>1. /\ x.ver <= Emitted(g) /\ x.ver \in Nat
            /\ \/ x.ver = Emitted(g)
               \/ Known(outCh[c], <<>>, events[g], g, Emitted(g), seen[c][g], regAt[c][g], dropped[c][g])
        <5>1. Ordered(outCh[c], <<x>>, events[g], g, Emitted(g))
          BY <1>2 DEF InOrder
        <5>2. Known(outCh[c], <<x>>, events[g], g, Emitted(g), seen[c][g], regAt[c][g], dropped[c][g])
          BY <1>2, <2>1, <2>4, <3>2
        <5>3. x.ver \in Nat
          BY <1>2 DEF Event
        <5> QED
          BY <1>2, <5>1, <5>2, <5>3, Losing
      <4>2. dropped[c][g] \in Nat /\ dropped[c][g] <= Emitted(g) /\ Emitted(g) \in Int
        BY <2>1, <3>2 DEF Emitted
      <4>3. /\ dropped'[c][g] <= Emitted(g)
            /\ dropped'[c][g] = Emitted(g) \/ (x.ver # Emitted(g) /\ dropped[c][g] # Emitted(g))
        BY <3>1, <3>2, <4>1, <4>2
      <4>4. CASE dropped'[c][g] = Emitted(g)
        BY <1>1, <1>3, <2>1, <3>2, <4>3, <4>4 DEF Known
      <4>5. CASE x.ver # Emitted(g) /\ dropped[c][g] # Emitted(g)
        BY <1>1, <1>3, <2>1, <3>1, <3>2, <4>1, <4>3, <4>5 DEF Known
      <4> QED
        BY <4>3, <4>4, <4>5
    <3>3. CASE k # g
      BY <1>1, <1>3, <2>1, <3>1, <3>3
    <3> QED
      BY <3>2, <3>3
  <2> QED
    BY <2>2, <2>3, <2>4
<1>15. Accounted'
  BY <1>14 DEF Accounted
<1> QED
  BY <1>7, <1>8, <1>9, <1>10, <1>11, <1>13, <1>15

\* A charger is stopped, or the server, or a fanout returns.
LEMMA StopStep ==
  ASSUME StreamInv, Teardown \/ ServerCloses \/ \E g \in Gens : FanoutReturns(g)
  PROVE  StreamInv'
<1> USE Types DEF StreamInv
<1>1. /\ UNCHANGED <<made, snap, unsent, events, held, stage, sees, greeting, outCh, seen, regAt, dropped>>
      /\ current' = 0 \/ current' = current
      /\ clients' \subseteq clients
      /\ closed' \in [Clients -> BOOLEAN] /\ \A c \in Clients : closed'[c] => closed[c] \/ (c \in clients /\ c \notin clients')
  BY DEF Teardown, ServerCloses, FanoutReturns, CloseClients, clientVars, actorVars, TypeOK
<1>2. fan' \in [Gens -> {"new", "live", "cancelled", "returned"}]
      /\ \A g \in Gens : fan'[g] = "live" => g = current'
  <2>1. CASE Teardown \/ ServerCloses
    <3>1. fan' = [g \in Gens |-> IF g = current /\ fan[g] = "live" THEN "cancelled" ELSE fan[g]]
      BY <2>1 DEF Teardown, ServerCloses, Cancel
    <3> QED
      BY <3>1 DEF TypeOK, Configured
  <2>2. CASE \E g \in Gens : FanoutReturns(g)
    <3>1. PICK g \in Gens : FanoutReturns(g)
      BY <2>2
    <3>2. fan' = [fan EXCEPT ![g] = "returned"] /\ current' = current
      BY <3>1 DEF FanoutReturns
    <3> QED
      BY <3>2 DEF TypeOK, Configured
  <2> QED
    BY <2>1, <2>2
<1>3. TypeOK'
  <2>1. current' \in 0 .. made
    BY <1>1
  <2> QED
    BY <1>1, <1>2, <2>1 DEF TypeOK
<1>4. \A g \in Gens : Emitted(g)' = Emitted(g)
  BY <1>1 DEF Emitted
<1>5. Configured'
  BY <1>1, <1>2 DEF Configured
<1>6. OwnNews' /\ InOrder'
  BY <1>1, <1>4 DEF OwnNews, InOrder
<1>7. Open'
  BY <1>1 DEF Open
<1>8. GreetFirst'
  BY <1>1 DEF GreetFirst, Greeting
<1>9. Accounted'
  BY <1>1, <1>4 DEF Accounted
<1> QED
  BY <1>3, <1>5, <1>6, <1>7, <1>8, <1>9

\* A charger is configured: nothing of it is on any way yet.
LEMMA ConfigureStep ==
  ASSUME StreamInv, Configure
  PROVE  StreamInv'
<1> DEFINE g == made + 1
           x == News(g, 1)
<1> USE Types DEF StreamInv
<1>1. /\ g \in Gens /\ made' = g /\ current' = g /\ made < MaxGen
      /\ fan' = [fan EXCEPT ![g] = "live"] /\ snap' = [snap EXCEPT ![g] = 1]
      /\ events' = [events EXCEPT ![g] = <<x>>]
      /\ current = 0
      /\ UNCHANGED <<unsent, held, clientVars, dropped>>
  BY DEF Configure, Gens
<1>2. /\ x \in Event /\ x.ver = 1 /\ NewsOf(x, g) /\ 1 \in 1 .. MaxVersion
  BY <1>1 DEF News, Event, NewsOf
<1> HIDE DEF x
<1>3. snap[g] = 0 /\ ~unsent[g] /\ Emitted(g) = 0 /\ g \in Nat /\ g > made
  <2>1. g > made /\ g \in Nat
    OBVIOUS
  <2> QED
    BY <1>1, <2>1 DEF Configured, Emitted
<1> HIDE DEF g
<1>4. \A k \in Gens : /\ snap'[k] = IF k = g THEN 1 ELSE snap[k]
                      /\ fan'[k] = IF k = g THEN "live" ELSE fan[k]
                      /\ events'[k] = IF k = g THEN <<x>> ELSE events[k]
                      /\ Emitted(k)' = IF k = g THEN 1 ELSE Emitted(k)
  BY <1>1, <1>3 DEF TypeOK, Emitted
<1>5. TypeOK'
  <2>1. made' \in 0 .. MaxGen /\ current' \in 0 .. made'
    BY <1>1, <1>3 DEF Gens
  <2>2. snap' \in [Gens -> 0 .. MaxVersion] /\ fan' \in [Gens -> {"new", "live", "cancelled", "returned"}]
    BY <1>1 DEF TypeOK
  <2>3. events' \in [Gens -> Seq(Event)] /\ \A k \in Gens : Len(events'[k]) <= EventCap
    <3>1. ASSUME NEW k \in Gens PROVE events'[k] \in Seq(Event) /\ Len(events'[k]) <= EventCap
      <4>1. <<x>> \in Seq(Event) /\ Len(<<x>>) <= EventCap
        <5>1. <<x>> \in Seq(Event) /\ Len(<<x>>) = 1
          BY <1>2, Single
        <5> QED
          BY <5>1
      <4>2. events[k] \in Seq(Event) /\ Len(events[k]) <= EventCap
        BY DEF TypeOK
      <4>3. CASE k = g
        BY <1>4, <4>1, <4>3
      <4>4. CASE k # g
        BY <1>4, <4>2, <4>4
      <4> QED
        BY <4>3, <4>4
    <3> QED
      BY <1>1, <3>1 DEF TypeOK
  <2> QED
    BY <1>1, <2>1, <2>2, <2>3 DEF TypeOK, clientVars
<1>6. Configured'
  <2>1. \A k \in Gens : (snap'[k] = 0 <=> k > made') /\ (unsent'[k] => snap'[k] >= 2)
    <3> SUFFICES ASSUME NEW k \in Gens PROVE (snap'[k] = 0 <=> k > made') /\ (unsent'[k] => snap'[k] >= 2)
      OBVIOUS
    <3>1. (snap[k] = 0 <=> k > made) /\ (unsent[k] => snap[k] >= 2) /\ unsent'[k] = unsent[k] /\ k \in Nat
      BY <1>1 DEF Configured
    <3>2. k # g => (k > made <=> k > g)
      BY <3>1 DEF g
    <3> QED
      BY <1>1, <1>3, <1>4, <3>1, <3>2
  <2>2. \A k \in Gens : fan'[k] = "live" => k = current'
    BY <1>1, <1>3, <1>4 DEF Configured
  <2>3. \A c \in Clients : sees'[c] <= made'
    <3>1. ASSUME NEW c \in Clients PROVE sees'[c] <= made'
      <4>1. sees'[c] \in 0 .. MaxGen /\ sees'[c] <= made
        BY <1>1 DEF Configured, clientVars, TypeOK
      <4> QED
        BY <1>1, <1>3, <4>1
    <3> QED
      BY <3>1
  <2> QED
    BY <2>1, <2>2, <2>3 DEF Configured
<1>7. OwnNews'
  <2>1. Own(<<x>>, g)
    BY <1>2, OfSingle
  <2> QED
    BY <1>1, <1>4, <2>1 DEF OwnNews
<1>8. ASSUME NEW t \in Seq(Event), UpTo(t, g, 0)
      PROVE  NoNews(t, g)
  BY <1>8, Typed DEF UpTo, NoNews
<1>9. ASSUME NEW c \in Clients
      PROVE  Ordered(outCh[c], held[g], <<x>>, g, 1) /\ Carries(<<x>>, g, 1)
  <2>1. NoNews(outCh[c], g) /\ NoNews(held[g], g)
    BY <1>1, <1>3, <1>8 DEF InOrder, Ordered
  <2>2. <<x>> \in Seq(Event) /\ Len(<<x>>) = 1 /\ <<x>>[1] = x
    BY <1>2, Single
  <2>3. Ascending(<<x>>, g)
    <3> DEFINE y == <<x>>
    <3>1. Len(y) = 1
      BY <2>2
    <3> HIDE DEF y
    <3>2. Ascending(y, g)
      BY <3>1 DEF Ascending
    <3> QED
      BY <3>2 DEF y
  <2>4. UpTo(<<x>>, g, 1) /\ Carries(<<x>>, g, 1)
    BY <1>2, OfSingle
  <2>5. UpTo(outCh[c], g, 1) /\ UpTo(held[g], g, 1) /\ Ascending(outCh[c], g)
        /\ \A t : Precedes(outCh[c], t, g) /\ Precedes(held[g], t, g)
    BY <2>1 DEF NoNews, UpTo, Ascending, Precedes
  <2> QED
    BY <2>3, <2>4, <2>5 DEF Ordered
<1>10. InOrder'
  <2> SUFFICES ASSUME NEW c \in Clients, NEW k \in Gens
               PROVE  Ordered(outCh'[c], held'[k], events'[k], k, Emitted(k)')
    BY DEF InOrder
  <2>1. CASE k = g
    BY <1>1, <1>4, <1>9, <2>1 DEF clientVars
  <2>2. CASE k # g
    BY <1>1, <1>4, <2>2 DEF InOrder, clientVars
  <2> QED
    BY <2>1, <2>2
<1>11. Open'
  BY <1>1 DEF Open, clientVars
<1>12. GreetFirst'
  <2>1. ASSUME NEW t \in Seq(Event), NEW j \in 1 .. Len(t), Greeting(t[j], made)
        PROVE  Greeting(t[j], made')
    <3>1. t[j].gen \in Gens
      BY Typed DEF Event
    <3>2. t[j].gen \in Nat
      BY <3>1 DEF Gens
    <3> QED
      BY <1>1, <1>3, <2>1, <3>2 DEF Greeting, g
  <2> SUFFICES ASSUME NEW c \in Clients
               PROVE  /\ Len(greeting[c]) <= 1
                      /\ \A j \in 1 .. Len(greeting[c]) : Greeting(greeting[c][j], made')
                      /\ \A j \in 1 .. Len(outCh[c]) : outCh[c][j].greet =>
                           j = 1 /\ Greeting(outCh[c][j], made') /\ \A k \in Gens : seen[c][k] = 0
    BY <1>1 DEF GreetFirst, clientVars
  <2>2. greeting[c] \in Seq(Event) /\ outCh[c] \in Seq(Event)
    OBVIOUS
  <2> QED
    BY <2>1, <2>2 DEF GreetFirst
<1>13. Accounted'
  <2> SUFFICES ASSUME NEW c \in Clients, NEW k \in Gens
               PROVE  /\ dropped'[c][k] <= Emitted(k)' /\ regAt'[c][k] <= snap'[k]
                      /\ c \in clients' =>
                         Known(outCh'[c], held'[k], events'[k], k, Emitted(k)', seen'[c][k], regAt'[c][k], dropped'[c][k])
    BY DEF Accounted
  <2>1. /\ dropped[c][k] <= Emitted(k) /\ regAt[c][k] <= snap[k]
        /\ c \in clients =>
           Known(outCh[c], held[k], events[k], k, Emitted(k), seen[c][k], regAt[c][k], dropped[c][k])
    BY DEF Accounted
  <2>2. CASE k = g
    BY <1>1, <1>3, <1>4, <1>9, <2>1, <2>2 DEF Known, clientVars
  <2>3. CASE k # g
    BY <1>1, <1>4, <2>1, <2>3 DEF clientVars
  <2> QED
    BY <2>2, <2>3
<1> QED
  BY <1>5, <1>6, <1>7, <1>10, <1>11, <1>12, <1>13

\* A dashboard connects, and its greeting is made of the charger it has read.
LEMMA ArriveStep ==
  ASSUME StreamInv, NEW c \in Clients, ReadCurrent(c) \/ ReadState(c)
  PROVE  StreamInv'
<1> USE Types DEF StreamInv
<1>1. /\ stage[c] \in {"out", "accepted"}
      /\ stage' \in [Clients -> {"out", "accepted", "greeted", "serving"}]
      /\ \A d \in Clients : stage'[d] # "serving" => stage[d] # "serving"
      /\ UNCHANGED <<made, current, snap, unsent, events, fan, held, clients, outCh, closed, seen, regAt, dropped>>
  BY DEF ReadCurrent, ReadState, NotYetRegistered, actorVars, fanVars, TypeOK
<1>2. ASSUME NEW d \in Clients
      PROVE  /\ sees'[d] \in 0 .. MaxGen /\ sees'[d] <= made
             /\ greeting'[d] \in Seq(Event) /\ Len(greeting'[d]) <= 1
             /\ \A j \in 1 .. Len(greeting'[d]) : Greeting(greeting'[d][j], made)
  <2>1. /\ sees[d] \in 0 .. MaxGen /\ sees[d] <= made /\ greeting[d] \in Seq(Event) /\ Len(greeting[d]) <= 1
        /\ \A j \in 1 .. Len(greeting[d]) : Greeting(greeting[d][j], made)
    BY DEF TypeOK, Configured, GreetFirst
  <2>2. CASE ReadCurrent(c)
    <3>1. sees'[d] = (IF d = c THEN current ELSE sees[d]) /\ greeting' = greeting
      BY <2>2 DEF ReadCurrent, TypeOK
    <3>2. current \in 0 .. MaxGen /\ current <= made
      OBVIOUS
    <3> QED
      BY <2>1, <3>1, <3>2
  <2>3. CASE ReadState(c)
    <3> DEFINE x == [gen |-> sees[c], ver |-> snap[sees[c]], greet |-> TRUE]
    <3>1. /\ sees'[d] = (IF d = c THEN 0 ELSE sees[d])
          /\ greeting'[d] = IF d = c THEN (IF sees[c] = 0 THEN <<>> ELSE <<x>>) ELSE greeting[d]
      BY <2>3 DEF ReadState, TypeOK
    <3>2. 0 \in 0 .. MaxGen /\ 0 <= made
      OBVIOUS
    <3>3. sees'[d] \in 0 .. MaxGen /\ sees'[d] <= made
      BY <2>1, <3>1, <3>2
    <3>4. CASE d # c
      BY <2>1, <3>1, <3>3, <3>4
    <3>5. CASE d = c /\ sees[c] = 0
      <4>1. greeting'[d] = <<>> /\ <<>> \in Seq(Event) /\ Len(<<>>) = 0 /\ 1 .. 0 = {}
        BY <3>1, <3>5, Single
      <4>2. greeting'[d] \in Seq(Event) /\ Len(greeting'[d]) = 0
        BY <4>1
      <4> QED
        BY <3>3, <4>2
    <3>6. CASE d = c /\ sees[c] # 0
      <4>1. sees[c] \in 0 .. MaxGen /\ sees[c] <= made
        BY DEF TypeOK, Configured
      <4>2. sees[c] \in Gens /\ ~(sees[c] > made)
        BY <3>6, <4>1 DEF Gens
      <4>3. snap[sees[c]] \in 1 .. MaxVersion
        <5>1. snap[sees[c]] # 0 /\ snap[sees[c]] \in Nat /\ snap[sees[c]] <= MaxVersion
          BY <4>2 DEF Configured
        <5> QED
          BY <5>1
      <4>4. x \in Event /\ Greeting(x, made)
        BY <4>1, <4>2, <4>3 DEF Event, Greeting
      <4>5. greeting'[d] = <<x>>
        BY <3>1, <3>6
      <4> HIDE DEF x
      <4>6. greeting'[d] \in Seq(Event) /\ Len(greeting'[d]) = 1 /\ greeting'[d][1] = x /\ \A j \in 1 .. 1 : j = 1
        BY <4>4, <4>5, Single
      <4> QED
        BY <3>3, <4>4, <4>6
    <3> QED
      BY <3>4, <3>5, <3>6
  <2> QED
    BY <2>2, <2>3
<1>3. sees' \in [Clients -> 0 .. MaxGen] /\ greeting' \in [Clients -> Seq(Event)]
  <2>1. DOMAIN sees' = Clients /\ DOMAIN greeting' = Clients
        /\ sees' = [d \in Clients |-> sees'[d]] /\ greeting' = [d \in Clients |-> greeting'[d]]
    BY DEF ReadCurrent, ReadState, TypeOK
  <2> QED
    BY <1>2, <2>1
<1>4. TypeOK'
  BY <1>1, <1>3 DEF TypeOK
<1>5. \A g \in Gens : Emitted(g)' = Emitted(g)
  BY <1>1 DEF Emitted
<1>6. Configured'
  BY <1>1, <1>2 DEF Configured
<1>7. OwnNews' /\ InOrder' /\ Accounted'
  BY <1>1, <1>5 DEF OwnNews, InOrder, Accounted
<1>8. Open'
  BY <1>1 DEF Open
<1>9. GreetFirst'
  BY <1>1, <1>2 DEF GreetFirst
<1> QED
  BY <1>4, <1>6, <1>7, <1>8, <1>9

\* A dashboard is registered, with its greeting as the first in its queue.
LEMMA RegisterStep ==
  ASSUME StreamInv, NEW c \in Clients, Register(c)
  PROVE  StreamInv'
<1> USE Types DEF StreamInv
<1>1. /\ stage[c] = "greeted" /\ stage' = [stage EXCEPT ![c] = "serving"]
      /\ greeting' = [greeting EXCEPT ![c] = <<>>] /\ clients' = clients \cup {c}
      /\ regAt' = [regAt EXCEPT ![c] = snap]
      /\ UNCHANGED <<made, current, snap, unsent, events, fan, held, sees, closed, seen, dropped>>
  BY DEF Register, actorVars, fanVars
<1>2. outCh[c] = <<>> /\ c \notin clients /\ ~closed[c] /\ \A g \in Gens : seen[c][g] = 0
  BY <1>1 DEF Open
<1>3. outCh'[c] = greeting[c] /\ \A d \in Clients : d # c => outCh'[d] = outCh[d] /\ greeting'[d] = greeting[d]
  <2>1. HasRoom(c)
    <3>1. Len(outCh[c]) = 0
      BY <1>2, Single
    <3> QED
      BY <3>1 DEF HasRoom
  <2>2. outCh' = [outCh EXCEPT ![c] = @ \o greeting[c]]
    BY <2>1 DEF Register
  <2>3. <<>> \o greeting[c] = greeting[c]
    BY ConcatEmptySeq
  <2> QED
    BY <1>1, <1>2, <2>2, <2>3 DEF TypeOK
<1>4. /\ greeting[c] \in Seq(Event) /\ Len(greeting[c]) <= 1 /\ Len(greeting[c]) \in Nat
      /\ \A j \in 1 .. Len(greeting[c]) : Greeting(greeting[c][j], made) /\ j = 1
  <2>1. Len(greeting[c]) \in Nat
    BY LenProperties
  <2> QED
    BY <2>1 DEF GreetFirst
<1>5. greeting'[c] \in Seq(Event) /\ Len(greeting'[c]) = 0
  BY <1>1, Single DEF TypeOK
<1>6. TypeOK'
  <2>1. ASSUME NEW d \in Clients
        PROVE  outCh'[d] \in Seq(Event) /\ Len(outCh'[d]) <= OutCap /\ greeting'[d] \in Seq(Event)
    <3>1. Len(greeting[c]) <= OutCap
      BY <1>4
    <3>2. CASE d = c
      BY <1>3, <1>4, <1>5, <3>1, <3>2
    <3>3. CASE d # c
      BY <1>3, <3>3 DEF TypeOK
    <3> QED
      BY <3>2, <3>3
  <2>2. outCh' \in [Clients -> Seq(Event)] /\ greeting' \in [Clients -> Seq(Event)]
    <3>1. outCh' = [d \in Clients |-> outCh'[d]] /\ greeting' = [d \in Clients |-> greeting'[d]]
      BY DEF Register, TypeOK
    <3> QED
      BY <2>1, <3>1
  <2>3. regAt' \in [Clients -> [Gens -> 0 .. MaxVersion]]
    BY <1>1 DEF TypeOK
  <2>4. clients' \in SUBSET Clients /\ stage' \in [Clients -> {"out", "accepted", "greeted", "serving"}]
    BY <1>1 DEF TypeOK
  <2> QED
    BY <1>1, <2>1, <2>2, <2>3, <2>4 DEF TypeOK
<1>7. \A g \in Gens : Emitted(g)' = Emitted(g) /\ Emitted(g) <= snap[g]
  BY <1>1 DEF Emitted
<1>8. Configured' /\ OwnNews'
  BY <1>1 DEF Configured, OwnNews
<1>9. InOrder'
  <2>1. ASSUME NEW g \in Gens
        PROVE  Ordered(greeting[c], held[g], events[g], g, Emitted(g))
    <3>1. \A j \in 1 .. Len(greeting[c]) : ~NewsOf(greeting[c][j], g)
      BY <1>4 DEF NewsOf, Greeting
    <3>2. UpTo(greeting[c], g, Emitted(g)) /\ Ascending(greeting[c], g)
          /\ \A t : Precedes(greeting[c], t, g)
      BY <3>1 DEF UpTo, Ascending, Precedes
    <3> QED
      BY <3>2 DEF InOrder, Ordered
  <2> SUFFICES ASSUME NEW d \in Clients, NEW g \in Gens
               PROVE  Ordered(outCh'[d], held'[g], events'[g], g, Emitted(g)')
    BY DEF InOrder
  <2>2. CASE d = c
    BY <1>1, <1>3, <1>7, <2>1, <2>2
  <2>3. CASE d # c
    BY <1>1, <1>3, <1>7, <2>3 DEF InOrder
  <2> QED
    BY <2>2, <2>3
<1>10. Open'
  <2> SUFFICES ASSUME NEW d \in Clients
               PROVE  /\ d \in clients' => ~closed'[d]
                      /\ stage'[d] # "serving" =>
                           outCh'[d] = <<>> /\ d \notin clients' /\ ~closed'[d] /\ \A g \in Gens : seen'[d][g] = 0
    BY DEF Open
  <2>1. CASE d = c
    BY <1>1, <1>2, <2>1 DEF TypeOK
  <2>2. CASE d # c
    BY <1>1, <1>3, <2>2 DEF Open, TypeOK
  <2> QED
    BY <2>1, <2>2
<1>11. GreetFirst'
  <2> SUFFICES ASSUME NEW d \in Clients
               PROVE  /\ Len(greeting'[d]) <= 1
                      /\ \A j \in 1 .. Len(greeting'[d]) : Greeting(greeting'[d][j], made)
                      /\ \A j \in 1 .. Len(outCh'[d]) : outCh'[d][j].greet =>
                           j = 1 /\ Greeting(outCh'[d][j], made) /\ \A g \in Gens : seen[d][g] = 0
    BY <1>1 DEF GreetFirst
  <2>1. CASE d = c
    BY <1>2, <1>3, <1>4, <1>5, <2>1
  <2>2. CASE d # c
    BY <1>3, <2>2 DEF GreetFirst
  <2> QED
    BY <2>1, <2>2
<1>12. Accounted'
  <2> SUFFICES ASSUME NEW d \in Clients, NEW g \in Gens
               PROVE  /\ dropped'[d][g] <= Emitted(g)' /\ regAt'[d][g] <= snap'[g]
                      /\ d \in clients' =>
                         Known(outCh'[d], held'[g], events'[g], g, Emitted(g)', seen'[d][g], regAt'[d][g], dropped'[d][g])
    BY DEF Accounted
  <2>1. dropped'[d][g] <= Emitted(g)'
    BY <1>1, <1>7 DEF Accounted
  <2>2. CASE d = c
    <3>1. regAt'[d][g] = snap[g]
      BY <1>1, <2>2 DEF TypeOK
    <3> QED
      BY <1>1, <1>7, <2>1, <3>1 DEF Known
  <2>3. CASE d # c
    <3>1. regAt'[d] = regAt[d] /\ (d \in clients' <=> d \in clients)
      BY <1>1, <2>3 DEF TypeOK
    <3> QED
      BY <1>1, <1>3, <1>7, <2>1, <2>3, <3>1 DEF Accounted
  <2> QED
    BY <2>2, <2>3
<1> QED
  BY <1>6, <1>8, <1>9, <1>10, <1>11, <1>12

\* A dashboard shows the next event of its queue.
LEMMA ShowStep ==
  ASSUME StreamInv, NEW c \in Clients, Show(c)
  PROVE  StreamInv'
<1> DEFINE x == Head(outCh[c])
           k == x.gen
<1> USE Types DEF StreamInv
<1>1. /\ stage[c] = "serving" /\ outCh[c] # <<>>
      /\ seen' = [seen EXCEPT ![c][k] = x.ver] /\ outCh' = [outCh EXCEPT ![c] = Tail(@)]
      /\ UNCHANGED <<made, current, snap, unsent, events, fan, held, stage, sees, greeting, clients, closed, regAt, dropped>>
  BY DEF Show, actorVars, fanVars
<1>2. /\ x = outCh[c][1] /\ x \in Event /\ 1 \in 1 .. Len(outCh[c])
      /\ Tail(outCh[c]) \in Seq(Event) /\ Len(Tail(outCh[c])) = Len(outCh[c]) - 1
      /\ \A i \in 1 .. Len(Tail(outCh[c])) : Tail(outCh[c])[i] = outCh[c][i + 1] /\ i + 1 \in 1 .. Len(outCh[c]) /\ i \in Nat
  BY <1>1, HeadTail
<1>3. k \in Gens /\ x.ver \in 1 .. MaxVersion /\ x.greet \in BOOLEAN
  BY <1>2 DEF Event
<1>4. /\ outCh'[c] = Tail(outCh[c]) /\ \A d \in Clients : d # c => outCh'[d] = outCh[d] /\ seen'[d] = seen[d]
      /\ \A g \in Gens : seen'[c][g] = IF g = k THEN x.ver ELSE seen[c][g]
      /\ \A g \in Gens : Emitted(g)' = Emitted(g)
  BY <1>1, <1>3 DEF TypeOK, Emitted
<1> HIDE DEF x, k
<1>5. TypeOK'
  <2>1. ASSUME NEW d \in Clients PROVE outCh'[d] \in Seq(Event) /\ Len(outCh'[d]) <= OutCap
    <3>1. Len(Tail(outCh[c])) <= OutCap
      <4>1. Len(outCh[c]) \in Nat /\ Len(outCh[c]) <= OutCap
        BY LenProperties DEF TypeOK
      <4> QED
        BY <1>2, <4>1
    <3>2. CASE d = c
      BY <1>2, <1>4, <3>1, <3>2
    <3>3. CASE d # c
      BY <1>4, <3>3 DEF TypeOK
    <3> QED
      BY <3>2, <3>3
  <2>2. outCh' \in [Clients -> Seq(Event)]
    BY <1>1, <2>1 DEF TypeOK
  <2>3. seen' \in [Clients -> [Gens -> 0 .. MaxVersion]]
    <3>1. x.ver \in 0 .. MaxVersion
      BY <1>3
    <3> QED
      BY <1>1, <3>1 DEF TypeOK
  <2> QED
    BY <1>1, <2>1, <2>2, <2>3 DEF TypeOK
<1>6. Configured' /\ OwnNews'
  BY <1>1 DEF Configured, OwnNews
<1>7. Open'
  BY <1>1, <1>4 DEF Open
<1>8. GreetFirst'
  <2>1. ASSUME NEW d \in Clients, NEW j \in 1 .. Len(outCh'[d]), outCh'[d][j].greet
        PROVE  d # c
    <3>1. CASE d = c
      <4>1. outCh[c][j + 1].greet /\ j + 1 \in 1 .. Len(outCh[c]) /\ j \in Nat /\ j >= 1
        <5>1. outCh'[c] = Tail(outCh[c]) /\ j \in 1 .. Len(Tail(outCh[c]))
          BY <1>4, <3>1
        <5>2. Tail(outCh[c])[j] = outCh[c][j + 1] /\ j + 1 \in 1 .. Len(outCh[c]) /\ j \in Nat /\ j >= 1
          BY <1>2, <5>1
        <5> QED
          BY <2>1, <3>1, <5>1, <5>2
      <4>2. j + 1 = 1
        BY <4>1 DEF GreetFirst
      <4> QED
        BY <4>1, <4>2
    <3> QED
      BY <3>1
  <2>2. ASSUME NEW d \in Clients, NEW j \in 1 .. Len(outCh'[d]), outCh'[d][j].greet
        PROVE  j = 1 /\ Greeting(outCh'[d][j], made) /\ \A g \in Gens : seen'[d][g] = 0
    <3>1. d # c /\ outCh'[d] = outCh[d] /\ seen'[d] = seen[d]
      BY <1>4, <2>1, <2>2
    <3> QED
      BY <2>2, <3>1 DEF GreetFirst
  <2> QED
    BY <1>1, <2>2 DEF GreetFirst
<1>9. InOrder'
  <2> SUFFICES ASSUME NEW d \in Clients, NEW g \in Gens
               PROVE  Ordered(outCh'[d], held'[g], events'[g], g, Emitted(g)')
    BY DEF InOrder
  <2>1. Emitted(g) \in Int /\ Ordered(outCh[d], held[g], events[g], g, Emitted(g))
    BY DEF InOrder, Emitted
  <2>2. Ordered(Tail(outCh[c]), held[g], events[g], g, Emitted(g))
    BY <1>1, OfTail DEF InOrder, Ordered
  <2> QED
    BY <1>1, <1>4, <2>1, <2>2
<1>10. Accounted'
  <2> SUFFICES ASSUME NEW d \in Clients, NEW g \in Gens
               PROVE  /\ dropped'[d][g] <= Emitted(g)' /\ regAt'[d][g] <= snap'[g]
                      /\ d \in clients' =>
                         Known(outCh'[d], held'[g], events'[g], g, Emitted(g)', seen'[d][g], regAt'[d][g], dropped'[d][g])
    BY DEF Accounted
  <2>1. /\ dropped[d][g] <= Emitted(g) /\ regAt[d][g] <= snap[g] /\ dropped[d][g] \in Nat
        /\ d \in clients =>
           Known(outCh[d], held[g], events[g], g, Emitted(g), seen[d][g], regAt[d][g], dropped[d][g])
    BY DEF Accounted
  <2>2. CASE d # c
    BY <1>1, <1>4, <2>1, <2>2
  <2>3. CASE d = c
    <3> SUFFICES ASSUME c \in clients
                 PROVE  Known(Tail(outCh[c]), held[g], events[g], g, Emitted(g), seen'[c][g], regAt[c][g], dropped[c][g])
      BY <1>1, <1>4, <2>1, <2>3
    <3>1. Known(outCh[c], held[g], events[g], g, Emitted(g), seen[c][g], regAt[c][g], dropped[c][g])
      BY <2>1, <2>3
    <3>2. Emitted(g) \in Nat
      <4>1. Emitted(g) \in Int
        BY DEF Emitted
      <4> QED
        BY <2>1, <4>1
    <3>3. Ordered(outCh[c], held[g], events[g], g, Emitted(g))
      BY DEF InOrder
    <3>4. CASE NewsOf(x, g)
      <4>1. seen'[c][g] = x.ver
        BY <1>4, <3>4 DEF NewsOf, k
      <4> QED
        BY <1>1, <3>1, <3>2, <3>3, <3>4, <4>1, Showing DEF x
    <3>5. CASE ~NewsOf(x, g) /\ k # g
      <4>1. seen'[c][g] = seen[c][g]
        BY <1>4, <3>5
      <4> QED
        BY <1>1, <3>1, <3>2, <3>3, <3>5, <4>1, Showing DEF x
    <3>6. CASE ~NewsOf(x, g) /\ k = g
      <4>1. x.greet /\ seen[c][g] = 0 /\ g <= made
        BY <1>2, <3>6 DEF NewsOf, k, GreetFirst, Greeting
      <4>2. Emitted(g) # 0
        BY <4>1 DEF Emitted, Configured
      <4>3. \A s, r, d1 : Known(outCh[c], held[g], events[g], g, Emitted(g), s, r, d1) =>
                          Known(Tail(outCh[c]), held[g], events[g], g, Emitted(g), s, r, d1)
        BY <1>1, <3>2, <3>3, <3>6, Showing DEF x
      <4>4. Known(Tail(outCh[c]), held[g], events[g], g, Emitted(g), seen[c][g], regAt[c][g], dropped[c][g])
        BY <3>1, <4>3
      <4> QED
        BY <4>1, <4>2, <4>4 DEF Known
    <3> QED
      BY <3>4, <3>5, <3>6
  <2> QED
    BY <2>2, <2>3
<1> QED
  BY <1>5, <1>6, <1>7, <1>8, <1>9, <1>10

\* A dashboard leaves, and nothing is left of it.
LEMMA LeaveStep ==
  ASSUME StreamInv, NEW c \in Clients, Leave(c)
  PROVE  StreamInv'
<1> USE Types DEF StreamInv
<1>1. /\ stage' = [stage EXCEPT ![c] = "out"] /\ clients' = clients \ {c}
      /\ outCh' = [outCh EXCEPT ![c] = <<>>] /\ closed' = [closed EXCEPT ![c] = FALSE]
      /\ seen' = [seen EXCEPT ![c] = PerGen(0)] /\ regAt' = [regAt EXCEPT ![c] = PerGen(0)]
      /\ dropped' = [dropped EXCEPT ![c] = PerGen(0)]
      /\ UNCHANGED <<made, current, snap, unsent, events, fan, held, sees, greeting>>
  BY DEF Leave, actorVars, fanVars
<1>2. /\ outCh'[c] = <<>> /\ stage'[c] = "out" /\ ~closed'[c] /\ c \notin clients'
      /\ \A g \in Gens : seen'[c][g] = 0 /\ regAt'[c][g] = 0 /\ dropped'[c][g] = 0
      /\ \A d \in Clients : d # c =>
           /\ outCh'[d] = outCh[d] /\ stage'[d] = stage[d] /\ closed'[d] = closed[d]
           /\ (d \in clients' <=> d \in clients)
           /\ seen'[d] = seen[d] /\ regAt'[d] = regAt[d] /\ dropped'[d] = dropped[d]
  BY <1>1 DEF TypeOK, PerGen
<1>3. TypeOK'
  <2>1. PerGen(0) \in [Gens -> 0 .. MaxVersion]
    BY DEF PerGen
  <2>2. outCh' \in [Clients -> Seq(Event)] /\ \A d \in Clients : Len(outCh'[d]) <= OutCap
    <3>1. ASSUME NEW d \in Clients PROVE outCh'[d] \in Seq(Event) /\ Len(outCh'[d]) <= OutCap
      <4>1. <<>> \in Seq(Event) /\ Len(<<>>) <= OutCap
        BY Single
      <4>2. CASE d = c
        BY <1>2, <4>1, <4>2
      <4>3. CASE d # c
        BY <1>2, <4>3 DEF TypeOK
      <4> QED
        BY <4>2, <4>3
    <3> QED
      BY <1>1, <3>1 DEF TypeOK
  <2> QED
    BY <1>1, <2>1, <2>2 DEF TypeOK
<1>4. \A g \in Gens : Emitted(g)' = Emitted(g) /\ Emitted(g) >= 0
  BY <1>1 DEF Emitted, Configured
<1>5. Configured' /\ OwnNews'
  BY <1>1 DEF Configured, OwnNews
<1>6. Open'
  <2> SUFFICES ASSUME NEW d \in Clients
               PROVE  /\ d \in clients' => ~closed'[d]
                      /\ stage'[d] # "serving" =>
                           outCh'[d] = <<>> /\ d \notin clients' /\ ~closed'[d] /\ \A g \in Gens : seen'[d][g] = 0
    BY DEF Open
  <2> QED
    BY <1>2 DEF Open
<1>7. GreetFirst'
  <2> SUFFICES ASSUME NEW d \in Clients, NEW j \in 1 .. Len(outCh'[d]), outCh'[d][j].greet
               PROVE  j = 1 /\ Greeting(outCh'[d][j], made) /\ \A g \in Gens : seen'[d][g] = 0
    BY <1>1 DEF GreetFirst
  <2>1. d # c
    <3>1. Len(<<>>) = 0 /\ 1 .. 0 = {}
      BY Single
    <3> QED
      BY <1>2, <3>1
  <2> QED
    BY <1>2, <2>1 DEF GreetFirst
<1>8. InOrder'
  <2> SUFFICES ASSUME NEW d \in Clients, NEW g \in Gens
               PROVE  Ordered(outCh'[d], held'[g], events'[g], g, Emitted(g)')
    BY DEF InOrder
  <2>1. Ordered(outCh[d], held[g], events[g], g, Emitted(g))
    BY DEF InOrder
  <2>2. CASE d = c
    <3> DEFINE z == <<>>
    <3>1. Len(z) = 0 /\ 1 .. 0 = {} /\ outCh'[c] = z
      BY <1>2, Single
    <3> HIDE DEF z
    <3>2. UpTo(z, g, Emitted(g)) /\ Ascending(z, g) /\ \A t : Precedes(z, t, g)
      BY <3>1 DEF UpTo, Ascending, Precedes
    <3>3. Ordered(z, held[g], events[g], g, Emitted(g))
      BY <2>1, <3>2 DEF Ordered
    <3> QED
      BY <1>1, <1>4, <2>2, <3>1, <3>3
  <2>3. CASE d # c
    BY <1>1, <1>2, <1>4, <2>1, <2>3
  <2> QED
    BY <2>2, <2>3
<1>9. Accounted'
  <2> SUFFICES ASSUME NEW d \in Clients, NEW g \in Gens
               PROVE  /\ dropped'[d][g] <= Emitted(g)' /\ regAt'[d][g] <= snap'[g]
                      /\ d \in clients' =>
                         Known(outCh'[d], held'[g], events'[g], g, Emitted(g)', seen'[d][g], regAt'[d][g], dropped'[d][g])
    BY DEF Accounted
  <2>1. CASE d = c
    BY <1>1, <1>2, <1>4, <2>1
  <2>2. CASE d # c
    BY <1>1, <1>2, <1>4, <2>2 DEF Accounted
  <2> QED
    BY <2>1, <2>2
<1> QED
  BY <1>3, <1>5, <1>6, <1>7, <1>8, <1>9

-----------------------------------------------------------------------------
(* The theorems                                                            *)

\* The invariant holds in every reachable state.
LEMMA StreamInvariant == Spec => []StreamInv
<1>1. Init => StreamInv
  BY StreamInit
<1>2. StreamInv /\ [Next]_vars => StreamInv'
  <2> SUFFICES ASSUME StreamInv, [Next]_vars PROVE StreamInv'
    OBVIOUS
  <2>1. CASE Next
    BY <2>1, StoreStep, EmitStep, TakeStep, SendStep, StopStep, ConfigureStep, ArriveStep, RegisterStep,
       ShowStep, LeaveStep DEF Next
  <2>2. CASE UNCHANGED vars
    <3>1. UNCHANGED <<made, current, snap, unsent, events, fan, held, stage, sees, greeting, clients,
                      outCh, closed, seen, regAt, dropped>>
      BY <2>2 DEF vars, actorVars, fanVars, clientVars
    <3>2. TypeOK'
      BY <3>1 DEF StreamInv, TypeOK
    <3>3. \A g \in Gens : Emitted(g)' = Emitted(g)
      BY <3>1 DEF Emitted
    <3>4. Configured' /\ OwnNews' /\ InOrder' /\ Open' /\ Accounted'
      BY <3>1, <3>3 DEF StreamInv, Configured, OwnNews, InOrder, Open, Accounted
    <3>5. GreetFirst'
      BY <3>1 DEF StreamInv, GreetFirst
    <3> QED
      BY <3>2, <3>4, <3>5 DEF StreamInv
  <2> QED
    BY <2>1, <2>2
<1> QED
  BY <1>1, <1>2, PTL DEF Spec

\* Every variable keeps its type and no channel exceeds its capacity
\* (charger.go, emit; server.go, fanout and handleWS).
THEOREM StreamTypeCorrect == Spec => []TypeOK
<1>1. StreamInv => TypeOK
  BY DEF StreamInv
<1> QED
  BY <1>1, StreamInvariant, PTL

\* The fanout never sends on a queue that the server has closed, and none is
\* closed twice (server.go, fanout, Close and handleWS).
THEOREM NeverSendsOnClosed == Spec => []NoSendOnClosed
<1>1. StreamInv => NoSendOnClosed
  BY DEF StreamInv, Open, NoSendOnClosed, TypeOK
<1> QED
  BY <1>1, StreamInvariant, PTL

\* Only the fanout of the current charger goes on (server.go, startCharger,
\* handleDisconnect and Close).
THEOREM ReplacedIsSilent == Spec => []ReplacedFallsSilent
<1>1. StreamInv => ReplacedFallsSilent
  BY DEF StreamInv, Configured, ReplacedFallsSilent
<1> QED
  BY <1>1, StreamInvariant, PTL

\* What is on its way from a charger to a dashboard is in the order of its
\* versions (charger.go, publishSnapshot and emit; server.go, fanout).
THEOREM OrderKept == Spec => []DeliveredInOrder
<1>1. StreamInv => DeliveredInOrder
  <2> SUFFICES ASSUME StreamInv, NEW c \in Clients, NEW g \in Gens,
                      NEW i \in 1 .. Len(Pipeline(c, g)), NEW j \in 1 .. Len(Pipeline(c, g)), i < j,
                      NewsOf(Pipeline(c, g)[i], g), NewsOf(Pipeline(c, g)[j], g)
               PROVE  Pipeline(c, g)[i].ver < Pipeline(c, g)[j].ver
    BY DEF DeliveredInOrder
  <2> DEFINE o == outCh[c]
             h == held[g]
             e == events[g]
             p == Pipeline(c, g)
             m == Len(o)
             n == Len(o) + Len(h)
  <2>1. /\ o \in Seq(Event) /\ h \in Seq(Event) /\ e \in Seq(Event)
        /\ Len(o) \in Nat /\ Len(h) \in Nat /\ Len(e) \in Nat /\ Len(h) <= 1
    BY LenProperties DEF StreamInv, TypeOK
  <2>2. Ordered(o, h, e, g, Emitted(g))
    BY DEF StreamInv, InOrder
  <2> DEFINE q == o \o h
  <2>3. /\ q \in Seq(Event) /\ Len(q) = n
        /\ \A k \in 1 .. n : q[k] = IF k <= m THEN o[k] ELSE h[k - m]
    BY <2>1, ConcatProperties
  <2>4. p = q \o e
    BY DEF Pipeline
  <2> HIDE DEF o, h, e, p, q
  <2>5. /\ Len(p) = n + Len(e)
        /\ \A k \in 1 .. n + Len(e) : p[k] = IF k <= n THEN q[k] ELSE e[k - n]
    <3>1. /\ Len(q \o e) = Len(q) + Len(e)
          /\ \A k \in 1 .. Len(q) + Len(e) : (q \o e)[k] = IF k <= Len(q) THEN q[k] ELSE e[k - Len(q)]
      BY <2>1, <2>3, ConcatProperties
    <3> QED
      BY <2>3, <2>4, <3>1
  <2>6. ASSUME NEW k \in 1 .. Len(p)
        PROVE  \/ k <= m /\ k \in 1 .. Len(o) /\ p[k] = o[k]
               \/ k > m /\ k <= n /\ k - m \in 1 .. Len(h) /\ p[k] = h[k - m]
               \/ k > n /\ k - n \in 1 .. Len(e) /\ p[k] = e[k - n]
    BY <2>1, <2>3, <2>5
  <2>7. i \in 1 .. Len(p) /\ j \in 1 .. Len(p) /\ i \in Int /\ j \in Int /\ NewsOf(p[i], g) /\ NewsOf(p[j], g)
    BY <2>1, <2>5 DEF p
  <2>8. CASE i <= m /\ i \in 1 .. Len(o) /\ p[i] = o[i]
    BY <2>1, <2>2, <2>6, <2>7, <2>8 DEF Ordered, Ascending, Precedes, p
  <2>9. CASE i > m /\ i <= n /\ i - m \in 1 .. Len(h) /\ p[i] = h[i - m]
    <3>1. ~(j <= n)
      BY <2>1, <2>7, <2>9
    <3>2. j - n \in 1 .. Len(e) /\ p[j] = e[j - n]
      BY <2>1, <2>6, <2>7, <3>1
    <3> QED
      BY <2>2, <2>7, <2>9, <3>2 DEF Ordered, Precedes, p
  <2>10. CASE i > n /\ i - n \in 1 .. Len(e) /\ p[i] = e[i - n]
    <3>1. j > n /\ i - n < j - n /\ ~(j <= n) /\ ~(j <= m)
      BY <2>1, <2>7, <2>10
    <3>2. j - n \in 1 .. Len(e) /\ p[j] = e[j - n]
      BY <2>6, <2>7, <3>1
    <3> QED
      BY <2>2, <2>7, <2>10, <3>1, <3>2 DEF Ordered, Ascending, p
  <2> QED
    BY <2>6, <2>7, <2>8, <2>9, <2>10
<1> QED
  BY <1>1, StreamInvariant, PTL

\* The greeting of a dashboard never follows a newer state of its charger
\* (server.go, handleWS).
THEOREM GreetingNotOvertaken == Spec => []GreetNotOvertaken
<1>1. StreamInv => GreetNotOvertaken
  <2> SUFFICES ASSUME StreamInv, NEW c \in Clients, NEW j \in DOMAIN outCh[c], outCh[c][j].greet
               PROVE  /\ \A i \in 1 .. j - 1 : outCh[c][i].gen = outCh[c][j].gen => outCh[c][i].ver <= outCh[c][j].ver
                      /\ seen[c][outCh[c][j].gen] <= outCh[c][j].ver
    BY DEF GreetNotOvertaken
  <2>1. outCh[c] \in Seq(Event) /\ j \in 1 .. Len(outCh[c])
    BY LenProperties DEF StreamInv, TypeOK
  <2>2. outCh[c][j] \in Event /\ outCh[c][j].ver \in Nat
    BY <2>1, Typed
  <2>3. j = 1 /\ seen[c][outCh[c][j].gen] = 0
    BY <2>1, <2>2 DEF StreamInv, GreetFirst, Event
  <2> QED
    BY <2>2, <2>3
<1> QED
  BY <1>1, StreamInvariant, PTL

\* A dashboard that has received everything knows the current state of the
\* charger, unless a channel was full or it registered later (charger.go, emit;
\* server.go, fanout and handleWS).
THEOREM NothingElseIsLost == Spec => []NothingElseLost
<1>1. StreamInv => NothingElseLost
  <2> SUFFICES ASSUME StreamInv, NEW c \in Clients, NEW g \in Gens, Settled(c, g)
               PROVE  seen[c][g] = snap[g] \/ dropped[c][g] = snap[g] \/ regAt[c][g] = snap[g]
    BY DEF NothingElseLost
  <2>1. /\ Emitted(g) = snap[g] /\ regAt[c][g] <= snap[g]
        /\ Known(<<>>, <<>>, <<>>, g, Emitted(g), seen[c][g], regAt[c][g], dropped[c][g])
    BY DEF StreamInv, Accounted, Settled, Emitted
  <2>2. snap[g] \in Nat /\ regAt[c][g] \in Nat
    BY Types DEF StreamInv
  <2>3. ~Carries(<<>>, g, Emitted(g))
    BY Single DEF Carries
  <2> QED
    BY <2>1, <2>2, <2>3 DEF Known
<1> QED
  BY <1>1, StreamInvariant, PTL
=============================================================================
