---------------------------- MODULE ViewingProofs ----------------------------
(***************************************************************************)
(* What a tab is shown of an answer, and the places of event streams, for   *)
(* any number of workers, responses, events, faults and recoveries.         *)
(***************************************************************************)
EXTENDS Viewing, FilterProofs, FiniteSetTheorems

Sent == [id : Nat, type : {"part"} \cup Final]
Seen == [saved : 0 .. MaxEvents, status : {"running"} \cup Final, told : BOOLEAN, exists : BOOLEAN]
Turn == [events : 0 .. MaxEvents, saved : 0 .. MaxEvents, status : {"running"} \cup Final,
         told : BOOLEAN, runs : BOOLEAN, exists : BOOLEAN]
Response ==
  [at : {"free", "arriving", "finding", "found", "streaming"}, worker : Workers, last : Nat,
   read : Seen \cup {None}, wire : Seq(Sent),
   ended : BOOLEAN, destroyed : BOOLEAN, gone : BOOLEAN, held : BOOLEAN]
Tab ==
  [at : {"stream", "failed", "away", "answered", "stopped"}, on : Streams \cup {None},
   last : Nat, cursor : Nat, shown : Seq(Sent), tries : Nat, returned : BOOLEAN]

Types ==
  /\ kept \in BOOLEAN /\ turn \in Turn
  /\ worker \in [Workers -> {"up", "lost", "down"}]
  /\ owned \in [Workers -> Nat]
  /\ tab \in Tab /\ upsets \in Nat

\* What is told of a turn is its end, and only a turn that is over is told of.
Told(x) == x.told => x.status \in Final
Committed == turn.saved <= turn.events

\* The events of x: how many there are, and each of them.
Size(x) == x.saved + (IF x.told THEN 1 ELSE 0)
Item(x, i) == Event(i, IF i <= x.saved THEN "part" ELSE x.status)

\* y has all that x had.
Reaches(x, y) ==
  x.saved <= y.saved /\ (x.told => y.told /\ y.saved = x.saved /\ y.status = x.status)

\* A response whose read is under way read the turn x as it was; a place is held by one that
\* is being served, and one that is destroyed has lost its client.
Good(r, x) ==
  /\ r \in Response
  /\ r.at = "found" \/ r.read # None => r.read \in Seen /\ Told(r.read) /\ Reaches(r.read, x)
  /\ r.held => r.at \in {"finding", "found", "streaming"}
  /\ r.destroyed => r.gone
GoodStreams == stream \in [Streams -> Response] /\ \A s \in Streams : Good(stream[s], turn)

\* A response carries the events from b on to the last one it has written.
Carries(r, b, t) ==
  /\ b <= r.last /\ r.last <= Size(t) /\ Len(r.wire) = r.last - b
  /\ \A i \in 1 .. Len(r.wire) : r.wire[i] = Item(t, b + i)

\* The tab's connection goes on where the tab is.
Follows(b, r, t) == r.at # "free" /\ ~r.gone /\ Carries(r, b, t)
Connected ==
  tab.on \in Streams => tab.at = "stream" /\ Follows(tab.last, stream[tab.on], turn)

\* What is shown is as much of the answer as the tab's cursor says.
Shows ==
  /\ tab.at \in {"stream", "failed"} => tab.last <= tab.cursor /\ tab.last <= Size(turn)
  /\ ~tab.returned =>
       /\ Len(tab.shown) <= Size(turn)
       /\ \A i \in 1 .. Len(tab.shown) : tab.shown[i] = Item(turn, i)
       /\ tab.at \in {"stream", "failed"} => Len(tab.shown) = tab.cursor

Held(w) == {s \in Streams : stream[s].held /\ stream[s].worker = w}
PlacesCounted ==
  \A w \in Workers :
    IsFiniteSet(Held(w)) /\ owned[w] = Cardinality(Held(w)) /\ owned[w] <= MaxStreams

ViewInv ==
  /\ Types /\ Told(turn) /\ Committed /\ GoodStreams /\ Connected /\ Shows /\ PlacesCounted

-----------------------------------------------------------------------------
(* Events.                                                                 *)

AreEvents(q, x) == Len(q) = Size(x) /\ \A i \in 1 .. Size(x) : q[i] = Item(x, i)

LEMMA EventsAre ==
  ASSUME NEW x, x.saved \in Nat, Told(x)
  PROVE  Size(x) \in Nat /\ Events(x) \in Seq(Sent) /\ AreEvents(Events(x), x)
<1>1. PICK n \in Nat : n = x.saved
  OBVIOUS
<1> DEFINE F(i) == Event(i, "part")
<1>2. PICK q \in Seq(Sent) : q = [i \in 1 .. n |-> F(i)]
  <2>1. \A i \in 1 .. n : F(i) \in Sent
    BY DEF Event, Sent
  <2> HIDE DEF F
  <2>2. [i \in 1 .. n |-> F(i)] \in Seq(Sent)
    BY <2>1
  <2> QED
    BY <2>2
<1>3. Len(q) = n /\ \A i \in 1 .. n : q[i] = F(i)
  BY <1>2
<1>4. CASE ~x.told
  <2>1. Events(x) = q
    <3>1. Events(x) = q \o <<>>
      BY <1>1, <1>2, <1>4 DEF Events
    <3> QED
      BY <3>1
  <2> QED
    BY <1>1, <1>3, <1>4, <2>1 DEF AreEvents, Size, Item
<1>5. CASE x.told
  <2>1. PICK e \in Sent : e = Event(n + 1, x.status)
    <3>1. Event(n + 1, x.status) \in Sent
      BY <1>5 DEF Event, Sent, Told
    <3> QED
      BY <3>1
  <2>2. Events(x) = Append(q, e)
    <3>1. Events(x) = q \o <<Event(TerminalId(n), x.status)>>
      BY <1>1, <1>2, <1>5 DEF Events
    <3>2. Events(x) = q \o <<e>>
      BY <2>1, <3>1 DEF TerminalId
    <3>3. q \o <<e>> = Append(q, e)
      OBVIOUS
    <3> QED
      BY <3>2, <3>3
  <2>3. /\ Append(q, e) \in Seq(Sent) /\ Len(Append(q, e)) = n + 1 /\ Append(q, e)[n + 1] = e
        /\ \A i \in 1 .. n : Append(q, e)[i] = q[i]
    BY <1>3
  <2>4. Size(x) = n + 1
    BY <1>1, <1>5 DEF Size
  <2>5. \A i \in 1 .. n + 1 : Append(q, e)[i] = Item(x, i)
    <3>1. \A i \in 1 .. n : Append(q, e)[i] = Item(x, i)
      BY <1>1, <1>3, <2>3 DEF Item
    <3>2. Append(q, e)[n + 1] = Item(x, n + 1)
      BY <1>1, <2>1, <2>3 DEF Item
    <3>3. \A i \in 1 .. n + 1 : i \in 1 .. n \/ i = n + 1
      OBVIOUS
    <3> QED
      BY <3>1, <3>2, <3>3
  <2> QED
    BY <2>2, <2>3, <2>4, <2>5 DEF AreEvents
<1> QED
  BY <1>4, <1>5

\* The events of a turn stay when it has more.
LEMMA ItemsStay ==
  ASSUME NEW x, NEW y, x.saved \in Nat, y.saved \in Nat, Reaches(x, y)
  PROVE  Size(x) <= Size(y) /\ \A i \in 1 .. Size(x) : Item(x, i) = Item(y, i)
<1>1. CASE x.told
  <2>1. y.told /\ y.saved = x.saved /\ y.status = x.status
    BY <1>1 DEF Reaches
  <2> QED
    BY <1>1, <2>1 DEF Size, Item
<1>2. CASE ~x.told
  <2>1. x.saved <= y.saved
    BY DEF Reaches
  <2>2. Size(x) = x.saved /\ y.saved <= Size(y)
    BY <1>2 DEF Size
  <2>3. \A i \in 1 .. x.saved : i <= x.saved /\ i <= y.saved
    BY <2>1
  <2> QED
    BY <2>1, <2>2, <2>3 DEF Size, Item
<1> QED
  BY <1>1, <1>2

LEMMA ReachesOn ==
  ASSUME NEW x, NEW y, NEW z, x.saved \in Nat, y.saved \in Nat, z.saved \in Nat,
         Reaches(x, y), Reaches(y, z)
  PROVE  Reaches(x, z)
BY DEF Reaches

LEMMA CarriesStays ==
  ASSUME NEW r \in Response, NEW b \in Nat, NEW x, NEW y, x.saved \in Nat, y.saved \in Nat,
         Reaches(x, y), Carries(r, b, x)
  PROVE  Carries(r, b, y)
<1>1. Size(x) <= Size(y) /\ Size(x) \in Nat /\ Size(y) \in Nat
  BY ItemsStay DEF Size
<1>2. PICK n \in Nat, l \in Nat : n = Len(r.wire) /\ l = r.last
  BY DEF Response
<1>3. b <= l /\ l <= Size(x) /\ n = l - b
  BY <1>2 DEF Carries
<1>4. ASSUME NEW i \in 1 .. n
      PROVE  r.wire[i] = Item(y, b + i)
  <2>1. b + i \in 1 .. Size(x)
    BY <1>1, <1>3
  <2>2. r.wire[i] = Item(x, b + i)
    BY <1>2 DEF Carries
  <2> QED
    BY <2>1, <2>2, ItemsStay
<1>5. l <= Size(y)
  BY <1>1, <1>2, <1>3
<1> QED
  BY <1>2, <1>3, <1>4, <1>5 DEF Carries

\* What a response still has to send of x: the events after the last it has written.
LEMMA AfterIs ==
  ASSUME ViewingAssumption, NEW x, x.saved \in 0 .. MaxEvents, Told(x), NEW l \in Nat
  PROVE  /\ After(Events(x), l) \in Seq(Sent)
         /\ Len(After(Events(x), l)) = IF l < Size(x) THEN Size(x) - l ELSE 0
         /\ \A j \in 1 .. Len(After(Events(x), l)) : After(Events(x), l)[j] = Item(x, l + j)
<1> DEFINE T == [id : l + 1 .. TerminalId(MaxEvents), type : {"part"} \cup Final]
<1>1. x.saved \in Nat /\ MaxEvents \in Nat /\ x.saved <= MaxEvents
  BY DEF ViewingAssumption
<1>2. PICK q \in Seq(Sent) : q = Events(x) /\ AreEvents(q, x)
  BY <1>1, EventsAre
<1>3. PICK m \in Nat : m = Size(x) /\ m <= TerminalId(MaxEvents)
  BY <1>1 DEF Size, TerminalId
<1>4. Len(q) = m /\ \A i \in 1 .. m : q[i] = Item(x, i)
  BY <1>2, <1>3 DEF AreEvents
<1>5. ASSUME NEW i \in 1 .. m
      PROVE  q[i] \in T <=> i > l
  <2>1. q[i] \in Sent /\ q[i] = Item(x, i)
    BY <1>4
  <2>2. q[i].id = i /\ q[i].type \in {"part"} \cup Final
    BY <2>1 DEF Item, Event, Sent
  <2>3. q[i] = [id |-> i, type |-> q[i].type]
    BY <2>1, <2>2 DEF Sent
  <2>4. i > l => i \in l + 1 .. TerminalId(MaxEvents)
    BY <1>1, <1>3 DEF TerminalId
  <2>5. i > l => q[i] \in T
    BY <2>2, <2>3, <2>4
  <2>6. q[i] \in T => q[i].id \in l + 1 .. TerminalId(MaxEvents)
    OBVIOUS
  <2> QED
    BY <2>2, <2>5, <2>6
<1> HIDE DEF T
<1>6. Filter(q, T) \in Seq(Sent \cap T) /\ Rest(Filter(q, T), q, l)
  BY <1>4, <1>5, FilterFrom
<1>7. After(Events(x), l) = Filter(q, T)
  BY <1>2 DEF After, T
<1>8. PICK f \in Seq(Sent) : f = Filter(q, T)
  BY <1>6
<1>9. Len(f) = (IF l < m THEN m - l ELSE 0) /\ \A j \in 1 .. Len(f) : f[j] = q[l + j]
  BY <1>4, <1>6, <1>8 DEF Rest
<1>10. \A j \in 1 .. Len(f) : l + j \in 1 .. m
  BY <1>9
<1>11. \A j \in 1 .. Len(f) : f[j] = Item(x, l + j)
  BY <1>4, <1>9, <1>10
<1> QED
  BY <1>3, <1>7, <1>8, <1>9, <1>11

\* Writing what is new in a read of the turn keeps the response in step with the turn.
LEMMA WrittenCarries ==
  ASSUME ViewingAssumption, NEW r \in Response, NEW x, NEW t,
         x.saved \in 0 .. MaxEvents, t.saved \in Nat, Told(x), Reaches(x, t)
  PROVE  /\ Written(r, x) \in Response
         /\ Written(r, x).at = r.at /\ Written(r, x).worker = r.worker
         /\ Written(r, x).read = r.read /\ Written(r, x).destroyed = r.destroyed
         /\ Written(r, x).gone = r.gone /\ Written(r, x).held = r.held
         /\ \A b \in Nat : Carries(r, b, t) => Carries(Written(r, x), b, t)
<1>1. x.saved \in Nat /\ Size(x) \in Nat /\ Size(t) \in Nat /\ Size(x) <= Size(t)
  BY ItemsStay DEF Size, ViewingAssumption
<1>2. PICK l \in Nat : l = r.last
  BY DEF Response
<1>3. PICK new \in Seq(Sent) :
        /\ new = After(Events(x), l)
        /\ Len(new) = IF l < Size(x) THEN Size(x) - l ELSE 0
        /\ \A j \in 1 .. Len(new) : new[j] = Item(x, l + j)
  BY AfterIs
<1>4. PICK w \in Seq(Sent) : w = r.wire
  BY DEF Response
<1>5. PICK v \in Seq(Sent) : v = w \o new
  BY ConcatProperties
<1>6. Len(v) = Len(w) + Len(new)
      /\ \A i \in 1 .. Len(w) + Len(new) : v[i] = IF i <= Len(w) THEN w[i] ELSE new[i - Len(w)]
  <2>1. /\ Len(w \o new) = Len(w) + Len(new)
        /\ \A i \in 1 .. Len(w) + Len(new) :
             (w \o new)[i] = IF i <= Len(w) THEN w[i] ELSE new[i - Len(w)]
    BY ConcatProperties
  <2> QED
    BY <1>5, <2>1
<1>7. PICK k \in Nat : k = (IF l < Size(x) THEN Size(x) ELSE l) /\ k >= l /\ Len(new) = k - l
  <2>1. CASE l < Size(x)
    BY <1>1, <1>3, <2>1
  <2>2. CASE ~(l < Size(x))
    BY <1>1, <1>3, <2>2
  <2> QED
    BY <2>1, <2>2
<1>8. (IF new = <<>> THEN l ELSE new[Len(new)].id) = k
  <2>1. CASE l < Size(x)
    <3>1. Len(new) \in 1 .. Len(new) /\ l + Len(new) = k
      BY <1>1, <1>7, <2>1
    <3>2. new # <<>> /\ new[Len(new)] = Item(x, k)
      BY <1>3, <3>1
    <3>3. new[Len(new)].id = k
      BY <3>2 DEF Item, Event
    <3> QED
      BY <3>2, <3>3
  <2>2. CASE ~(l < Size(x))
    <3>1. new = <<>>
      BY <1>3, <2>2
    <3> QED
      BY <1>7, <2>2, <3>1
  <2> QED
    BY <2>1, <2>2
<1>9. Written(r, x) = [r EXCEPT !.wire = v, !.last = k, !.ended = x.status \in Final]
  <2>1. Written(r, x) = [r EXCEPT !.wire = @ \o new, !.last = IF new = <<>> THEN @ ELSE new[Len(new)].id,
                                  !.ended = x.status \in Final]
    BY <1>2, <1>3 DEF Written
  <2> QED
    BY <1>2, <1>4, <1>5, <1>8, <2>1 DEF Response
<1>10. PICK e \in BOOLEAN : e <=> x.status \in Final
  OBVIOUS
<1>11. PICK q : q = Written(r, x) /\ q = [r EXCEPT !.wire = v, !.last = k, !.ended = e]
  <2>1. e = (x.status \in Final)
    BY <1>10
  <2> QED
    BY <1>9, <2>1
<1>12. /\ q \in Response /\ q.wire = v /\ q.last = k /\ q.at = r.at /\ q.worker = r.worker
       /\ q.read = r.read /\ q.destroyed = r.destroyed /\ q.gone = r.gone /\ q.held = r.held
  BY <1>11 DEF Response
<1>13. ASSUME NEW b \in Nat, Carries(r, b, t)
       PROVE  Carries(q, b, t)
  <2>1. PICK n \in Nat, m \in Nat : n = Len(w) /\ m = Len(new)
    OBVIOUS
  <2>2. b <= l /\ l <= Size(t) /\ n = l - b /\ \A i \in 1 .. n : w[i] = Item(t, b + i)
    BY <1>2, <1>4, <1>13, <2>1 DEF Carries
  <2>3. m = k - l /\ k <= Size(t) /\ b <= k
    BY <1>1, <1>7, <2>1, <2>2
  <2>4. Len(v) = k - b
    BY <1>6, <2>1, <2>2, <2>3
  <2>5. ASSUME NEW i \in 1 .. n + m
        PROVE  v[i] = Item(t, b + i)
    <3>1. CASE i <= n
      BY <1>6, <2>1, <2>2, <3>1
    <3>2. CASE i > n
      <4>1. PICK j \in 1 .. m : j = i - n
        <5>1. i - n \in 1 .. m
          BY <3>2
        <5> QED
          BY <5>1
      <4>2. v[i] = new[j]
        <5>1. v[i] = IF i <= n THEN w[i] ELSE new[i - n]
          BY <1>6, <2>1
        <5> QED
          BY <3>2, <4>1, <5>1
      <4>3. new[j] = Item(x, l + j) /\ l + j = b + i
        BY <1>3, <2>1, <2>2, <4>1
      <4>4. l + j \in 1 .. Size(x)
        <5>1. m # 0
          OBVIOUS
        <5>2. l < Size(x) /\ m = Size(x) - l
          BY <1>3, <2>1, <5>1
        <5>3. PICK h \in Nat : h = Size(x)
          BY <1>1
        <5>4. l + j <= h /\ l + j >= 1
          <6>1. m = h - l
            BY <5>2, <5>3
          <6>2. j >= 1 /\ j <= h - l
            BY <4>1, <6>1
          <6> QED
            BY <6>2
        <5> QED
          BY <5>3, <5>4
      <4>5. Item(x, l + j) = Item(t, l + j)
        BY <1>1, <4>4, ItemsStay
      <4> QED
        BY <4>2, <4>3, <4>5
    <3>3. i <= n \/ i > n
      OBVIOUS
    <3> QED
      BY <3>1, <3>2, <3>3
  <2>6. n + m = k - b
    BY <2>2, <2>3
  <2> QED
    BY <1>12, <2>3, <2>4, <2>5, <2>6 DEF Carries
<1> QED
  BY <1>11, <1>12, <1>13

-----------------------------------------------------------------------------
(* What every step does.                                                   *)

\* The turn only ever has more.
Grown == turn' \in Turn /\ Told(turn') /\ turn'.saved <= turn'.events /\ Reaches(turn, turn')

LEMMA TurnStays ==
  ASSUME turn \in Turn, Told(turn), Committed, UNCHANGED turn
  PROVE  Grown
BY DEF Grown, Committed, Reaches, Told, Turn

\* A response is as good for a turn that has more.
LEMMA GoodStays ==
  ASSUME NEW r, NEW x, NEW y, Good(r, x), Reaches(x, y), x.saved \in Nat, y.saved \in Nat
  PROVE  Good(r, y)
<1>1. ASSUME r.at = "found" \/ r.read # None
      PROVE  Reaches(r.read, y)
  <2>1. r.read \in Seen /\ Reaches(r.read, x)
    BY <1>1 DEF Good
  <2> QED
    BY <2>1 DEF Reaches, Seen
<1> QED
  BY <1>1 DEF Good

LEMMA TurnNat ==
  ASSUME ViewingAssumption, NEW x \in Turn
  PROVE  x.saved \in Nat /\ x.saved \in 0 .. MaxEvents /\ Size(x) \in Nat
BY DEF Turn, Size, ViewingAssumption

\* The steps that change one response, and those that change none.
LEMMA StreamsStay ==
  ASSUME ViewingAssumption, turn \in Turn, Grown, GoodStreams, UNCHANGED stream
  PROVE  GoodStreams'
<1>1. turn.saved \in Nat /\ turn'.saved \in Nat /\ Reaches(turn, turn')
  BY TurnNat DEF Grown
<1>2. \A s \in Streams : Good(stream[s], turn')
  BY <1>1, GoodStays DEF GoodStreams
<1> QED
  BY <1>2 DEF GoodStreams

LEMMA OneStream ==
  ASSUME ViewingAssumption, turn \in Turn, Grown, GoodStreams,
         NEW s \in Streams, NEW r, Good(r, turn'), stream' = [stream EXCEPT ![s] = r]
  PROVE  GoodStreams' /\ stream'[s] = r /\ \A o \in Streams \ {s} : stream'[o] = stream[o]
<1>1. turn.saved \in Nat /\ turn'.saved \in Nat /\ Reaches(turn, turn')
  BY TurnNat DEF Grown
<1>2. stream'[s] = r /\ \A o \in Streams \ {s} : stream'[o] = stream[o]
  BY DEF GoodStreams
<1>3. \A o \in Streams : Good(stream'[o], turn')
  <2>1. \A o \in Streams \ {s} : Good(stream[o], turn')
    BY <1>1, GoodStays DEF GoodStreams
  <2> QED
    BY <1>2, <2>1
<1>4. stream' \in [Streams -> Response]
  <2>1. r \in Response
    BY DEF Good
  <2> QED
    BY <2>1 DEF GoodStreams
<1> QED
  BY <1>2, <1>3, <1>4 DEF GoodStreams

\* What a tab shows it goes on showing while the turn only has more.
LEMMA ShowsOn ==
  ASSUME ViewingAssumption, turn \in Turn, Grown, tab \in Tab, Shows,
         tab'.at = tab.at, tab'.last = tab.last, tab'.cursor = tab.cursor, tab'.shown = tab.shown,
         tab'.returned = tab.returned
  PROVE  Shows'
<1>1. turn.saved \in Nat /\ turn'.saved \in Nat /\ Reaches(turn, turn')
  BY TurnNat DEF Grown
<1>2. /\ Size(turn) <= Size(turn') /\ Size(turn) \in Nat /\ Size(turn') \in Nat
      /\ \A i \in 1 .. Size(turn) : Item(turn, i) = Item(turn', i)
  BY <1>1, ItemsStay, TurnNat DEF Grown
<1>3. tab.last \in Nat /\ Len(tab.shown) \in Nat
  BY DEF Tab
<1>4. ~tab.returned =>
        Len(tab.shown) <= Size(turn') /\ \A i \in 1 .. Len(tab.shown) : tab.shown[i] = Item(turn', i)
  <2>1. ASSUME ~tab.returned
        PROVE  /\ Len(tab.shown) <= Size(turn)
               /\ \A i \in 1 .. Len(tab.shown) : tab.shown[i] = Item(turn, i)
    BY <2>1 DEF Shows
  <2>2. ASSUME ~tab.returned, NEW i \in 1 .. Len(tab.shown)
        PROVE  i \in 1 .. Size(turn)
    BY <1>2, <1>3, <2>1, <2>2
  <2> QED
    BY <1>2, <1>3, <2>1, <2>2
<1>5. tab.at \in {"stream", "failed"} => tab.last <= Size(turn')
  BY <1>2, <1>3 DEF Shows
<1> QED
  BY <1>4, <1>5 DEF Shows

\* The steps that leave the tab as it is.
LEMMA TabStays ==
  ASSUME ViewingAssumption, turn \in Turn, Grown, tab \in Tab, Connected, Shows, UNCHANGED tab,
         tab.on \in Streams => Follows(tab.last, stream'[tab.on], turn')
  PROVE  Connected' /\ Shows'
<1>1. Shows'
  BY ShowsOn
<1> QED
  BY <1>1 DEF Connected

\* A connected tab whose response has not changed goes on.
LEMMA FollowsOn ==
  ASSUME ViewingAssumption, turn \in Turn, Grown, tab \in Tab, GoodStreams, Connected,
         tab.on \in Streams => stream'[tab.on] = stream[tab.on]
  PROVE  tab.on \in Streams => Follows(tab.last, stream'[tab.on], turn')
<1> SUFFICES ASSUME tab.on \in Streams
             PROVE  Follows(tab.last, stream'[tab.on], turn')
  OBVIOUS
<1>1. turn.saved \in Nat /\ turn'.saved \in Nat /\ Reaches(turn, turn')
  BY TurnNat DEF Grown
<1>2. stream[tab.on] \in Response /\ tab.last \in Nat /\ Follows(tab.last, stream[tab.on], turn)
  BY DEF Connected, GoodStreams, Tab
<1>3. Carries(stream[tab.on], tab.last, turn')
  BY <1>1, <1>2, CarriesStays DEF Follows
<1> QED
  BY <1>2, <1>3 DEF Follows

-----------------------------------------------------------------------------
(* Places.                                                                 *)

LEMMA PlacesStay ==
  ASSUME PlacesCounted, UNCHANGED owned,
         \A s \in Streams : /\ stream'[s].held = stream[s].held
                            /\ stream[s].held => stream'[s].worker = stream[s].worker
  PROVE  PlacesCounted'
<1>1. \A w \in Workers : Held(w)' = Held(w)
  BY DEF Held
<1> QED
  BY <1>1 DEF PlacesCounted

\* Whichever event releases a place first gives it back, and the later ones do nothing.
LEMMA Released ==
  ASSUME ViewingAssumption, owned \in [Workers -> Nat], GoodStreams, PlacesCounted, NEW s \in Streams,
         Release(s), stream'[s].held = FALSE,
         \A o \in Streams \ {s} : stream'[o].held = stream[o].held /\ stream'[o].worker = stream[o].worker
  PROVE  owned' \in [Workers -> Nat] /\ PlacesCounted'
<1>1. PICK v \in Workers : v = stream[s].worker
  BY DEF GoodStreams, Response
<1>2. CASE ~stream[s].held
  <2>1. owned' = owned
    BY <1>1, <1>2 DEF Release
  <2>2. \A w \in Workers : Held(w)' = Held(w)
    BY <1>2 DEF Held
  <2> QED
    BY <2>1, <2>2 DEF PlacesCounted
<1>3. CASE stream[s].held
  <2>1. owned' = [owned EXCEPT ![v] = @ - 1]
    BY <1>1, <1>3 DEF Release
  <2>2. Held(v)' = Held(v) \ {s} /\ s \in Held(v)
    BY <1>1, <1>3 DEF Held
  <2>3. \A w \in Workers \ {v} : Held(w)' = Held(w)
    BY <1>1 DEF Held
  <2>4. IsFiniteSet(Held(v)) /\ owned[v] = Cardinality(Held(v)) /\ owned[v] <= MaxStreams
    BY DEF PlacesCounted
  <2>5. IsFiniteSet(Held(v)') /\ Cardinality(Held(v)') = Cardinality(Held(v)) - 1
    BY <2>2, <2>4, FS_RemoveElement
  <2>6. owned[v] \in Nat /\ owned[v] - 1 \in Nat /\ MaxStreams \in Nat
    BY <2>2, <2>4, <2>5, FS_CardinalityType DEF ViewingAssumption
  <2>7. owned'[v] = owned[v] - 1 /\ \A w \in Workers \ {v} : owned'[w] = owned[w]
    BY <2>1
  <2>8. owned' \in [Workers -> Nat]
    BY <2>1, <2>6
  <2>9. ASSUME NEW w \in Workers
        PROVE  IsFiniteSet(Held(w)') /\ owned'[w] = Cardinality(Held(w)') /\ owned'[w] <= MaxStreams
    <3>1. CASE w = v
      BY <2>4, <2>5, <2>6, <2>7, <3>1
    <3>2. CASE w # v
      BY <2>3, <2>7, <3>2 DEF PlacesCounted
    <3> QED
      BY <3>1, <3>2
  <2> QED
    BY <2>8, <2>9 DEF PlacesCounted
<1> QED
  BY <1>2, <1>3

-----------------------------------------------------------------------------
(* The runner's steps.                                                     *)

LEMMA WrittenGood ==
  ASSUME ViewingAssumption, NEW r, NEW x, NEW t, Good(r, t),
         x.saved \in 0 .. MaxEvents, t.saved \in Nat, Told(x), Reaches(x, t)
  PROVE  /\ Good(Written(r, x), t)
         /\ Written(r, x).held = r.held /\ Written(r, x).worker = r.worker
         /\ \A b \in Nat : Follows(b, r, t) => Follows(b, Written(r, x), t)
<1>1. r \in Response
  BY DEF Good
<1>2. PICK q : q = Written(r, x)
  OBVIOUS
<1>3. /\ q \in Response
      /\ q.at = r.at /\ q.worker = r.worker /\ q.read = r.read
      /\ q.destroyed = r.destroyed /\ q.gone = r.gone /\ q.held = r.held
      /\ \A b \in Nat : Carries(r, b, t) => Carries(q, b, t)
  BY <1>1, <1>2, WrittenCarries
<1>4. Good(q, t)
  BY <1>3 DEF Good
<1>5. \A b \in Nat : Follows(b, r, t) => Follows(b, q, t)
  BY <1>3 DEF Follows
<1> QED
  BY <1>2, <1>3, <1>4, <1>5

\* A step of the turn, the workers or one response, which the tab does not take part in.
LEMMA StepKeeps ==
  ASSUME ViewingAssumption, ViewInv, Grown, GoodStreams', UNCHANGED <<kept, owned, tab>>,
         worker' \in [Workers -> {"up", "lost", "down"}], upsets' \in Nat,
         tab.on \in Streams => Follows(tab.last, stream'[tab.on], turn'),
         \A s \in Streams : /\ stream'[s].held = stream[s].held
                            /\ stream[s].held => stream'[s].worker = stream[s].worker
  PROVE  ViewInv'
<1>1. turn \in Turn /\ tab \in Tab /\ Connected /\ Shows /\ PlacesCounted
  BY DEF ViewInv, Types
<1>2. Connected' /\ Shows'
  BY <1>1, TabStays
<1>3. PlacesCounted'
  BY <1>1, PlacesStay
<1>4. Types'
  BY DEF Types, ViewInv, Grown
<1> QED
  BY <1>2, <1>3, <1>4 DEF ViewInv, Grown, Committed

\* The responses stay as they are.
LEMMA QuietKeeps ==
  ASSUME ViewingAssumption, ViewInv, Grown, UNCHANGED <<kept, stream, owned, tab>>,
         worker' \in [Workers -> {"up", "lost", "down"}], upsets' \in Nat
  PROVE  ViewInv'
<1>1. turn \in Turn /\ tab \in Tab /\ GoodStreams /\ Connected
  BY DEF ViewInv, Types
<1>2. GoodStreams'
  BY <1>1, StreamsStay
<1>3. tab.on \in Streams => Follows(tab.last, stream'[tab.on], turn')
  BY <1>1, FollowsOn
<1> QED
  BY <1>2, <1>3, StepKeeps

LEMMA PushKeeps ==
  ASSUME ViewingAssumption, ViewInv, Grown, Push(turn'), UNCHANGED <<kept, worker, owned, tab, upsets>>
  PROVE  ViewInv'
<1>1. turn \in Turn /\ tab \in Tab /\ GoodStreams /\ Connected
  BY DEF ViewInv, Types
<1>2. turn'.saved \in 0 .. MaxEvents /\ turn'.saved \in Nat /\ turn.saved \in Nat /\ Told(turn')
      /\ Reaches(turn, turn') /\ Reaches(turn', turn')
  BY <1>1, TurnNat DEF Grown, Reaches
<1>3. \A s \in Streams : stream'[s] = IF Live(stream[s]) THEN Written(stream[s], turn') ELSE stream[s]
  BY DEF Push
<1>4. ASSUME NEW s \in Streams
      PROVE  /\ Good(stream'[s], turn')
             /\ stream'[s].held = stream[s].held /\ stream'[s].worker = stream[s].worker
             /\ \A b \in Nat : Follows(b, stream[s], turn') => Follows(b, stream'[s], turn')
  <2>1. Good(stream[s], turn')
    BY <1>1, <1>2, GoodStays DEF GoodStreams
  <2>2. CASE Live(stream[s])
    <3>1. stream'[s] = Written(stream[s], turn')
      BY <1>3, <2>2
    <3> QED
      BY <1>2, <2>1, <3>1, WrittenGood
  <2>3. CASE ~Live(stream[s])
    BY <1>3, <2>1, <2>3
  <2> QED
    BY <2>2, <2>3
<1>5. GoodStreams'
  <2>1. stream' = [s \in Streams |-> stream'[s]]
    BY DEF Push
  <2>2. \A s \in Streams : stream'[s] \in Response
    BY <1>4 DEF Good
  <2> QED
    BY <1>4, <2>1, <2>2 DEF GoodStreams
<1>6. tab.on \in Streams => Follows(tab.last, stream'[tab.on], turn')
  <2> SUFFICES ASSUME tab.on \in Streams
               PROVE  Follows(tab.last, stream'[tab.on], turn')
    OBVIOUS
  <2>1. stream[tab.on] \in Response /\ tab.last \in Nat /\ Follows(tab.last, stream[tab.on], turn)
    BY <1>1 DEF Connected, GoodStreams, Tab
  <2>2. Follows(tab.last, stream[tab.on], turn')
    BY <1>2, <2>1, CarriesStays DEF Follows
  <2> QED
    BY <1>4, <2>1, <2>2
<1>7. worker' \in [Workers -> {"up", "lost", "down"}] /\ upsets' \in Nat
  BY DEF ViewInv, Types
<1> QED
  BY <1>4, <1>5, <1>6, <1>7, StepKeeps

LEMMA PublishKeeps ==
  ASSUME ViewingAssumption, ViewInv, Publish
  PROVE  ViewInv'
<1>1. turn \in Turn /\ Told(turn) /\ turn.saved <= turn.events /\ kept \in BOOLEAN /\ MaxEvents \in Nat
  BY DEF ViewInv, Types, Committed, ViewingAssumption
<1>2. turn.status = "running" /\ turn.events < MaxEvents /\ ~turn.told
  BY <1>1 DEF Publish, Running, Told, Final
<1>3. Grown
  <2>1. CASE kept
    <3>1. turn' = [turn EXCEPT !.events = @ + 1]
      BY <1>1, <2>1 DEF Publish, Turn
    <3> QED
      BY <1>1, <1>2, <3>1 DEF Grown, Turn, Told, Reaches
  <2>2. CASE ~kept
    <3>1. turn' = [turn EXCEPT !.events = @ + 1, !.saved = @ + 1]
      BY <1>1, <2>2 DEF Publish, Turn
    <3>2. PICK e \in 0 .. MaxEvents, n \in 0 .. MaxEvents :
            e = turn.events + 1 /\ n = turn.saved + 1 /\ n <= e /\ turn.saved <= n
      BY <1>1, <1>2 DEF Turn
    <3>3. turn' = [turn EXCEPT !.events = e, !.saved = n]
      BY <1>1, <3>1, <3>2 DEF Turn
    <3>4. /\ turn' \in Turn /\ turn'.events = e /\ turn'.saved = n
          /\ turn'.status = turn.status /\ turn'.told = turn.told
      BY <1>1, <3>3 DEF Turn
    <3> QED
      BY <1>1, <1>2, <3>2, <3>4 DEF Grown, Told, Reaches
  <2> QED
    BY <2>1, <2>2
<1>4. worker' \in [Workers -> {"up", "lost", "down"}] /\ upsets' \in Nat
  BY DEF ViewInv, Types, Publish
<1>5. CASE kept
  BY <1>3, <1>4, <1>5, QuietKeeps DEF Publish
<1>6. CASE ~kept
  BY <1>3, <1>6, PushKeeps DEF Publish
<1> QED
  BY <1>5, <1>6

LEMMA SaveProgressKeeps ==
  ASSUME ViewingAssumption, ViewInv, SaveProgress
  PROVE  ViewInv'
<1>1. turn \in Turn /\ Told(turn) /\ turn.saved <= turn.events /\ MaxEvents \in Nat
  BY DEF ViewInv, Types, Committed, ViewingAssumption
<1>2. ~turn.told
  BY <1>1 DEF SaveProgress, Running, Told, Final
<1>3. PICK n \in turn.saved + 1 .. turn.events : turn' = [turn EXCEPT !.saved = n]
  BY DEF SaveProgress
<1>4. Grown
  BY <1>1, <1>2, <1>3 DEF Grown, Turn, Told, Reaches
<1>5. worker' \in [Workers -> {"up", "lost", "down"}] /\ upsets' \in Nat
  BY DEF ViewInv, Types, SaveProgress
<1> QED
  BY <1>4, <1>5, QuietKeeps DEF SaveProgress

LEMMA RecoverKeeps ==
  ASSUME ViewingAssumption, ViewInv, Recover
  PROVE  ViewInv'
<1>1. turn \in Turn /\ Told(turn) /\ turn.saved <= turn.events /\ MaxEvents \in Nat
  BY DEF ViewInv, Types, Committed, ViewingAssumption
<1>2. ~turn.told
  BY <1>1 DEF Recover, Told, Final
<1>3. Grown
  <2>1. /\ turn' \in Turn /\ turn'.events = turn.events /\ turn'.saved = turn.saved
        /\ turn'.status = "stopped"
    BY <1>1 DEF Recover, Turn, Final
  <2> QED
    BY <1>1, <1>2, <2>1 DEF Grown, Turn, Told, Reaches, Final
<1>4. worker' \in [Workers -> {"up", "lost", "down"}] /\ upsets' \in Nat
  BY DEF ViewInv, Types, Recover
<1> QED
  BY <1>3, <1>4, QuietKeeps DEF Recover

LEMMA ForgetKeeps ==
  ASSUME ViewingAssumption, ViewInv, Forget
  PROVE  ViewInv'
<1>1. turn \in Turn /\ Told(turn) /\ turn.saved <= turn.events /\ MaxEvents \in Nat
  BY DEF ViewInv, Types, Committed, ViewingAssumption
<1>2. Grown
  <2>1. /\ turn' \in Turn /\ turn'.events = turn.events /\ turn'.saved = turn.saved
        /\ turn'.status = turn.status /\ turn'.told = turn.told
    BY <1>1 DEF Forget, Turn
  <2> QED
    BY <1>1, <2>1 DEF Grown, Turn, Told, Reaches
<1>3. worker' \in [Workers -> {"up", "lost", "down"}] /\ upsets' \in Nat
  BY DEF ViewInv, Types, Forget, Upset
<1> QED
  BY <1>2, <1>3, QuietKeeps DEF Forget

LEMMA FinishInMemoryKeeps ==
  ASSUME ViewingAssumption, ViewInv, NEW status \in Final, FinishInMemory(status)
  PROVE  ViewInv'
<1>1. turn \in Turn /\ Told(turn) /\ turn.saved <= turn.events /\ MaxEvents \in Nat
  BY DEF ViewInv, Types, Committed, ViewingAssumption
<1>2. ~turn.told
  BY <1>1 DEF FinishInMemory, Running, Told, Final
<1>3. PICK b \in BOOLEAN : turn' = [turn EXCEPT !.status = status, !.runs = FALSE, !.told = b]
  BY DEF FinishInMemory
<1>4. Grown
  <2>1. /\ turn' \in Turn /\ turn'.events = turn.events /\ turn'.saved = turn.saved
        /\ turn'.status = status
    BY <1>1, <1>3 DEF Turn, Final
  <2> QED
    BY <1>1, <1>2, <2>1 DEF Grown, Turn, Told, Reaches
<1> QED
  BY <1>4, PushKeeps DEF FinishInMemory

\* A read of the turn is a read of what it is.
LEMMA SnapshotIs ==
  ASSUME ViewingAssumption, NEW x \in Turn, Told(x)
  PROVE  Snapshot(x) \in Seen /\ Told(Snapshot(x)) /\ Reaches(Snapshot(x), x)
BY DEF Snapshot, Seen, Told, Reaches, Turn

LEMMA ReadsGood ==
  ASSUME ViewingAssumption, NEW x \in Turn, Told(x), NEW r, Good(r, x), NEW at \in {r.at, "found"},
         r.at \in {"finding", "streaming"}
  PROVE  /\ Good([r EXCEPT !.at = at, !.read = Snapshot(x)], x)
         /\ \A b \in Nat : Follows(b, r, x) => Follows(b, [r EXCEPT !.at = at, !.read = Snapshot(x)], x)
<1>1. PICK n \in Seen : n = Snapshot(x) /\ Told(n) /\ Reaches(n, x)
  BY SnapshotIs
<1>2. PICK q : q = [r EXCEPT !.at = at, !.read = n]
  OBVIOUS
<1>3. r \in Response /\ at \in {"finding", "found", "streaming"}
  BY DEF Good
<1>4. /\ q \in Response /\ q.read = n /\ q.at = at /\ q.held = r.held /\ q.gone = r.gone
      /\ q.destroyed = r.destroyed /\ q.last = r.last /\ q.wire = r.wire
  BY <1>2, <1>3 DEF Response
<1>5. Good(q, x)
  BY <1>1, <1>3, <1>4 DEF Good
<1>6. \A b \in Nat : Follows(b, r, x) => Follows(b, q, x)
  BY <1>3, <1>4 DEF Follows, Carries
<1> QED
  BY <1>1, <1>2, <1>5, <1>6

LEMMA FinishSavedKeeps ==
  ASSUME ViewingAssumption, ViewInv, NEW status \in Final, FinishSaved(status)
  PROVE  ViewInv'
<1>1. turn \in Turn /\ Told(turn) /\ turn.saved <= turn.events /\ tab \in Tab /\ GoodStreams /\ Connected
  BY DEF ViewInv, Types, Committed
<1>2. ~turn.told
  BY <1>1 DEF FinishSaved, Running, Told, Final
<1>3. PICK n \in {turn.events, turn.saved} :
        turn' = [turn EXCEPT !.saved = n, !.status = status, !.told = TRUE, !.runs = FALSE]
  <2>1. CASE turn' = [turn EXCEPT !.saved = turn.events, !.status = status, !.told = TRUE, !.runs = FALSE]
    BY <2>1
  <2>2. CASE turn' = [turn EXCEPT !.status = status, !.told = TRUE, !.runs = FALSE]
    <3>1. turn' = [turn EXCEPT !.saved = turn.saved, !.status = status, !.told = TRUE, !.runs = FALSE]
      BY <1>1, <2>2 DEF Turn
    <3> QED
      BY <3>1
  <2> QED
    BY <2>1, <2>2 DEF FinishSaved
<1>4. Grown
  <2>1. /\ turn' \in Turn /\ turn'.events = turn.events /\ turn'.saved = n
        /\ turn'.status = status
    BY <1>1, <1>3 DEF Turn, Final
  <2> QED
    BY <1>1, <1>2, <2>1 DEF Grown, Turn, Told, Reaches
<1>5. turn'.saved \in Nat /\ turn.saved \in Nat /\ turn' \in Turn /\ Told(turn') /\ Reaches(turn, turn')
  BY <1>1, <1>4, TurnNat DEF Grown
<1>6. ASSUME NEW s \in Streams
      PROVE  /\ Good(stream'[s], turn')
             /\ stream'[s].held = stream[s].held /\ stream'[s].worker = stream[s].worker
             /\ \A b \in Nat : Follows(b, stream[s], turn') => Follows(b, stream'[s], turn')
  <2>1. Good(stream[s], turn') /\ stream[s] \in Response
    BY <1>1, <1>5, GoodStays DEF GoodStreams
  <2>2. CASE Live(stream[s]) /\ stream[s].worker = Runner /\ stream[s].read = None
    <3>1. PICK r : r = stream[s]
      OBVIOUS
    <3>2. r.at = "streaming" /\ r.at \in {r.at, "found"} /\ r.at \in {"finding", "streaming"} /\ Good(r, turn')
      BY <2>1, <2>2, <3>1 DEF Live
    <3>3. stream'[s] = [r EXCEPT !.read = Snapshot(turn')]
      BY <2>2, <3>1 DEF FinishSaved
    <3>4. [r EXCEPT !.at = r.at, !.read = Snapshot(turn')] = [r EXCEPT !.read = Snapshot(turn')]
      BY <2>1, <3>1 DEF Response
    <3>5. PICK q : q = [r EXCEPT !.at = r.at, !.read = Snapshot(turn')]
      OBVIOUS
    <3>6. Good(q, turn') /\ \A b \in Nat : Follows(b, r, turn') => Follows(b, q, turn')
      BY <1>5, <3>2, <3>5, ReadsGood
    <3>7. q.held = r.held /\ q.worker = r.worker
      BY <2>1, <3>1, <3>5 DEF Response
    <3> QED
      BY <3>1, <3>3, <3>4, <3>5, <3>6, <3>7
  <2>3. CASE ~(Live(stream[s]) /\ stream[s].worker = Runner /\ stream[s].read = None)
    <3>1. stream'[s] = stream[s]
      BY <2>3 DEF FinishSaved
    <3> QED
      BY <2>1, <3>1
  <2> QED
    BY <2>2, <2>3
<1>7. GoodStreams'
  <2>1. stream' = [s \in Streams |-> stream'[s]]
    BY DEF FinishSaved
  <2>2. \A s \in Streams : stream'[s] \in Response
    BY <1>6 DEF Good
  <2> QED
    BY <1>6, <2>1, <2>2 DEF GoodStreams
<1>8. tab.on \in Streams => Follows(tab.last, stream'[tab.on], turn')
  <2> SUFFICES ASSUME tab.on \in Streams
               PROVE  Follows(tab.last, stream'[tab.on], turn')
    OBVIOUS
  <2>1. stream[tab.on] \in Response /\ tab.last \in Nat /\ Follows(tab.last, stream[tab.on], turn)
    BY <1>1 DEF Connected, GoodStreams, Tab
  <2>2. Follows(tab.last, stream[tab.on], turn')
    BY <1>5, <2>1, CarriesStays DEF Follows
  <2> QED
    BY <1>6, <2>1, <2>2
<1>9. worker' \in [Workers -> {"up", "lost", "down"}] /\ upsets' \in Nat /\ UNCHANGED <<kept, owned, tab>>
  BY DEF ViewInv, Types, FinishSaved
<1> QED
  BY <1>4, <1>6, <1>7, <1>8, <1>9, StepKeeps

-----------------------------------------------------------------------------
(* The steps of one response.                                              *)

\* The tab goes on with the response, is not on it, or loses it.
LEMMA TabOnOne ==
  ASSUME ViewingAssumption, ViewInv, UNCHANGED turn, NEW s \in Streams, NEW r,
         stream' = [stream EXCEPT ![s] = r],
         \/ tab' = tab /\ (tab.on = s => Follows(tab.last, r, turn))
         \/ tab' = Retry(s)
         \/ tab' = Fail(s)
  PROVE  tab' \in Tab /\ Connected' /\ Shows'
<1>1. turn \in Turn /\ tab \in Tab /\ GoodStreams /\ Connected /\ Shows /\ Grown
  BY TurnStays DEF ViewInv, Types
<1>2. stream'[s] = r /\ \A o \in Streams \ {s} : stream'[o] = stream[o]
  BY <1>1 DEF GoodStreams
<1>3. CASE tab' = tab /\ (tab.on = s => Follows(tab.last, r, turn))
  <2>1. tab.on \in Streams => Follows(tab.last, stream'[tab.on], turn')
    <3>1. CASE tab.on = s
      BY <1>2, <1>3, <3>1
    <3>2. CASE tab.on # s
      BY <1>1, <1>2, <3>2 DEF Connected
    <3> QED
      BY <3>1, <3>2
  <2> QED
    BY <1>1, <1>3, <2>1, TabStays
<1>4. CASE tab.on # s /\ tab' = tab
  BY <1>1, <1>2, <1>4 DEF Connected, Shows
<1>5. CASE tab.on = s /\ (tab' = Retry(s) \/ tab' = Fail(s))
  <2>1. tab.at = "stream"
    BY <1>1, <1>5 DEF Connected
  <2>2. PICK at \in {"stream", "failed"} : tab' = [tab EXCEPT !.at = at, !.on = None]
    <3>1. tab' = Retry(s) => tab' = [tab EXCEPT !.at = "stream", !.on = None]
      BY <1>1, <1>5, <2>1 DEF Retry, Tab
    <3> QED
      BY <1>5, <3>1 DEF Fail
  <2>3. /\ tab' \in Tab /\ tab'.at = at /\ tab'.on = None /\ tab'.last = tab.last /\ tab'.cursor = tab.cursor
        /\ tab'.shown = tab.shown /\ tab'.returned = tab.returned
    BY <1>1, <2>2 DEF Tab
  <2> QED
    BY <1>1, <2>1, <2>3 DEF Connected, Shows, ViewingAssumption
<1> QED
  BY <1>3, <1>4, <1>5 DEF Retry, Fail

LEMMA OneKeeps ==
  ASSUME ViewingAssumption, ViewInv, UNCHANGED <<kept, turn, worker>>, NEW s \in Streams,
         NEW r, Good(r, turn), stream' = [stream EXCEPT ![s] = r],
         tab' \in Tab, Connected', Shows',
         owned' \in [Workers -> Nat], PlacesCounted', upsets' \in Nat
  PROVE  ViewInv'
<1>1. turn \in Turn /\ GoodStreams /\ Grown
  BY TurnStays DEF ViewInv, Types
<1>2. GoodStreams'
  BY <1>1, OneStream
<1>3. Types' /\ Told(turn') /\ Committed'
  BY DEF ViewInv, Types, Committed, Told
<1> QED
  BY <1>2, <1>3 DEF ViewInv

\* A response that keeps its place, or has none still.
LEMMA SameKeeps ==
  ASSUME ViewingAssumption, ViewInv, UNCHANGED <<kept, turn, worker, owned>>, NEW s \in Streams,
         NEW r, Good(r, turn), stream' = [stream EXCEPT ![s] = r],
         r.held = stream[s].held, r.worker = stream[s].worker,
         \/ tab' = tab /\ (tab.on = s => Follows(tab.last, r, turn))
         \/ tab' = Retry(s)
         \/ tab' = Fail(s),
         upsets' \in Nat
  PROVE  ViewInv'
<1>1. tab' \in Tab /\ Connected' /\ Shows'
  BY TabOnOne
<1>2. \A o \in Streams : stream'[o].held = stream[o].held /\ stream'[o].worker = stream[o].worker
  BY DEF ViewInv, GoodStreams
<1>3. PlacesCounted'
  BY <1>2, PlacesStay DEF ViewInv
<1>4. owned' \in [Workers -> Nat]
  BY DEF ViewInv, Types
<1> QED
  BY <1>1, <1>3, <1>4, OneKeeps

LEMMA ReleaseKeeps ==
  ASSUME ViewingAssumption, ViewInv, UNCHANGED <<kept, turn, worker, upsets>>, NEW s \in Streams,
         NEW r, Good(r, turn), stream' = [stream EXCEPT ![s] = r], r.held = FALSE, Release(s),
         \/ tab' = tab /\ (tab.on = s => Follows(tab.last, r, turn))
         \/ tab' = Retry(s)
         \/ tab' = Fail(s)
  PROVE  ViewInv'
<1>1. tab' \in Tab /\ Connected' /\ Shows'
  BY TabOnOne
<1>2. owned \in [Workers -> Nat] /\ GoodStreams /\ PlacesCounted
  BY DEF ViewInv, Types
<1>3. /\ stream'[s].held = FALSE
      /\ \A o \in Streams \ {s} : stream'[o].held = stream[o].held /\ stream'[o].worker = stream[o].worker
  BY <1>2 DEF GoodStreams
<1>4. owned' \in [Workers -> Nat] /\ PlacesCounted'
  BY <1>2, <1>3, Released
<1>5. upsets' \in Nat
  BY DEF ViewInv, Types
<1> QED
  BY <1>1, <1>4, <1>5, OneKeeps

LEMMA VacantGood ==
  ASSUME ViewingAssumption, NEW x
  PROVE  Good(Vacant, x) /\ Vacant.held = FALSE /\ Vacant \in Response
<1>1. Vacant \in Response
  BY DEF Vacant, Response, ViewingAssumption
<1> QED
  BY <1>1 DEF Vacant, Good

LEMMA ServedIs ==
  ASSUME ViewingAssumption, ViewInv, NEW s \in Streams
  PROVE  /\ turn \in Turn /\ Told(turn) /\ turn.saved \in 0 .. MaxEvents /\ turn.saved \in Nat
         /\ Reaches(turn, turn) /\ tab \in Tab /\ tab.last \in Nat /\ owned \in [Workers -> Nat]
         /\ upsets \in Nat
         /\ stream[s] \in Response /\ Good(stream[s], turn)
         /\ tab.on = s => tab.at = "stream" /\ Follows(tab.last, stream[s], turn)
<1>1. turn \in Turn /\ Told(turn) /\ tab \in Tab /\ owned \in [Workers -> Nat] /\ upsets \in Nat
  BY DEF ViewInv, Types
<1>2. turn.saved \in 0 .. MaxEvents /\ turn.saved \in Nat /\ Reaches(turn, turn) /\ tab.last \in Nat
  BY <1>1, TurnNat DEF Reaches, Tab
<1>3. stream[s] \in Response /\ Good(stream[s], turn)
  BY DEF ViewInv, GoodStreams
<1>4. tab.on = s => tab.at = "stream" /\ Follows(tab.last, stream[s], turn)
  BY DEF ViewInv, Connected
<1> QED
  BY <1>1, <1>2, <1>3, <1>4

LEMMA FindKeeps ==
  ASSUME ViewingAssumption, ViewInv, NEW s \in Streams, Find(s)
  PROVE  ViewInv'
<1>1. /\ turn \in Turn /\ Told(turn) /\ upsets \in Nat
      /\ stream[s] \in Response /\ Good(stream[s], turn) /\ tab.last \in Nat
      /\ tab.on = s => Follows(tab.last, stream[s], turn)
  BY ServedIs
<1>2. UNCHANGED <<kept, turn, worker, upsets>> /\ stream[s].at = "finding"
  BY DEF Find
<1>3. CASE turn.exists /\ (kept => worker[stream[s].worker] = "up")
  <2>1. stream' = [stream EXCEPT ![s].at = "found", ![s].read = Snapshot(turn)] /\ UNCHANGED <<owned, tab>>
    BY <1>3 DEF Find
  <2>2. PICK r : r = [stream[s] EXCEPT !.at = "found", !.read = Snapshot(turn)]
    OBVIOUS
  <2>3. "found" \in {stream[s].at, "found"} /\ stream[s].at \in {"finding", "streaming"}
    BY <1>2
  <2>4. Good(r, turn) /\ \A b \in Nat : Follows(b, stream[s], turn) => Follows(b, r, turn)
    BY <1>1, <2>2, <2>3, ReadsGood
  <2>5. r.held = stream[s].held /\ r.worker = stream[s].worker
    BY <1>1, <2>2 DEF Response
  <2>6. stream' = [stream EXCEPT ![s] = r]
    BY <2>1, <2>2 DEF ViewInv, GoodStreams
  <2>7. tab' = tab /\ (tab.on = s => Follows(tab.last, r, turn))
    BY <1>1, <2>1, <2>4
  <2>8. upsets' \in Nat
    BY <1>1, <1>2
  <2> QED
    BY <1>2, <2>1, <2>4, <2>5, <2>6, <2>7, <2>8, SameKeeps
<1>4. CASE ~(turn.exists /\ (kept => worker[stream[s].worker] = "up"))
  <2>1. stream' = [stream EXCEPT ![s] = Vacant] /\ tab' = Fail(s) /\ Release(s)
    BY <1>4 DEF Find
  <2> QED
    BY <1>2, <2>1, VacantGood, ReleaseKeeps
<1> QED
  BY <1>3, <1>4

LEMMA SubscribeKeeps ==
  ASSUME ViewingAssumption, ViewInv, NEW s \in Streams, Subscribe(s)
  PROVE  ViewInv'
<1>1. /\ turn \in Turn /\ Told(turn) /\ upsets \in Nat /\ turn.saved \in 0 .. MaxEvents /\ turn.saved \in Nat
      /\ stream[s] \in Response /\ Good(stream[s], turn) /\ tab.last \in Nat /\ Reaches(turn, turn)
      /\ tab.on = s => Follows(tab.last, stream[s], turn)
  BY ServedIs
<1>2. UNCHANGED <<kept, turn, worker, tab, upsets>> /\ stream[s].at = "found"
  BY DEF Subscribe
<1>3. CASE stream[s].destroyed
  <2>1. stream' = [stream EXCEPT ![s] = Vacant] /\ Release(s)
    BY <1>3 DEF Subscribe
  <2>2. tab' = tab /\ tab.on # s
    BY <1>1, <1>2, <1>3 DEF Good, Follows
  <2> QED
    BY <1>2, <2>1, <2>2, VacantGood, ReleaseKeeps
<1>4. CASE ~stream[s].destroyed
  <2>1. PICK r : r = [stream[s] EXCEPT !.at = "streaming", !.read = None]
    OBVIOUS
  <2>2. /\ r \in Response /\ r.at = "streaming" /\ r.read = None /\ r.held = stream[s].held
        /\ r.destroyed = stream[s].destroyed /\ r.gone = stream[s].gone /\ r.worker = stream[s].worker
        /\ r.last = stream[s].last /\ r.wire = stream[s].wire
    BY <1>1, <2>1 DEF Response
  <2>3. Good(r, turn)
    BY <1>1, <2>2 DEF Good
  <2>4. \A b \in Nat : Follows(b, stream[s], turn) => Follows(b, r, turn)
    BY <2>2 DEF Follows, Carries
  <2>5. PICK x : x = IF kept THEN stream[s].read ELSE turn
    OBVIOUS
  <2>6. x.saved \in 0 .. MaxEvents /\ Told(x) /\ Reaches(x, turn)
    BY <1>1, <1>2, <2>5 DEF Good, Seen
  <2>7. PICK q : q = Written(r, x)
    OBVIOUS
  <2>8. /\ Good(q, turn) /\ q.held = r.held /\ q.worker = r.worker
        /\ \A b \in Nat : Follows(b, r, turn) => Follows(b, q, turn)
    BY <1>1, <2>3, <2>6, <2>7, WrittenGood
  <2>9. PICK v \in {r, q} : stream' = [stream EXCEPT ![s] = v]
    BY <1>4, <2>1, <2>5, <2>7 DEF Subscribe
  <2>10. Good(v, turn) /\ v.held = stream[s].held /\ v.worker = stream[s].worker
         /\ (tab.on = s => Follows(tab.last, v, turn))
    BY <1>1, <2>2, <2>3, <2>4, <2>8, <2>9
  <2>11. owned' = owned /\ tab' = tab /\ upsets' \in Nat
    BY <1>1, <1>2, <1>4 DEF Subscribe
  <2> QED
    BY <1>2, <2>9, <2>10, <2>11, SameKeeps
<1> QED
  BY <1>3, <1>4

LEMMA PollKeeps ==
  ASSUME ViewingAssumption, ViewInv, NEW s \in Streams, Poll(s)
  PROVE  ViewInv'
<1>1. /\ turn \in Turn /\ Told(turn) /\ upsets \in Nat
      /\ stream[s] \in Response /\ Good(stream[s], turn) /\ tab.last \in Nat
      /\ tab.on = s => Follows(tab.last, stream[s], turn)
  BY ServedIs
<1>2. UNCHANGED <<kept, turn, worker, upsets>> /\ stream[s].at = "streaming"
  BY DEF Poll, Live
<1>3. CASE worker[stream[s].worker] = "up"
  <2>1. stream' = [stream EXCEPT ![s].read = Snapshot(turn)] /\ UNCHANGED <<owned, tab>>
    BY <1>3 DEF Poll
  <2>2. PICK r : r = [stream[s] EXCEPT !.at = stream[s].at, !.read = Snapshot(turn)]
    OBVIOUS
  <2>3. stream[s].at \in {stream[s].at, "found"} /\ stream[s].at \in {"finding", "streaming"}
    BY <1>2
  <2>4. Good(r, turn) /\ \A b \in Nat : Follows(b, stream[s], turn) => Follows(b, r, turn)
    BY <1>1, <2>2, <2>3, ReadsGood
  <2>5. r.held = stream[s].held /\ r.worker = stream[s].worker /\ r = [stream[s] EXCEPT !.read = Snapshot(turn)]
    BY <1>1, <2>2 DEF Response
  <2>6. stream' = [stream EXCEPT ![s] = r]
    BY <2>1, <2>5 DEF ViewInv, GoodStreams
  <2>7. tab' = tab /\ (tab.on = s => Follows(tab.last, r, turn))
    BY <1>1, <2>1, <2>4
  <2>8. upsets' \in Nat
    BY <1>1, <1>2
  <2> QED
    BY <1>2, <2>1, <2>4, <2>5, <2>6, <2>7, <2>8, SameKeeps
<1>4. CASE worker[stream[s].worker] # "up"
  <2>1. stream' = [stream EXCEPT ![s] = Vacant] /\ tab' = Retry(s) /\ Release(s)
    BY <1>4 DEF Poll
  <2> QED
    BY <1>2, <2>1, VacantGood, ReleaseKeeps
<1> QED
  BY <1>3, <1>4

LEMMA RefreshKeeps ==
  ASSUME ViewingAssumption, ViewInv, NEW s \in Streams, Refresh(s)
  PROVE  ViewInv'
<1>1. /\ turn \in Turn /\ Told(turn) /\ upsets \in Nat /\ turn.saved \in Nat
      /\ stream[s] \in Response /\ Good(stream[s], turn) /\ tab.last \in Nat
      /\ tab.on = s => Follows(tab.last, stream[s], turn)
  BY ServedIs
<1>2. /\ UNCHANGED <<kept, turn, worker, owned, tab, upsets>>
      /\ stream[s].at = "streaming" /\ stream[s].read # None
  BY DEF Refresh, Live
<1>3. PICK x \in Seen : x = stream[s].read /\ Told(x) /\ Reaches(x, turn)
  BY <1>1, <1>2 DEF Good
<1>4. PICK r : r = [stream[s] EXCEPT !.read = None]
  OBVIOUS
<1>5. /\ r \in Response /\ r.at = "streaming" /\ r.read = None /\ r.held = stream[s].held
      /\ r.destroyed = stream[s].destroyed /\ r.gone = stream[s].gone /\ r.worker = stream[s].worker
      /\ r.last = stream[s].last /\ r.wire = stream[s].wire
  BY <1>1, <1>2, <1>4 DEF Response
<1>6. Good(r, turn) /\ \A b \in Nat : Follows(b, stream[s], turn) => Follows(b, r, turn)
  BY <1>1, <1>5 DEF Good, Follows, Carries
<1>7. PICK q : q = Written(r, x)
  OBVIOUS
<1>8. x.saved \in 0 .. MaxEvents
  BY DEF Seen
<1>9. /\ Good(q, turn) /\ q.held = r.held /\ q.worker = r.worker
      /\ \A b \in Nat : Follows(b, r, turn) => Follows(b, q, turn)
  BY <1>1, <1>3, <1>6, <1>7, <1>8, WrittenGood
<1>10. PICK e : e = [r EXCEPT !.ended = TRUE]
  OBVIOUS
<1>11. /\ e \in Response /\ e.at = r.at /\ e.read = r.read /\ e.held = r.held
       /\ e.destroyed = r.destroyed /\ e.gone = r.gone /\ e.worker = r.worker
       /\ e.last = r.last /\ e.wire = r.wire
  BY <1>5, <1>10 DEF Response
<1>12. Good(e, turn) /\ \A b \in Nat : Follows(b, r, turn) => Follows(b, e, turn)
  BY <1>5, <1>6, <1>11 DEF Good, Follows, Carries
<1>13. PICK v \in {q, e} : stream' = [stream EXCEPT ![s] = v]
  BY <1>3, <1>4, <1>7, <1>10 DEF Refresh
<1>14. Good(v, turn) /\ v.held = stream[s].held /\ v.worker = stream[s].worker
       /\ (tab.on = s => Follows(tab.last, v, turn))
  BY <1>1, <1>5, <1>6, <1>9, <1>11, <1>12, <1>13
<1>15. tab' = tab /\ upsets' \in Nat
  BY <1>1, <1>2
<1> QED
  BY <1>2, <1>13, <1>14, <1>15, SameKeeps

LEMMA FinishedKeeps ==
  ASSUME ViewingAssumption, ViewInv, NEW s \in Streams, Finished(s)
  PROVE  ViewInv'
<1>1. /\ stream[s] \in Response /\ Good(stream[s], turn)
      /\ tab.on = s => Follows(tab.last, stream[s], turn)
  BY ServedIs
<1>2. PICK r : r = [stream[s] EXCEPT !.held = FALSE]
  OBVIOUS
<1>3. /\ r \in Response /\ r.at = stream[s].at /\ r.read = stream[s].read /\ r.held = FALSE
      /\ r.destroyed = stream[s].destroyed /\ r.gone = stream[s].gone
      /\ r.last = stream[s].last /\ r.wire = stream[s].wire
  BY <1>1, <1>2 DEF Response
<1>4. Good(r, turn) /\ (tab.on = s => Follows(tab.last, r, turn))
  BY <1>1, <1>3 DEF Good, Follows, Carries
<1>5. stream' = [stream EXCEPT ![s] = r]
  BY <1>2 DEF Finished
<1>6. UNCHANGED <<kept, turn, worker, tab, upsets>> /\ Release(s)
  BY DEF Finished
<1> QED
  BY <1>3, <1>4, <1>5, <1>6, ReleaseKeeps

LEMMA ClosedKeeps ==
  ASSUME ViewingAssumption, ViewInv, NEW s \in Streams, Closed(s)
  PROVE  ViewInv'
<1>1. /\ stream[s] \in Response /\ Good(stream[s], turn)
      /\ tab.on = s => Follows(tab.last, stream[s], turn)
  BY ServedIs
<1>2. UNCHANGED <<kept, turn, worker, tab, upsets>> /\ Release(s) /\ stream[s].gone
  BY DEF Closed
<1>3. tab' = tab /\ tab.on # s
  BY <1>1, <1>2 DEF Follows
<1>4. PICK r : r = [stream[s] EXCEPT !.destroyed = TRUE, !.held = FALSE]
  OBVIOUS
<1>5. /\ r \in Response /\ r.at = stream[s].at /\ r.read = stream[s].read /\ r.held = FALSE
      /\ r.gone = stream[s].gone
  BY <1>1, <1>4 DEF Response
<1>6. Good(r, turn)
  BY <1>1, <1>2, <1>5 DEF Good
<1>7. PICK v \in {r, Vacant} : stream' = [stream EXCEPT ![s] = v]
  BY <1>4 DEF Closed
<1>8. Good(v, turn) /\ v.held = FALSE
  BY <1>5, <1>6, <1>7, VacantGood
<1> QED
  BY <1>2, <1>3, <1>7, <1>8, ReleaseKeeps

LEMMA ArriveKeeps ==
  ASSUME ViewingAssumption, ViewInv, NEW s \in Streams, NEW w \in Workers, Arrive(s, w)
  PROVE  ViewInv'
<1>1. /\ stream[s] \in Response /\ Good(stream[s], turn) /\ owned \in [Workers -> Nat] /\ upsets \in Nat
      /\ tab.on = s => Follows(tab.last, stream[s], turn)
  BY ServedIs
<1>2. UNCHANGED <<kept, turn, worker, upsets>> /\ stream[s].at = "arriving" /\ upsets' \in Nat
  BY <1>1 DEF Arrive
<1>3. stream[s].held = FALSE
  BY <1>1, <1>2 DEF Good, Response
<1>4. GoodStreams /\ PlacesCounted
  BY DEF ViewInv
<1>5. CASE MayReserve(s, w)
  <2>1. /\ owned' = [owned EXCEPT ![w] = @ + 1] /\ tab' = tab
        /\ stream' = [stream EXCEPT ![s].at = "finding", ![s].worker = w, ![s].held = TRUE]
    BY <1>5 DEF Arrive
  <2>2. PICK r : r = [stream[s] EXCEPT !.at = "finding", !.worker = w, !.held = TRUE]
    OBVIOUS
  <2>3. /\ r \in Response /\ r.at = "finding" /\ r.worker = w /\ r.held = TRUE /\ r.read = stream[s].read
        /\ r.destroyed = stream[s].destroyed /\ r.gone = stream[s].gone
        /\ r.last = stream[s].last /\ r.wire = stream[s].wire
    BY <1>1, <2>2 DEF Response
  <2>4. Good(r, turn) /\ (tab.on = s => Follows(tab.last, r, turn))
    BY <1>1, <2>3 DEF Good, Follows, Carries
  <2>5. stream' = [stream EXCEPT ![s] = r]
    BY <1>4, <2>1, <2>2 DEF GoodStreams
  <2>6. tab' \in Tab /\ Connected' /\ Shows'
    BY <1>2, <2>1, <2>4, <2>5, TabOnOne
  <2>7. stream'[s] = r /\ \A o \in Streams \ {s} : stream'[o] = stream[o]
    BY <1>4, <2>5 DEF GoodStreams
  <2>8. Held(w)' = Held(w) \cup {s} /\ s \notin Held(w) /\ \A v \in Workers \ {w} : Held(v)' = Held(v)
    BY <1>3, <2>3, <2>7 DEF Held
  <2>9. IsFiniteSet(Held(w)) /\ owned[w] = Cardinality(Held(w)) /\ owned[w] < MaxStreams /\ MaxStreams \in Nat
    BY <1>4, <1>5 DEF PlacesCounted, MayReserve, ViewingAssumption
  <2>10. IsFiniteSet(Held(w)') /\ Cardinality(Held(w)') = owned[w] + 1
    BY <2>8, <2>9, FS_AddElement
  <2>11. owned' \in [Workers -> Nat] /\ owned'[w] = owned[w] + 1 /\ \A v \in Workers \ {w} : owned'[v] = owned[v]
    BY <1>1, <2>1
  <2>12. owned[w] + 1 <= MaxStreams
    BY <1>1, <2>9
  <2>13. ASSUME NEW v \in Workers
         PROVE  IsFiniteSet(Held(v)') /\ owned'[v] = Cardinality(Held(v)') /\ owned'[v] <= MaxStreams
    <3>1. CASE v = w
      BY <2>10, <2>11, <2>12, <3>1
    <3>2. CASE v # w
      BY <1>4, <2>8, <2>11, <3>2 DEF PlacesCounted
    <3> QED
      BY <3>1, <3>2
  <2>14. PlacesCounted'
    BY <2>13 DEF PlacesCounted
  <2> QED
    BY <1>2, <2>4, <2>5, <2>6, <2>11, <2>14, OneKeeps
<1>6. CASE ~MayReserve(s, w)
  <2>1. stream' = [stream EXCEPT ![s] = Vacant] /\ tab' = Fail(s) /\ owned' = owned
    BY <1>6 DEF Arrive
  <2>2. tab' \in Tab /\ Connected' /\ Shows'
    BY <1>2, <2>1, TabOnOne
  <2>3. stream'[s] = Vacant /\ \A o \in Streams \ {s} : stream'[o] = stream[o]
    BY <1>4, <2>1 DEF GoodStreams
  <2>4. \A o \in Streams : /\ stream'[o].held = stream[o].held
                           /\ stream[o].held => stream'[o].worker = stream[o].worker
    BY <1>3, <2>3, VacantGood
  <2>5. PlacesCounted'
    BY <1>4, <2>1, <2>4, PlacesStay
  <2> QED
    BY <1>1, <1>2, <2>1, <2>2, <2>5, VacantGood, OneKeeps
<1> QED
  BY <1>5, <1>6

-----------------------------------------------------------------------------
(* The browser's steps.                                                    *)

LEMMA LeftGood ==
  ASSUME NEW r, NEW x, Good(r, x)
  PROVE  Good(Left(r), x) /\ Left(r).held = r.held /\ Left(r).worker = r.worker
<1>1. r \in Response
  BY DEF Good
<1>2. PICK n \in Seen \cup {None} : n = IF r.at = "found" THEN r.read ELSE None
  BY <1>1 DEF Response
<1>3. PICK q : q = Left(r)
  OBVIOUS
<1>4. q = [r EXCEPT !.gone = TRUE, !.wire = <<>>, !.last = 0, !.read = n]
  BY <1>1, <1>2, <1>3 DEF Left, Response
<1>5. /\ q \in Response /\ q.gone = TRUE /\ q.read = n /\ q.at = r.at /\ q.held = r.held
      /\ q.worker = r.worker /\ q.destroyed = r.destroyed
  <2>1. <<>> \in Seq(Sent)
    OBVIOUS
  <2> QED
    BY <1>1, <1>2, <1>4, <2>1 DEF Response
<1>6. Good(q, x)
  BY <1>2, <1>5 DEF Good
<1> QED
  BY <1>3, <1>5, <1>6

LEMMA LosesKeeps ==
  ASSUME ViewingAssumption, ViewInv, NEW s \in Streams, Ended(s) \/ Break(s)
  PROVE  ViewInv'
<1>1. Good(stream[s], turn) /\ upsets \in Nat
  BY ServedIs
<1>2. /\ UNCHANGED <<kept, turn, worker, owned>> /\ upsets' \in Nat
      /\ tab' = Retry(s) /\ stream' = [stream EXCEPT ![s] = Left(stream[s])]
  BY <1>1 DEF Ended, Break, Upset
<1>3. PICK r : r = Left(stream[s])
  OBVIOUS
<1>4. Good(r, turn) /\ r.held = stream[s].held /\ r.worker = stream[s].worker
  BY <1>1, <1>3, LeftGood
<1> QED
  BY <1>2, <1>3, <1>4, SameKeeps

\* A step of the tab.
LEMMA TabKeeps ==
  ASSUME ViewingAssumption, ViewInv, UNCHANGED <<kept, turn, worker, owned>>, upsets' \in Nat,
         GoodStreams', tab' \in Tab, Connected', Shows',
         \A s \in Streams : stream'[s].held = stream[s].held /\ (stream[s].held => stream'[s].worker = stream[s].worker)
  PROVE  ViewInv'
<1>1. PlacesCounted'
  BY PlacesStay DEF ViewInv
<1>2. Types' /\ Told(turn') /\ Committed'
  BY DEF ViewInv, Types, Committed, Told
<1> QED
  BY <1>1, <1>2 DEF ViewInv

LEMMA TabAloneKeeps ==
  ASSUME ViewingAssumption, ViewInv, UNCHANGED <<kept, turn, worker, stream, owned, upsets>>,
         tab' \in Tab, Connected', Shows'
  PROVE  ViewInv'
<1>1. turn \in Turn /\ GoodStreams /\ Grown /\ upsets' \in Nat
  BY TurnStays DEF ViewInv, Types
<1>2. GoodStreams'
  BY <1>1, StreamsStay
<1> QED
  BY <1>1, <1>2, TabKeeps

\* A tab that shows nothing, or no more than it did, without a connection.
LEMMA DoneKeeps ==
  ASSUME ViewingAssumption, ViewInv, UNCHANGED turn, NEW at \in {"answered", "stopped"},
         NEW shown \in {tab.shown, <<>>}, tab' = Done([tab EXCEPT !.shown = shown], at)
  PROVE  tab' \in Tab /\ Connected' /\ Shows'
<1>1. tab \in Tab /\ turn \in Turn /\ Shows
  BY DEF ViewInv, Types
<1>2. shown \in Seq(Sent)
  <2>1. <<>> \in Seq(Sent)
    OBVIOUS
  <2> QED
    BY <1>1, <2>1 DEF Tab
<1>3. /\ tab' \in Tab /\ tab'.at = at /\ tab'.on = None /\ tab'.shown = shown
      /\ tab'.returned = tab.returned
  BY <1>1, <1>2 DEF Done, Tab
<1>4. Connected'
  BY <1>3 DEF Connected, ViewingAssumption
<1>5. ~tab.returned => Len(shown) <= Size(turn) /\ \A i \in 1 .. Len(shown) : shown[i] = Item(turn, i)
  <2>1. CASE shown = tab.shown
    BY <1>1, <2>1 DEF Shows
  <2>2. CASE shown = <<>>
    <3>1. Len(shown) = 0 /\ Size(turn) \in Nat
      BY <1>1, <2>2, TurnNat
    <3> QED
      BY <3>1
  <2> QED
    BY <2>1, <2>2
<1>6. tab'.at \notin {"stream", "failed"}
  BY <1>3
<1>7. Shows'
  BY <1>3, <1>5, <1>6 DEF Shows
<1> QED
  BY <1>3, <1>4, <1>7

LEMMA RecoveryKeeps ==
  ASSUME ViewingAssumption, ViewInv, Recovery
  PROVE  ViewInv'
<1>1. tab \in Tab /\ turn \in Turn /\ Shows /\ Connected
  BY DEF ViewInv, Types
<1>2. UNCHANGED <<kept, turn, worker, stream, owned, upsets>> /\ tab.at = "failed"
  BY DEF Recovery
<1>3. tab.on = None
  BY <1>1, <1>2 DEF Connected, Tab
<1>4. CASE \E at \in {"answered", "stopped"} : tab' = Done(tab, at)
  <2>1. PICK at \in {"answered", "stopped"} : tab' = Done(tab, at)
    BY <1>4
  <2>2. tab = [tab EXCEPT !.shown = tab.shown]
    BY <1>1 DEF Tab
  <2>3. tab' \in Tab /\ Connected' /\ Shows'
    BY <1>2, <2>1, <2>2, DoneKeeps
  <2> QED
    BY <1>2, <2>3, TabAloneKeeps
<1>5. CASE tab' = [tab EXCEPT !.at = "stream", !.last = 0, !.tries = @ + 1]
  <2>1. /\ tab' \in Tab /\ tab'.at = "stream" /\ tab'.on = None /\ tab'.last = 0 /\ tab'.cursor = tab.cursor
        /\ tab'.shown = tab.shown /\ tab'.returned = tab.returned
    <3>1. PICK n \in Nat : n = tab.tries + 1
      BY <1>1 DEF Tab
    <3>2. tab' = [tab EXCEPT !.at = "stream", !.last = 0, !.tries = n]
      BY <1>1, <1>5, <3>1 DEF Tab
    <3> QED
      BY <1>1, <1>3, <3>2 DEF Tab
  <2>2. 0 <= tab.cursor /\ 0 <= Size(turn)
    BY <1>1, TurnNat DEF Tab
  <2>3. Connected' /\ Shows'
    BY <1>1, <1>2, <2>1, <2>2 DEF Connected, Shows, ViewingAssumption
  <2> QED
    BY <1>2, <2>1, <2>3, TabAloneKeeps
<1> QED
  BY <1>4, <1>5 DEF Recovery

LEMMA OpenKeeps ==
  ASSUME ViewingAssumption, ViewInv, Reload \/ Return
  PROVE  ViewInv'
<1>1. tab \in Tab /\ turn \in Turn /\ Shows /\ Connected /\ Size(turn) \in Nat
  BY TurnNat DEF ViewInv, Types
<1>2. PICK cursor \in Nat, returned \in BOOLEAN :
        Open(cursor, returned) /\ (~returned => cursor = 0)
  <2>1. CASE Reload
    <3>1. Open(0, FALSE)
      BY <2>1 DEF Reload
    <3> QED
      BY <3>1
  <2>2. CASE Return
    <3>1. PICK returned \in BOOLEAN :
            returned = (tab.cursor > 0 \/ tab.returned) /\ (returned <=> (tab.cursor > 0 \/ tab.returned))
      OBVIOUS
    <3>2. Open(tab.cursor, returned)
      BY <2>2, <3>1 DEF Return
    <3>3. tab.cursor \in Nat /\ (~returned => tab.cursor = 0)
      BY <1>1, <3>1 DEF Tab
    <3> QED
      BY <3>2, <3>3
  <2> QED
    BY <2>1, <2>2
<1>3. UNCHANGED <<kept, turn, worker, stream, owned, upsets>> /\ tab.at = "away"
  BY <1>2 DEF Open
<1>4. tab.on = None
  BY <1>1, <1>3 DEF Connected, Tab
<1>5. CASE turn.status \in Final
  <2>1. tab' = Done([tab EXCEPT !.shown = <<>>], "answered")
    BY <1>2, <1>5 DEF Open
  <2>2. tab' \in Tab /\ Connected' /\ Shows'
    BY <1>3, <2>1, DoneKeeps
  <2> QED
    BY <1>3, <2>2, TabAloneKeeps
<1>6. CASE turn.status \notin Final
  <2>1. tab' = [tab EXCEPT !.at = "stream", !.last = 0, !.cursor = cursor, !.shown = <<>>,
                           !.tries = 0, !.returned = returned]
    BY <1>2, <1>6 DEF Open
  <2>2. PICK shown \in Seq(Sent) : shown = <<>>
    <3>1. <<>> \in Seq(Sent)
      OBVIOUS
    <3> QED
      BY <3>1
  <2>3. /\ tab' \in Tab /\ tab'.at = "stream" /\ tab'.on = None /\ tab'.last = 0 /\ tab'.cursor = cursor
        /\ tab'.shown = shown /\ tab'.returned = returned
    BY <1>1, <1>4, <2>1, <2>2 DEF Tab
  <2>4. Len(shown) = 0
    BY <2>2
  <2>5. Connected'
    BY <2>3 DEF Connected, ViewingAssumption
  <2>6. Shows'
    BY <1>1, <1>2, <1>3, <2>3, <2>4 DEF Shows
  <2> QED
    BY <1>3, <2>3, <2>5, <2>6, TabAloneKeeps
<1> QED
  BY <1>5, <1>6

LEMMA LeaveKeeps ==
  ASSUME ViewingAssumption, ViewInv, Leave
  PROVE  ViewInv'
<1>1. tab \in Tab /\ turn \in Turn /\ Shows /\ GoodStreams /\ upsets \in Nat
  BY DEF ViewInv, Types
<1>2. /\ UNCHANGED <<kept, turn, worker, owned>> /\ upsets' \in Nat
      /\ tab' = [tab EXCEPT !.at = "away", !.on = None]
  BY <1>1 DEF Leave, Upset
<1>3. /\ tab' \in Tab /\ tab'.at = "away" /\ tab'.on = None /\ tab'.shown = tab.shown
      /\ tab'.returned = tab.returned
  BY <1>1, <1>2 DEF Tab
<1>4. Connected' /\ Shows'
  BY <1>1, <1>2, <1>3 DEF Connected, Shows, ViewingAssumption
<1>5. ASSUME NEW s \in Streams
      PROVE  Good(stream'[s], turn') /\ stream'[s].held = stream[s].held /\ stream'[s].worker = stream[s].worker
  <2>1. stream'[s] = IF tab.on = s THEN Left(stream[s]) ELSE stream[s]
    BY DEF Leave, Drop
  <2>2. Good(stream[s], turn)
    BY <1>1 DEF GoodStreams
  <2> QED
    BY <1>2, <2>1, <2>2, LeftGood
<1>6. GoodStreams'
  <2>1. stream' = [s \in Streams |-> stream'[s]]
    BY DEF Leave, Drop
  <2>2. \A s \in Streams : stream'[s] \in Response
    BY <1>5 DEF Good
  <2> QED
    BY <1>5, <2>1, <2>2 DEF GoodStreams
<1> QED
  BY <1>2, <1>3, <1>4, <1>5, <1>6, TabKeeps

LEMMA ConnectKeeps ==
  ASSUME ViewingAssumption, ViewInv, Connect
  PROVE  ViewInv'
<1>1. tab \in Tab /\ turn \in Turn /\ Shows /\ GoodStreams /\ Size(turn) \in Nat /\ Grown
  BY TurnNat, TurnStays DEF ViewInv, Types, Connect
<1>2. PICK s \in Streams :
        /\ stream[s].at = "free"
        /\ stream' = [stream EXCEPT ![s] = [Vacant EXCEPT !.at = "arriving", !.last = tab.last]]
        /\ tab' = [tab EXCEPT !.on = s]
  <2>1. Spare # {}
    BY DEF Connect
  <2>2. PICK s : s = CHOOSE o \in Spare : TRUE
    OBVIOUS
  <2>3. s \in Spare
    BY <2>1, <2>2
  <2> QED
    BY <2>2, <2>3 DEF Connect, Spare
<1>3. UNCHANGED <<kept, turn, worker, owned, upsets>> /\ tab.at = "stream" /\ upsets' \in Nat
  BY DEF Connect, ViewInv, Types
<1>4. PICK r : r = [Vacant EXCEPT !.at = "arriving", !.last = tab.last]
  OBVIOUS
<1>5. /\ r \in Response /\ r.at = "arriving" /\ r.last = tab.last /\ r.read = None /\ r.wire = <<>>
      /\ r.held = FALSE /\ r.destroyed = FALSE /\ r.gone = FALSE
  <2>1. Vacant \in Response /\ tab.last \in Nat
    BY <1>1, VacantGood DEF Tab
  <2>2. r \in Response
    BY <1>4, <2>1 DEF Response
  <2> QED
    BY <1>4, <2>2 DEF Vacant
<1>6. Good(r, turn') /\ Good(r, turn)
  BY <1>5 DEF Good
<1>7. GoodStreams' /\ stream'[s] = r /\ \A o \in Streams \ {s} : stream'[o] = stream[o]
  BY <1>1, <1>2, <1>4, <1>6, OneStream
<1>8. Follows(tab.last, r, turn)
  <2>1. tab.last \in Nat /\ tab.last <= Size(turn)
    BY <1>1, <1>3 DEF Shows, Tab
  <2>2. Len(r.wire) = 0
    BY <1>5
  <2>3. Carries(r, tab.last, turn)
    BY <1>5, <2>1, <2>2 DEF Carries
  <2> QED
    BY <1>5, <2>3 DEF Follows
<1>9. /\ tab' \in Tab /\ tab'.at = "stream" /\ tab'.on = s /\ tab'.last = tab.last /\ tab'.cursor = tab.cursor
      /\ tab'.shown = tab.shown /\ tab'.returned = tab.returned
  BY <1>1, <1>2, <1>3 DEF Tab
<1>10. Connected' /\ Shows'
  BY <1>1, <1>3, <1>7, <1>8, <1>9 DEF Connected, Shows
<1>11. stream[s].held = FALSE
  BY <1>1, <1>2 DEF GoodStreams, Good, Response
<1>12. \A o \in Streams : stream'[o].held = stream[o].held /\ (stream[o].held => stream'[o].worker = stream[o].worker)
  BY <1>5, <1>7, <1>11
<1> QED
  BY <1>3, <1>7, <1>9, <1>10, <1>12, TabKeeps

\* The tab takes the event after the last one it had, and shows it unless it has shown it.
LEMMA ReceiveKeeps ==
  ASSUME ViewingAssumption, ViewInv, NEW s \in Streams, Receive(s)
  PROVE  ViewInv'
<1>1. tab \in Tab /\ turn \in Turn /\ Shows /\ GoodStreams /\ Size(turn) \in Nat /\ Grown
  BY TurnNat, TurnStays DEF ViewInv, Types, Receive
<1>2. UNCHANGED <<kept, turn, worker, owned, upsets>> /\ tab.on = s /\ upsets' \in Nat
  BY DEF Receive, ViewInv, Types
<1>3. PICK r : r = stream[s]
  OBVIOUS
<1>4. /\ r \in Response /\ Good(r, turn) /\ tab.at = "stream" /\ Follows(tab.last, r, turn)
  BY <1>2, <1>3, ServedIs
<1>5. PICK w \in Seq(Sent), last \in Nat, cursor \in Nat, end \in Nat, m \in Nat :
        w = r.wire /\ last = tab.last /\ cursor = tab.cursor /\ end = r.last /\ m = Size(turn)
  BY <1>1, <1>4 DEF Tab, Response
<1>6. /\ w # <<>> /\ Len(w) = end - last /\ end <= m /\ last <= cursor
      /\ \A i \in 1 .. Len(w) : w[i] = Item(turn, last + i)
  BY <1>1, <1>3, <1>4, <1>5 DEF Receive, Follows, Carries, Shows
<1>7. /\ Head(w) = w[1] /\ Head(w) \in Sent /\ Tail(w) \in Seq(Sent) /\ Len(Tail(w)) = Len(w) - 1
      /\ \A i \in 1 .. Len(w) - 1 : Tail(w)[i] = w[i + 1]
  BY <1>6, HeadTailProperties
<1>8. PICK e \in Sent, v \in Seq(Sent) : e = Head(w) /\ v = Tail(w)
  BY <1>7
<1>9. Len(w) \in Nat /\ 1 \in 1 .. Len(w) /\ last + 1 <= m
  <2>1. Len(w) \in Nat /\ Len(w) # 0
    BY <1>6, EmptySeq
  <2> QED
    BY <1>6, <2>1
<1>10. e = Item(turn, last + 1) /\ e.id = last + 1
  <2>1. e = w[1]
    BY <1>7, <1>8
  <2>2. w[1] = Item(turn, last + 1)
    BY <1>6, <1>9
  <2> QED
    BY <2>1, <2>2 DEF Item, Event
<1>11. Len(v) = end - (last + 1) /\ last + 1 <= end
       /\ \A i \in 1 .. Len(v) : v[i] = Item(turn, (last + 1) + i)
  <2>1. Len(v) = Len(w) - 1 /\ \A i \in 1 .. Len(w) - 1 : v[i] = w[i + 1]
    BY <1>7, <1>8
  <2>2. ASSUME NEW i \in 1 .. Len(w) - 1
        PROVE  v[i] = Item(turn, (last + 1) + i)
    <3>1. i + 1 \in 1 .. Len(w) /\ last + (i + 1) = (last + 1) + i
      BY <1>9
    <3> QED
      BY <1>6, <2>1, <3>1
  <2> QED
    BY <1>6, <1>9, <2>1, <2>2
<1>12. PICK q : q = [r EXCEPT !.wire = v]
  OBVIOUS
<1>13. /\ q \in Response /\ q.at = r.at /\ q.read = r.read /\ q.held = r.held /\ q.worker = r.worker
       /\ q.destroyed = r.destroyed /\ q.gone = r.gone /\ q.last = r.last /\ q.wire = v
  BY <1>4, <1>12 DEF Response
<1>14. Good(q, turn) /\ Follows(last + 1, q, turn)
  <2>1. Good(q, turn)
    BY <1>4, <1>13 DEF Good
  <2>2. Carries(q, last + 1, turn)
    BY <1>5, <1>6, <1>11, <1>13 DEF Carries
  <2> QED
    BY <1>4, <1>13, <2>1, <2>2 DEF Follows
<1>15. Good(Left(r), turn) /\ Left(r).held = r.held /\ Left(r).worker = r.worker
  BY <1>4, LeftGood
<1>16. PICK shown \in Seq(Sent) : shown = tab.shown
  BY <1>1 DEF Tab
<1>17. PICK more \in Seq(Sent) :
         /\ more = Append(shown, e) /\ Len(more) = Len(shown) + 1 /\ more[Len(shown) + 1] = e
         /\ \A i \in 1 .. Len(shown) : more[i] = shown[i]
  <2>1. /\ Append(shown, e) \in Seq(Sent) /\ Len(Append(shown, e)) = Len(shown) + 1
        /\ Append(shown, e)[Len(shown) + 1] = e
        /\ \A i \in 1 .. Len(shown) : Append(shown, e)[i] = shown[i]
    BY AppendProperties
  <2> QED
    BY <2>1
<1>18. ~tab.returned =>
         /\ Len(shown) <= m /\ \A i \in 1 .. Len(shown) : shown[i] = Item(turn, i)
         /\ Len(shown) = cursor
  BY <1>1, <1>4, <1>5, <1>16 DEF Shows
<1>19. Fresh(e) => last = cursor
  BY <1>5, <1>6, <1>10 DEF Fresh
<1>20. Fresh(e) /\ ~tab.returned =>
         /\ Len(more) <= m /\ \A i \in 1 .. Len(more) : more[i] = Item(turn, i)
         /\ Len(more) = last + 1
  <2> SUFFICES ASSUME Fresh(e), ~tab.returned
               PROVE  /\ Len(more) <= m /\ \A i \in 1 .. Len(more) : more[i] = Item(turn, i)
                      /\ Len(more) = last + 1
    OBVIOUS
  <2>1. Len(shown) = last
    BY <1>18, <1>19
  <2>2. Len(more) = last + 1 /\ more[last + 1] = Item(turn, last + 1)
    BY <1>10, <1>17, <2>1
  <2>3. \A i \in 1 .. last : more[i] = Item(turn, i)
    BY <1>17, <1>18, <2>1
  <2>4. \A i \in 1 .. last + 1 : i \in 1 .. last \/ i = last + 1
    BY <1>5
  <2> QED
    BY <1>9, <2>2, <2>3, <2>4
<1>21. PICK read : read = [tab EXCEPT !.last = last + 1]
  OBVIOUS
<1>22. PICK next : next = [read EXCEPT !.cursor = last + 1, !.tries = 0, !.shown = more]
  OBVIOUS
<1>23. /\ read \in Tab /\ read.at = "stream" /\ read.on = s /\ read.last = last + 1 /\ read.cursor = cursor
       /\ read.shown = shown /\ read.returned = tab.returned
  <2>1. PICK n \in Nat : n = last + 1
    OBVIOUS
  <2>2. read = [tab EXCEPT !.last = n]
    BY <1>21, <2>1
  <2> QED
    BY <1>1, <1>2, <1>4, <1>5, <1>16, <2>1, <2>2 DEF Tab
<1>24. /\ next \in Tab /\ next.at = "stream" /\ next.on = s /\ next.last = last + 1 /\ next.cursor = last + 1
       /\ next.shown = more /\ next.returned = tab.returned
  BY <1>22, <1>23 DEF Tab
<1>25. CASE ~Fresh(e) \/ e.type = "part"
  <2>1. stream' = [stream EXCEPT ![s] = q] /\ tab' = IF Fresh(e) THEN next ELSE read
    <3>1. Fresh(Head(stream[s].wire)) = Fresh(e) /\ Head(stream[s].wire) = e
      BY <1>3, <1>5, <1>8
    <3>2. stream' = [stream EXCEPT ![s].wire = Tail(@)]
      BY <1>25, <3>1 DEF Receive
    <3>3. stream' = [stream EXCEPT ![s] = q]
      BY <1>1, <1>3, <1>5, <1>8, <1>12, <3>2 DEF GoodStreams
    <3>4. tab' = IF Fresh(e) THEN [[tab EXCEPT !.last = e.id] EXCEPT !.cursor = e.id, !.tries = 0, !.shown = Append(@, e)]
                 ELSE [tab EXCEPT !.last = e.id]
      BY <1>25, <3>1 DEF Receive
    <3>5. [read EXCEPT !.cursor = last + 1, !.tries = 0, !.shown = Append(@, e)] = next
      BY <1>17, <1>22, <1>23 DEF Tab
    <3> QED
      BY <1>10, <1>21, <3>3, <3>4, <3>5
  <2>2. Good(q, turn')
    BY <1>2, <1>14
  <2>3. GoodStreams' /\ stream'[s] = q /\ \A o \in Streams \ {s} : stream'[o] = stream[o]
    BY <1>1, <2>1, <2>2, OneStream
  <2>4. /\ tab' \in Tab /\ tab'.at = "stream" /\ tab'.on = s /\ tab'.last = last + 1
        /\ tab'.returned = tab.returned
    BY <1>23, <1>24, <2>1
  <2>5. Connected'
    BY <1>2, <1>14, <2>3, <2>4 DEF Connected
  <2>6. Shows'
    <3>1. CASE Fresh(e)
      <4>1. tab' = next
        BY <2>1, <3>1
      <4> QED
        BY <1>2, <1>5, <1>9, <1>20, <1>24, <3>1, <4>1 DEF Shows
    <3>2. CASE ~Fresh(e)
      <4>1. tab' = read
        BY <2>1, <3>2
      <4>2. last + 1 <= cursor
        BY <1>5, <1>10, <3>2 DEF Fresh
      <4> QED
        BY <1>2, <1>5, <1>9, <1>18, <1>23, <4>1, <4>2 DEF Shows
    <3> QED
      BY <3>1, <3>2
  <2>7. \A o \in Streams : stream'[o].held = stream[o].held /\ (stream[o].held => stream'[o].worker = stream[o].worker)
    BY <1>3, <1>13, <2>3
  <2> QED
    BY <1>2, <2>3, <2>4, <2>5, <2>6, <2>7, TabKeeps
<1>26. CASE Fresh(e) /\ e.type # "part"
  <2>1. stream' = [stream EXCEPT ![s] = Left(r)] /\ tab' = Done(next, "answered")
    <3>1. Fresh(Head(stream[s].wire)) = Fresh(e) /\ Head(stream[s].wire) = e
      BY <1>3, <1>5, <1>8
    <3>2. stream' = [stream EXCEPT ![s] = Left(r)]
      BY <1>3, <1>26, <3>1 DEF Receive
    <3>3. tab' = Done([[tab EXCEPT !.last = e.id] EXCEPT !.cursor = e.id, !.tries = 0, !.shown = Append(@, e)], "answered")
      BY <1>26, <3>1 DEF Receive
    <3>4. [read EXCEPT !.cursor = last + 1, !.tries = 0, !.shown = Append(@, e)] = next
      BY <1>17, <1>22, <1>23 DEF Tab
    <3> QED
      BY <1>10, <1>21, <3>2, <3>3, <3>4
  <2>2. PICK l : l = Left(r) /\ Good(l, turn') /\ l.held = r.held /\ l.worker = r.worker
    BY <1>2, <1>15
  <2>3. GoodStreams' /\ stream'[s] = l /\ \A o \in Streams \ {s} : stream'[o] = stream[o]
    BY <1>1, <2>1, <2>2, OneStream
  <2>4. /\ tab' \in Tab /\ tab'.at = "answered" /\ tab'.on = None /\ tab'.shown = more
        /\ tab'.returned = tab.returned
    BY <1>24, <2>1 DEF Done, Tab
  <2>5. Connected'
    BY <2>4 DEF Connected, ViewingAssumption
  <2>6. Shows'
    BY <1>2, <1>5, <1>20, <1>26, <2>4 DEF Shows
  <2>7. \A o \in Streams : stream'[o].held = stream[o].held /\ (stream[o].held => stream'[o].worker = stream[o].worker)
    BY <1>3, <2>2, <2>3
  <2> QED
    BY <1>2, <2>3, <2>4, <2>5, <2>6, <2>7, TabKeeps
<1> QED
  BY <1>25, <1>26

-----------------------------------------------------------------------------
(* Faults.                                                                 *)

LEMMA WorkerKeeps ==
  ASSUME ViewingAssumption, ViewInv, NEW w \in Workers, LoseLease(w) \/ Restart(w)
  PROVE  ViewInv'
<1>1. turn \in Turn /\ Told(turn) /\ Committed /\ worker \in [Workers -> {"up", "lost", "down"}] /\ upsets \in Nat
  BY DEF ViewInv, Types
<1>2. UNCHANGED <<kept, turn, stream, owned, tab>>
  BY DEF LoseLease, Restart
<1>3. worker' \in [Workers -> {"up", "lost", "down"}] /\ upsets' \in Nat
  BY <1>1 DEF LoseLease, Restart, Upset
<1>4. Grown
  BY <1>1, <1>2, TurnStays
<1> QED
  BY <1>2, <1>3, <1>4, QuietKeeps

\* The responses of a worker end with it, and its places.
LEMMA CrashKeeps ==
  ASSUME ViewingAssumption, ViewInv, NEW w \in Workers, Crash(w)
  PROVE  ViewInv'
<1> DEFINE here == {s \in Streams : stream[s].at \notin {"free", "arriving"} /\ stream[s].worker = w}
<1>1. /\ turn \in Turn /\ Told(turn) /\ turn.saved <= turn.events /\ kept \in BOOLEAN /\ tab \in Tab
      /\ worker \in [Workers -> {"up", "lost", "down"}] /\ upsets \in Nat /\ owned \in [Workers -> Nat]
      /\ GoodStreams /\ Connected /\ Shows /\ PlacesCounted
  BY DEF ViewInv, Types, Committed
<1>2. /\ kept' = kept /\ worker' \in [Workers -> {"up", "lost", "down"}] /\ upsets' \in Nat
      /\ owned' = [owned EXCEPT ![w] = 0]
      /\ stream' = [s \in Streams |-> IF s \in here THEN Vacant ELSE stream[s]]
      /\ tab' = IF tab.on \in here THEN Retry(tab.on) ELSE tab
  BY <1>1 DEF Crash, Upset
<1>3. Grown
  <2>1. CASE w # Runner
    <3>1. turn' = turn
      BY <2>1 DEF Crash
    <3> QED
      BY <1>1, <3>1, TurnStays DEF Committed
  <2>2. CASE w = Runner
    <3>1. PICK b \in BOOLEAN : turn' = [turn EXCEPT !.runs = FALSE, !.exists = b]
      <4>1. PICK b \in BOOLEAN : b = (turn.exists /\ kept)
        OBVIOUS
      <4> QED
        BY <1>1, <2>2, <4>1 DEF Crash, Turn
    <3>2. /\ turn' \in Turn /\ turn'.events = turn.events /\ turn'.saved = turn.saved
          /\ turn'.status = turn.status /\ turn'.told = turn.told
      BY <1>1, <3>1 DEF Turn
    <3> QED
      BY <1>1, <3>2 DEF Grown, Turn, Told, Reaches
  <2> QED
    BY <2>1, <2>2
<1>4. turn.saved \in Nat /\ turn'.saved \in Nat /\ Reaches(turn, turn')
  BY <1>1, <1>3, TurnNat DEF Grown
<1>5. \A s \in Streams : stream'[s] = IF s \in here THEN Vacant ELSE stream[s]
  BY <1>2
<1>6. \A s \in Streams : s \in here <=> stream[s].at \notin {"free", "arriving"} /\ stream[s].worker = w
  OBVIOUS
<1>7. here \subseteq Streams
  OBVIOUS
<1>8. GoodStreams'
  <2>1. stream' = [s \in Streams |-> stream'[s]]
    BY <1>2
  <2> HIDE DEF here
  <2>2. ASSUME NEW s \in Streams
        PROVE  Good(stream'[s], turn') /\ stream'[s] \in Response
    <3>1. Good(stream[s], turn') /\ Good(Vacant, turn')
      BY <1>1, <1>4, GoodStays, VacantGood DEF GoodStreams
    <3> QED
      BY <1>5, <3>1 DEF Good
  <2> QED
    BY <2>1, <2>2 DEF GoodStreams
<1>9. tab' \in Tab /\ Connected' /\ Shows'
  <2> HIDE DEF here
  <2>1. CASE tab.on \notin here
    <3>1. tab' = tab /\ (tab.on \in Streams => stream'[tab.on] = stream[tab.on])
      BY <1>2, <1>5, <2>1
    <3>2. tab.on \in Streams => Follows(tab.last, stream'[tab.on], turn')
      BY <1>1, <1>3, <3>1, FollowsOn
    <3> QED
      BY <1>1, <1>3, <3>1, <3>2, TabStays
  <2>2. CASE tab.on \in here
    <3>1. tab' = [tab EXCEPT !.on = None] /\ tab.at = "stream"
      BY <1>1, <1>2, <1>7, <2>2 DEF Retry, Connected
    <3>2. /\ tab' \in Tab /\ tab'.at = tab.at /\ tab'.on = None /\ tab'.last = tab.last
          /\ tab'.cursor = tab.cursor /\ tab'.shown = tab.shown /\ tab'.returned = tab.returned
      BY <1>1, <3>1 DEF Tab
    <3>3. Connected'
      BY <3>2 DEF Connected, ViewingAssumption
    <3>4. Shows'
      BY <1>1, <1>3, <3>2, ShowsOn
    <3> QED
      BY <3>2, <3>3, <3>4
  <2> QED
    BY <2>1, <2>2
<1>10. PlacesCounted'
  <2> HIDE DEF here
  <2>1. Held(w)' = {}
    <3>1. ASSUME NEW s \in Streams, stream'[s].held, stream'[s].worker = w
          PROVE  FALSE
      <4>1. s \notin here /\ stream'[s] = stream[s]
        BY <1>5, <3>1, VacantGood
      <4>2. stream[s].at \notin {"free", "arriving"}
        BY <1>1, <3>1, <4>1 DEF GoodStreams, Good
      <4> QED
        BY <1>6, <3>1, <4>1, <4>2
    <3> QED
      BY <3>1 DEF Held
  <2>2. ASSUME NEW v \in Workers \ {w}
        PROVE  Held(v)' = Held(v)
    <3>1. ASSUME NEW s \in Streams
          PROVE  stream'[s].held /\ stream'[s].worker = v <=> stream[s].held /\ stream[s].worker = v
      <4>1. CASE s \in here
        <5>1. Vacant.held = FALSE
          BY DEF Vacant
        <5>2. stream'[s] = Vacant /\ stream[s].worker = w
          BY <1>5, <1>6, <4>1
        <5> QED
          BY <5>1, <5>2
      <4>2. CASE s \notin here
        BY <1>5, <4>2
      <4> QED
        BY <4>1, <4>2
    <3> QED
      BY <3>1 DEF Held
  <2>3. owned'[w] = 0 /\ \A v \in Workers \ {w} : owned'[v] = owned[v]
    BY <1>1, <1>2
  <2>4. ASSUME NEW v \in Workers
        PROVE  IsFiniteSet(Held(v)') /\ owned'[v] = Cardinality(Held(v)') /\ owned'[v] <= MaxStreams
    <3>1. CASE v = w
      <4>1. IsFiniteSet({}) /\ Cardinality({}) = 0
        BY FS_EmptySet
      <4>2. MaxStreams \in Nat
        BY DEF ViewingAssumption
      <4> QED
        BY <2>1, <2>3, <3>1, <4>1, <4>2
    <3>2. CASE v # w
      BY <1>1, <2>2, <2>3, <3>2 DEF PlacesCounted
    <3> QED
      BY <3>1, <3>2
  <2> QED
    BY <2>4 DEF PlacesCounted
<1>11. Types'
  BY <1>1, <1>2, <1>3, <1>9 DEF Types, Grown
<1> QED
  BY <1>3, <1>8, <1>9, <1>10, <1>11 DEF ViewInv, Grown, Committed

-----------------------------------------------------------------------------
(* Every reachable state.                                                  *)

LEMMA ViewInit ==
  ASSUME ViewingAssumption, Init
  PROVE  ViewInv
<1>1. \A s \in Streams : stream[s] = Vacant
  BY DEF Init
<1>2. /\ turn \in Turn /\ turn.saved = 0 /\ turn.events = 0 /\ ~turn.told
  BY DEF Init, Turn, ViewingAssumption
<1>3. GoodStreams
  <2>1. stream \in [Streams -> Response]
    BY VacantGood DEF Init
  <2> QED
    BY <1>1, <2>1, VacantGood DEF GoodStreams
<1>4. /\ tab \in Tab /\ tab.on = None /\ tab.last = 0 /\ tab.cursor = 0 /\ tab.shown = <<>>
      /\ tab.returned = FALSE
  <2>1. <<>> \in Seq(Sent)
    OBVIOUS
  <2> QED
    BY <2>1 DEF Init, Tab
<1>5. Connected /\ Shows
  <2>1. Len(tab.shown) = 0 /\ Size(turn) \in Nat
    BY <1>2, <1>4, TurnNat
  <2> QED
    BY <1>4, <2>1 DEF Connected, Shows, ViewingAssumption
<1>6. PlacesCounted
  <2>1. ASSUME NEW w \in Workers
        PROVE  Held(w) = {}
    BY <1>1, VacantGood DEF Held
  <2>2. IsFiniteSet({}) /\ Cardinality({}) = 0
    BY FS_EmptySet
  <2>3. \A w \in Workers : owned[w] = 0
    BY DEF Init
  <2>4. MaxStreams \in Nat
    BY DEF ViewingAssumption
  <2> QED
    BY <2>1, <2>2, <2>3, <2>4 DEF PlacesCounted
<1>7. Types
  BY <1>2, <1>4 DEF Init, Types
<1>8. Told(turn) /\ Committed
  BY <1>2 DEF Told, Committed
<1> QED
  BY <1>3, <1>5, <1>6, <1>7, <1>8 DEF ViewInv

LEMMA ViewNext ==
  ASSUME ViewingAssumption, ViewInv, [Next]_vars
  PROVE  ViewInv'
<1>1. CASE UNCHANGED vars
  <2>1. UNCHANGED <<kept, turn, worker, stream, owned, tab, upsets>>
    BY <1>1 DEF vars
  <2>2. Grown /\ worker' \in [Workers -> {"up", "lost", "down"}] /\ upsets' \in Nat
    BY <2>1, TurnStays DEF ViewInv, Types
  <2> QED
    BY <2>1, <2>2, QuietKeeps
<1>2. CASE Publish \/ SaveProgress \/ Forget \/ EndTurn
  <2>1. CASE EndTurn
    BY <2>1, RecoverKeeps, FinishSavedKeeps, FinishInMemoryKeeps DEF EndTurn
  <2> QED
    BY <1>2, <2>1, PublishKeeps, SaveProgressKeeps, ForgetKeeps
<1>3. CASE Leave \/ Reload \/ Return
  BY <1>3, LeaveKeeps, OpenKeeps
<1>4. CASE Follow
  <2>1. CASE \E s \in Streams : Receive(s) \/ Ended(s)
    BY <2>1, ReceiveKeeps, LosesKeeps
  <2> QED
    BY <1>4, <2>1, RecoveryKeeps, ConnectKeeps DEF Follow
<1>5. CASE \E s \in Streams : Serve(s) \/ Break(s)
  <2>1. PICK s \in Streams : Serve(s) \/ Break(s)
    BY <1>5
  <2>2. CASE Break(s)
    BY <2>2, LosesKeeps
  <2>3. CASE \E w \in Workers : Arrive(s, w)
    BY <2>3, ArriveKeeps
  <2>4. CASE Find(s) \/ Subscribe(s) \/ Poll(s) \/ Refresh(s) \/ Finished(s) \/ Closed(s)
    BY <2>4, FindKeeps, SubscribeKeeps, PollKeeps, RefreshKeeps, FinishedKeeps, ClosedKeeps
  <2> QED
    BY <2>1, <2>2, <2>3, <2>4 DEF Serve
<1>6. CASE \E w \in Workers : LoseLease(w) \/ Crash(w) \/ Restart(w)
  BY <1>6, WorkerKeeps, CrashKeeps
<1> QED
  BY <1>1, <1>2, <1>3, <1>4, <1>5, <1>6 DEF Next

\* The reads, the responses, the tab and the counted places of the event streams fit the turn in
\* every reachable state: the induction behind StreamsSound.
THEOREM ViewInvHolds == Spec => []ViewInv
<1>1. Init => ViewInv
  BY ViewingAssumption, ViewInit
<1>2. ViewInv /\ [Next]_vars => ViewInv'
  BY ViewingAssumption, ViewNext
<1> QED
  BY <1>1, <1>2, PTL DEF Spec

\* What a tab shows of an answer is a beginning of its committed events, each once and in order,
\* whatever breaks on the way, and the places counted for an account's event streams are those of
\* its open responses, never more than the limit.
THEOREM StreamsSound == Spec => []StreamsAreSound
<1>1. ASSUME ViewInv
      PROVE  StreamsAreSound
  <2>1. turn.saved \in Nat /\ Told(turn) /\ Shows /\ PlacesCounted /\ tab \in Tab
    BY <1>1, ViewingAssumption, TurnNat DEF ViewInv, Types
  <2>2. Size(turn) \in Nat /\ AreEvents(Events(turn), turn)
    BY <2>1, EventsAre
  <2>3. ASSUME ~tab.returned
        PROVE  IsPrefix(tab.shown, Events(turn))
    <3>1. PICK n \in Nat, m \in Nat : n = Len(tab.shown) /\ m = Size(turn)
      BY <2>1, <2>2 DEF Tab
    <3>2. n <= m /\ \A i \in 1 .. n : tab.shown[i] = Item(turn, i)
      BY <2>1, <2>3, <3>1 DEF Shows
    <3>3. Len(Events(turn)) = m /\ \A i \in 1 .. m : Events(turn)[i] = Item(turn, i)
      BY <2>2, <3>1 DEF AreEvents
    <3>4. \A i \in 1 .. n : i \in 1 .. m
      BY <3>2
    <3> QED
      BY <3>1, <3>2, <3>3, <3>4 DEF IsPrefix
  <2>4. StreamsCounted
    BY <2>1 DEF StreamsCounted, PlacesCounted, Held
  <2> QED
    BY <2>3, <2>4 DEF StreamsAreSound, ShownInOrder
<1> QED
  BY <1>1, ViewInvHolds, PTL

=============================================================================
