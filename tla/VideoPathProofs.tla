---------------------------- MODULE VideoPathProofs ----------------------------
(***************************************************************************)
(* A page that is connected has the hub's present peer, or will hear that   *)
(* it has not, and nothing the encoder sent stays lost, for any encoders,   *)
(* faults, attempts and queues, and in whichever order the two ends hear   *)
(* of an open channel.                                                      *)
(*                                                                          *)
(* The page numbers its attempts, and each sends one offer.  Offers reach   *)
(* the hub in their order, so that none can come after the newest attempt's *)
(* own and take its peer; and a close names an attempt the page has given   *)
(* up.  That is what Ordered says of the two queues from the page to the    *)
(* hub, and it is inductive with the claim itself.                          *)
(***************************************************************************)
EXTENDS VideoPath, FiniteSetTheorems, TLAPS

-----------------------------------------------------------------------------
(* The queues from the page to the hub: p is at the hub, q on the socket. *)

Offers(q) == {i \in DOMAIN q : q[i].kind = "offer"}

\* Offers are of attempts after `last` and up to `sent`, each after the one before;
\* closes are of attempts up to `closed`.
Ordered(p, q, last, sent, closed) ==
  /\ last <= sent
  /\ \A i \in Offers(p) : last < p[i].of /\ p[i].of <= sent
  /\ \A j \in Offers(q) : last < q[j].of /\ q[j].of <= sent
  /\ \A i, j \in Offers(p) : i < j => p[i].of < p[j].of
  /\ \A i, j \in Offers(q) : i < j => q[i].of < q[j].of
  /\ \A i \in Offers(p), j \in Offers(q) : p[i].of < q[j].of
  /\ \A i \in DOMAIN p : p[i].kind = "close" => p[i].of <= closed
  /\ \A j \in DOMAIN q : q[j].kind = "close" => q[j].of <= closed

LEMMA NobodyQueues ==
  ASSUME NEW sent \in Nat, NEW closed \in Nat
  PROVE  Ordered(<<>>, <<>>, 0, sent, closed)
BY DEF Ordered, Offers

LEMMA ElementsType ==
  ASSUME NEW q \in Seq(Message)
  PROVE  /\ \A i \in DOMAIN q : q[i] \in Message /\ q[i].of \in Nat
         /\ \A i \in Offers(q) : i \in DOMAIN q /\ i \in 1..Len(q) /\ q[i].of \in Nat
<1>1. \A i \in DOMAIN q : q[i] \in Message
  OBVIOUS
<1>2. \A m \in Message : m.of \in Nat
  BY DEF Message
<1>3. DOMAIN q = 1..Len(q)
  OBVIOUS
<1> QED
  BY <1>1, <1>2, <1>3 DEF Offers

LEMMA OrderedLoosens ==
  ASSUME NEW p \in Seq(Message), NEW q \in Seq(Message),
         NEW last \in Nat, NEW sent \in Nat, NEW closed \in Nat,
         NEW last1 \in Nat, NEW sent1 \in Nat, NEW closed1 \in Nat,
         last1 <= last, sent <= sent1, closed <= closed1,
         Ordered(p, q, last, sent, closed)
  PROVE  Ordered(p, q, last1, sent1, closed1)
<1>1. \A i \in DOMAIN p : p[i].of \in Nat
  BY ElementsType
<1>2. \A i \in DOMAIN q : q[i].of \in Nat
  BY ElementsType
<1> QED
  BY <1>1, <1>2 DEF Ordered, Offers

LEMMA OrderedLowers ==
  ASSUME NEW p \in Seq(Message), NEW q \in Seq(Message),
         NEW last \in Nat, NEW sent \in Nat, NEW closed \in Nat,
         Ordered(p, q, last, sent, closed)
  PROVE  Ordered(p, q, 0, sent, closed)
<1>1. 0 <= last /\ sent <= sent /\ closed <= closed /\ 0 \in Nat
  OBVIOUS
<1> QED
  BY <1>1, OrderedLoosens

\* The page says something that is not an offer.
LEMMA OrderedSays ==
  ASSUME NEW p \in Seq(Message), NEW q \in Seq(Message), NEW m \in Message,
         NEW last, NEW sent, NEW closed,
         m.kind # "offer", m.kind = "close" => m.of <= closed,
         Ordered(p, q, last, sent, closed)
  PROVE  Ordered(p, Append(q, m), last, sent, closed)
<1>1. DOMAIN Append(q, m) = 1..(Len(q) + 1) /\ DOMAIN q = 1..Len(q) /\ Len(q) \in Nat
  OBVIOUS
<1>2. \A i \in DOMAIN q : Append(q, m)[i] = q[i]
  OBVIOUS
<1>3. Append(q, m)[Len(q) + 1] = m
  OBVIOUS
<1>4. Offers(Append(q, m)) = Offers(q)
  BY <1>1, <1>2, <1>3 DEF Offers
<1>5. \A i \in Offers(q) : i \in DOMAIN q
  BY DEF Offers
<1> QED
  BY <1>1, <1>2, <1>3, <1>4, <1>5 DEF Ordered

\* The page offers a new attempt.
LEMMA OrderedOffers ==
  ASSUME NEW p \in Seq(Message), NEW q \in Seq(Message), NEW m \in Message,
         NEW last \in Nat, NEW sent \in Nat, NEW closed,
         m.kind = "offer", sent < m.of,
         Ordered(p, q, last, sent, closed)
  PROVE  Ordered(p, Append(q, m), last, m.of, closed)
<1>1. DOMAIN Append(q, m) = 1..(Len(q) + 1) /\ DOMAIN q = 1..Len(q) /\ Len(q) \in Nat
  OBVIOUS
<1>2. \A i \in DOMAIN q : Append(q, m)[i] = q[i]
  OBVIOUS
<1>3. Append(q, m)[Len(q) + 1] = m
  OBVIOUS
<1>4. Offers(Append(q, m)) = Offers(q) \cup {Len(q) + 1}
  BY <1>1, <1>2, <1>3 DEF Offers
<1>5. \A i \in Offers(q) : i \in DOMAIN q /\ q[i].of \in Nat /\ i \in Nat /\ i < Len(q) + 1
  BY <1>1, ElementsType
<1>6. \A i \in Offers(p) : p[i].of \in Nat
  BY ElementsType
<1>7. m.of \in Nat
  BY DEF Message
<1> DEFINE new == Append(q, m)
<1>8. \A j \in Offers(new) : last < new[j].of /\ new[j].of <= m.of
  BY <1>2, <1>3, <1>4, <1>5, <1>7 DEF Ordered
<1>9. \A i, j \in Offers(new) : i < j => new[i].of < new[j].of
  BY <1>2, <1>3, <1>4, <1>5, <1>7 DEF Ordered
<1>10. \A i \in Offers(p), j \in Offers(new) : p[i].of < new[j].of
  BY <1>2, <1>3, <1>4, <1>5, <1>6, <1>7 DEF Ordered
<1>11. \A j \in DOMAIN new : new[j].kind = "close" => new[j].of <= closed
  BY <1>1, <1>2, <1>3 DEF Ordered
<1>12. \A i \in Offers(p) : last < p[i].of /\ p[i].of <= m.of
  BY <1>6, <1>7 DEF Ordered
<1>13. last <= m.of
  BY <1>7 DEF Ordered
<1> HIDE DEF new
<1>14. Ordered(p, new, last, m.of, closed)
  BY <1>8, <1>9, <1>10, <1>11, <1>12, <1>13 DEF Ordered
<1> QED
  BY <1>14 DEF new

\* The hub has room for a frame.
LEMMA OrderedFrames ==
  ASSUME NEW p \in Seq(Message), NEW q \in Seq(Message), NEW m \in Message,
         NEW last, NEW sent, NEW closed, m.kind = "VIDEO",
         Ordered(p, q, last, sent, closed)
  PROVE  Ordered(Append(p, m), q, last, sent, closed)
<1>1. DOMAIN Append(p, m) = 1..(Len(p) + 1) /\ DOMAIN p = 1..Len(p) /\ Len(p) \in Nat
  OBVIOUS
<1>2. \A i \in DOMAIN p : Append(p, m)[i] = p[i]
  OBVIOUS
<1>3. Append(p, m)[Len(p) + 1] = m
  OBVIOUS
<1>4. Offers(Append(p, m)) = Offers(p)
  BY <1>1, <1>2, <1>3 DEF Offers
<1>5. \A i \in Offers(p) : i \in DOMAIN p
  BY DEF Offers
<1> QED
  BY <1>1, <1>2, <1>3, <1>4, <1>5 DEF Ordered

\* What the session takes from the socket, it may pass on to the hub.
LEMMA TailFacts ==
  ASSUME NEW q \in Seq(Message), q # <<>>
  PROVE  /\ Tail(q) \in Seq(Message) /\ Head(q) \in Message /\ Head(q) = q[1] /\ 1 \in DOMAIN q
         /\ \A i \in DOMAIN Tail(q) : i \in Nat /\ i + 1 \in DOMAIN q /\ i + 1 > 1 /\ Tail(q)[i] = q[i + 1]
         /\ \A i \in Offers(Tail(q)) : i \in DOMAIN Tail(q) /\ i + 1 \in Offers(q)
<1>1. /\ Tail(q) \in Seq(Message) /\ Head(q) \in Message /\ Head(q) = q[1] /\ 1 \in DOMAIN q
      /\ \A i \in DOMAIN Tail(q) : i \in Nat /\ i + 1 \in DOMAIN q /\ i + 1 > 1 /\ Tail(q)[i] = q[i + 1]
  OBVIOUS
<1> QED
  BY <1>1 DEF Offers

LEMMA OrderedForgets ==
  ASSUME NEW p \in Seq(Message), NEW q \in Seq(Message), NEW last, NEW sent, NEW closed,
         q # <<>>, Ordered(p, q, last, sent, closed)
  PROVE  Ordered(p, Tail(q), last, sent, closed)
<1> DEFINE t == Tail(q)
<1>1. /\ \A i \in DOMAIN t : i \in Nat /\ i + 1 \in DOMAIN q /\ t[i] = q[i + 1]
      /\ \A i \in Offers(t) : i \in DOMAIN t /\ i + 1 \in Offers(q)
  BY TailFacts
<1> HIDE DEF t
<1>2. Ordered(p, t, last, sent, closed)
  BY <1>1 DEF Ordered
<1> QED
  BY <1>2 DEF t

LEMMA OrderedPasses ==
  ASSUME NEW p \in Seq(Message), NEW q \in Seq(Message), NEW last, NEW sent, NEW closed,
         q # <<>>, Ordered(p, q, last, sent, closed)
  PROVE  Ordered(Append(p, Head(q)), Tail(q), last, sent, closed)
<1> DEFINE t == Tail(q)
           m == Head(q)
           a == Append(p, m)
<1>1. /\ m = q[1] /\ 1 \in DOMAIN q
      /\ \A i \in DOMAIN t : i \in Nat /\ i + 1 \in DOMAIN q /\ i + 1 > 1 /\ t[i] = q[i + 1]
      /\ \A i \in Offers(t) : i \in DOMAIN t /\ i + 1 \in Offers(q)
  BY TailFacts
<1>2. /\ DOMAIN a = 1..(Len(p) + 1) /\ DOMAIN p = 1..Len(p) /\ Len(p) \in Nat
      /\ \A i \in DOMAIN p : a[i] = p[i]
      /\ a[Len(p) + 1] = m
  OBVIOUS
<1> HIDE DEF t, m, a
<1>3. \A i \in Offers(a) :
        \/ i \in Offers(p) /\ a[i] = p[i] /\ i < Len(p) + 1
        \/ i = Len(p) + 1 /\ a[i] = q[1] /\ 1 \in Offers(q)
  BY <1>1, <1>2 DEF Offers
<1>4. \A i \in Offers(p), j \in Offers(q) : p[i].of < q[j].of
  BY DEF Ordered
<1>5. \A i, j \in Offers(a) : i < j => a[i].of < a[j].of
  <2> SUFFICES ASSUME NEW i \in Offers(a), NEW j \in Offers(a), i < j PROVE a[i].of < a[j].of
    OBVIOUS
  <2>1. i \in Offers(p) /\ a[i] = p[i]
    BY <1>2, <1>3 DEF Offers
  <2> QED
    BY <1>3, <1>4, <2>1 DEF Ordered
<1>6. \A i \in Offers(a), j \in Offers(t) : a[i].of < t[j].of
  <2> SUFFICES ASSUME NEW i \in Offers(a), NEW j \in Offers(t) PROVE a[i].of < t[j].of
    OBVIOUS
  <2>1. j + 1 \in Offers(q) /\ t[j] = q[j + 1] /\ j + 1 > 1
    BY <1>1
  <2> QED
    BY <1>3, <1>4, <2>1 DEF Ordered
<1>7. \A i, j \in Offers(t) : i < j => t[i].of < t[j].of
  <2> SUFFICES ASSUME NEW i \in Offers(t), NEW j \in Offers(t), i < j PROVE t[i].of < t[j].of
    OBVIOUS
  <2>1. /\ i + 1 \in Offers(q) /\ j + 1 \in Offers(q) /\ i + 1 < j + 1
        /\ t[i] = q[i + 1] /\ t[j] = q[j + 1]
    BY <1>1
  <2> QED
    BY <2>1 DEF Ordered
<1>8. /\ \A i \in Offers(a) : last < a[i].of /\ a[i].of <= sent
      /\ \A i \in Offers(t) : last < t[i].of /\ t[i].of <= sent
  BY <1>1, <1>3 DEF Ordered
<1>9. /\ \A i \in DOMAIN a : a[i].kind = "close" => a[i].of <= closed
      /\ \A i \in DOMAIN t : t[i].kind = "close" => t[i].of <= closed
  BY <1>1, <1>2 DEF Ordered
<1>10. Ordered(a, t, last, sent, closed)
  BY <1>5, <1>6, <1>7, <1>8, <1>9 DEF Ordered
<1> QED
  BY <1>10 DEF a, t, m

\* The hub takes a message; behind an offer there are only later ones.
LEMMA OrderedTakes ==
  ASSUME NEW p \in Seq(Message), NEW q \in Seq(Message), NEW last, NEW sent, NEW closed,
         p # <<>>, Ordered(p, q, last, sent, closed)
  PROVE  /\ Ordered(Tail(p), q, last, sent, closed)
         /\ Head(p).kind = "offer" =>
              /\ last < Head(p).of /\ Head(p).of <= sent
              /\ Ordered(Tail(p), q, Head(p).of, sent, closed)
         /\ Head(p).kind = "close" => Head(p).of <= closed
<1> DEFINE t == Tail(p)
           m == Head(p)
<1>1. /\ m = p[1] /\ 1 \in DOMAIN p
      /\ \A i \in DOMAIN t : i \in Nat /\ i + 1 \in DOMAIN p /\ i + 1 > 1 /\ t[i] = p[i + 1]
      /\ \A i \in Offers(t) : i \in DOMAIN t /\ i + 1 \in Offers(p)
  BY TailFacts
<1> HIDE DEF t, m
<1>2. Ordered(t, q, last, sent, closed)
  BY <1>1 DEF Ordered
<1>3. ASSUME m.kind = "offer"
      PROVE  last < m.of /\ m.of <= sent /\ Ordered(t, q, m.of, sent, closed)
  <2>1. 1 \in Offers(p)
    BY <1>1, <1>3 DEF Offers
  <2> QED
    BY <1>1, <1>2, <2>1 DEF Ordered
<1>4. m.kind = "close" => m.of <= closed
  BY <1>1 DEF Ordered
<1> QED
  BY <1>2, <1>3, <1>4 DEF t, m

-----------------------------------------------------------------------------
(* The inductive invariant. *)

\* what each queue carries
Carries(q, kinds) == \A i \in DOMAIN q : q[i].kind \in kinds
ToHub == {"offer", "close", "VIDEO"}
ToSession == {"offer", "close", "REQUEST_KEYFRAME"}
ToPage == {"RTC_CONFIG", "STREAM_STATE", "CONFIG", "VIDEO", "answer", "close", "keyframe"}

Kinds == Carries(mailbox, ToHub) /\ Carries(up, ToSession) /\ Carries(down, ToPage)

\* The page's attempt is its newest.
Attempt ==
  /\ rtc.at = "none" => rtc = NoRtc
  /\ rtc.at # "none" => rtc.g = rtcGen /\ rtcGen > 0

\* the newest attempt whose offer is sent, and the newest that is given up
Sent == IF rtc.at = "offering" THEN rtcGen - 1 ELSE rtcGen
Closed == IF rtc.at = "none" THEN rtcGen ELSE rtcGen - 1

Inv ==
  /\ TypeOK /\ Kinds /\ Attempt
  /\ Ordered(mailbox, up, peer.g, Sent, Closed)
  /\ AlwaysTrying /\ OpenIsServed

-----------------------------------------------------------------------------
(* Messages and queues. *)

AllKinds == ToHub \cup ToSession \cup ToPage

LEMMA SayType ==
  ASSUME NEW kind \in AllKinds, NEW of \in Nat
  PROVE  /\ Say(kind, of) \in Message /\ Say(kind, of).kind = kind /\ Say(kind, of).of = of
BY DEF Say, Message, NoFrame, None, Frame, AllKinds, ToHub, ToSession, ToPage

LEMMA VideoType ==
  ASSUME NEW f \in Frame
  PROVE  Video(f) \in Message /\ Video(f).kind = "VIDEO"
BY DEF Video, Message, Frame

LEMMA SaysGrows ==
  ASSUME NEW q \in Seq(Message), NEW m \in Message, NEW kind, NEW g, Says(q, kind, g)
  PROVE  Says(Append(q, m), kind, g)
<1>1. PICK i \in DOMAIN q : q[i].kind = kind /\ q[i].of = g
  BY DEF Says
<1>2. i \in DOMAIN Append(q, m) /\ Append(q, m)[i] = q[i]
  BY <1>1
<1> QED
  BY <1>1, <1>2 DEF Says

LEMMA AppendFacts ==
  ASSUME NEW q \in Seq(Message), NEW m \in Message, NEW kinds, m.kind \in kinds, Carries(q, kinds)
  PROVE  /\ Append(q, m) \in Seq(Message) /\ Carries(Append(q, m), kinds)
         /\ \A kind, g : Says(q, kind, g) => Says(Append(q, m), kind, g)
<1>1. /\ DOMAIN Append(q, m) = 1..(Len(q) + 1) /\ DOMAIN q = 1..Len(q) /\ Len(q) \in Nat
      /\ \A i \in DOMAIN q : Append(q, m)[i] = q[i]
      /\ Append(q, m)[Len(q) + 1] = m
  OBVIOUS
<1>2. Carries(Append(q, m), kinds)
  BY <1>1 DEF Carries
<1>3. \A kind, g : Says(q, kind, g) => Says(Append(q, m), kind, g)
  BY SaysGrows
<1> QED
  BY <1>2, <1>3

LEMMA TailCarries ==
  ASSUME NEW q \in Seq(Message), q # <<>>, NEW kinds, Carries(q, kinds)
  PROVE  /\ Tail(q) \in Seq(Message) /\ Carries(Tail(q), kinds)
         /\ Head(q) \in Message /\ Head(q).kind \in kinds
         /\ \A kind, g : Says(q, kind, g) =>
              Says(Tail(q), kind, g) \/ (Head(q).kind = kind /\ Head(q).of = g)
<1>1. /\ Tail(q) \in Seq(Message) /\ Head(q) \in Message /\ Head(q) = q[1] /\ 1 \in DOMAIN q
      /\ \A i \in DOMAIN Tail(q) : i \in Nat /\ i + 1 \in DOMAIN q /\ i + 1 > 1 /\ Tail(q)[i] = q[i + 1]
  BY TailFacts
<1>2. Carries(Tail(q), kinds) /\ Head(q).kind \in kinds
  BY <1>1 DEF Carries
<1>3. \A i \in DOMAIN q : i = 1 \/ (i - 1 \in DOMAIN Tail(q) /\ Tail(q)[i - 1] = q[i])
  OBVIOUS
<1>4. \A kind, g : Says(q, kind, g) => Says(Tail(q), kind, g) \/ (Head(q).kind = kind /\ Head(q).of = g)
  BY <1>1, <1>3 DEF Says
<1> QED
  BY <1>1, <1>2, <1>4

LEMMA OneMore ==
  ASSUME NEW q \in Seq(Message), NEW m \in Message
  PROVE  q \o <<m>> = Append(q, m) /\ q \o <<>> = q
OBVIOUS

-----------------------------------------------------------------------------
(* What is left of the invariant when little changes. *)

\* The page's attempt stays, and so does what serves it.
LEMMA ServedStays ==
  ASSUME OpenIsServed, UNCHANGED rtc,
         rtc.at \in {"connected", "open"} /\ peer.g = rtc.g /\ (peer.open \/ peer.opening) =>
           (peer'.g = rtc.g /\ (peer'.open \/ peer'.opening)) \/ rtc.g \in notices',
         rtc.g \in notices => rtc.g \in notices' \/ Says(down', "close", rtc.g),
         rtc.at \in {"connected", "open"} /\ Says(down, "close", rtc.g) => Says(down', "close", rtc.g)
  PROVE  OpenIsServed'
BY DEF OpenIsServed

\* The page's side is not touched.
LEMMA OthersKeep ==
  ASSUME Inv, TypeOK', Kinds', UNCHANGED pageSide,
         Ordered(mailbox', up', peer'.g, Sent, Closed),
         rtc.at \in {"connected", "open"} /\ peer.g = rtc.g /\ (peer.open \/ peer.opening) =>
           (peer'.g = rtc.g /\ (peer'.open \/ peer'.opening)) \/ rtc.g \in notices',
         rtc.g \in notices => rtc.g \in notices' \/ Says(down', "close", rtc.g),
         Says(down, "close", rtc.g) => Says(down', "close", rtc.g)
  PROVE  Inv'
<1>1. UNCHANGED <<rtc, rtcGen, retryTimer, picked, available>>
  BY DEF pageSide, attempts
<1>2. Attempt' /\ AlwaysTrying' /\ Sent' = Sent /\ Closed' = Closed
  BY <1>1 DEF Inv, Attempt, AlwaysTrying, Sent, Closed
<1>3. OpenIsServed'
  BY <1>1, ServedStays DEF Inv
<1> QED
  BY <1>2, <1>3 DEF Inv

\* Numbers that Ordered is about.
LEMMA Numbers ==
  ASSUME Inv
  PROVE  /\ rtcGen \in Nat /\ peer.g \in Nat /\ Sent \in Nat /\ Closed \in Nat
         /\ Sent <= rtcGen /\ Closed <= rtcGen
         /\ mailbox \in Seq(Message) /\ up \in Seq(Message) /\ down \in Seq(Message)
<1>1. rtcGen \in Nat /\ peer.g \in Nat
  BY BoundAssumption DEF Inv, TypeOK
<1>2. rtc.at = "offering" => rtcGen > 0
  BY DEF Inv, Attempt
<1>3. rtc.at # "none" => rtcGen > 0
  BY DEF Inv, Attempt
<1> QED
  BY <1>1, <1>2, <1>3 DEF Sent, Closed, Inv, TypeOK

-----------------------------------------------------------------------------
(* The session's steps. *)

LEMMA SpendType ==
  ASSUME TypeOK, NEW what \in {"encoders", "frames", "faults"}, Spend(what)
  PROVE  left' \in [encoders : Nat, frames : Nat, faults : Nat]
<1>t. left \in [encoders : Nat, frames : Nat, faults : Nat]
  BY DEF TypeOK
<1>1. CASE what = "encoders"
  <2>1. left.encoders > 0 /\ left' = [left EXCEPT !.encoders = left.encoders - 1]
    BY <1>1 DEF Spend
  <2> QED
    BY <1>t, <2>1
<1>2. CASE what = "frames"
  <2>1. left.frames > 0 /\ left' = [left EXCEPT !.frames = left.frames - 1]
    BY <1>2 DEF Spend
  <2> QED
    BY <1>t, <2>1
<1>3. CASE what = "faults"
  <2>1. left.faults > 0 /\ left' = [left EXCEPT !.faults = left.faults - 1]
    BY <1>3 DEF Spend
  <2> QED
    BY <1>t, <2>1
<1> QED
  BY <1>1, <1>2, <1>3

\* The page will read what is put on the socket, whatever else is on it.
LEMMA PageIsTold ==
  ASSUME NEW q \in Seq(Message), Carries(q, ToPage), NEW kind \in ToPage, NEW of \in Nat
  PROVE  /\ Append(q, Say(kind, of)) \in Seq(Message)
         /\ Carries(Append(q, Say(kind, of)), ToPage)
         /\ \A g : Says(q, "close", g) => Says(Append(q, Say(kind, of)), "close", g)
<1>1. Say(kind, of) \in Message /\ Say(kind, of).kind \in ToPage
  BY SayType DEF AllKinds
<1> DEFINE m == Say(kind, of)
<1> HIDE DEF m
<1>2. m \in Message /\ m.kind \in ToPage
  BY <1>1 DEF m
<1>3. /\ Append(q, m) \in Seq(Message) /\ Carries(Append(q, m), ToPage)
  BY <1>2, AppendFacts
<1>4. ASSUME NEW g, Says(q, "close", g) PROVE Says(Append(q, m), "close", g)
  BY <1>2, <1>4, SaysGrows
<1>5. \A g : Says(q, "close", g) => Says(Append(q, m), "close", g)
  BY <1>4
<1> QED
  BY <1>3, <1>5, Zenon DEF m

Encoders == [epoch : Nat, announced : BOOLEAN, frames : Nat, wantKey : BOOLEAN]

LEMMA SessionKeeps == Inv /\ Session => Inv'
<1> SUFFICES ASSUME Inv, Session PROVE Inv'
  OBVIOUS
<1>t. TypeOK /\ Kinds /\ Ordered(mailbox, up, peer.g, Sent, Closed) /\ encoder \in Encoders
      /\ encoder.epoch \in Nat /\ encoder.epoch + 1 \in Nat /\ encoder.frames + 1 \in Nat
      /\ down \in Seq(Message) /\ Carries(down, ToPage)
  <2>1. TypeOK /\ Kinds /\ Ordered(mailbox, up, peer.g, Sent, Closed)
    BY DEF Inv
  <2>2. encoder \in Encoders /\ down \in Seq(Message) /\ Carries(down, ToPage)
    BY <2>1 DEF TypeOK, Kinds, Encoders
  <2>3. encoder.epoch \in Nat /\ encoder.epoch + 1 \in Nat /\ encoder.frames + 1 \in Nat
    BY <2>2 DEF Encoders
  <2> QED
    BY <2>1, <2>2, <2>3
<1>k. "STREAM_STATE" \in ToPage /\ "CONFIG" \in ToPage /\ "VIDEO" \in ToPage /\ "VIDEO" \in ToHub
  BY DEF ToHub, ToPage
<1>1. CASE Restart
  <2>1. /\ encoder' = NewEncoder(encoder.epoch + 1)
        /\ down' = down \/ down' = Append(down, Say("STREAM_STATE", encoder.epoch + 1))
        /\ UNCHANGED <<wsConfig, waiting, claim, mailbox, peer, notices, up, channel, pageSide, refused>>
        /\ left' \in [encoders : Nat, frames : Nat, faults : Nat]
    BY <1>t, <1>1, SpendType DEF Restart, hub, NewEncoder
  <2>2. encoder' \in [epoch : Nat, announced : BOOLEAN, frames : Nat, wantKey : BOOLEAN]
    BY <1>t, <2>1 DEF NewEncoder
  <2>3. /\ down' \in Seq(Message) /\ Carries(down', ToPage)
        /\ Says(down, "close", rtc.g) => Says(down', "close", rtc.g)
    BY <1>t, <1>k, <2>1, PageIsTold
  <2>4. TypeOK' /\ Kinds'
    BY <1>t, <2>1, <2>2, <2>3 DEF TypeOK, Kinds, pageSide, attempts, refused
  <2> QED
    BY <1>t, <2>1, <2>3, <2>4, OthersKeep
<1>2. CASE Info
  <2>1. /\ encoder' = [encoder EXCEPT !.announced = TRUE]
        /\ down' = Append(down, Say("STREAM_STATE", encoder.epoch))
        /\ UNCHANGED <<wsConfig, waiting, claim, mailbox, peer, notices, up, channel, pageSide, refused, left>>
    BY <1>2 DEF Info, hub
  <2>2. encoder' \in [epoch : Nat, announced : BOOLEAN, frames : Nat, wantKey : BOOLEAN]
    BY <1>t, <2>1 DEF TypeOK
  <2>3. /\ down' \in Seq(Message) /\ Carries(down', ToPage)
        /\ Says(down, "close", rtc.g) => Says(down', "close", rtc.g)
    BY <1>t, <1>k, <2>1, PageIsTold
  <2>4. TypeOK' /\ Kinds'
    BY <1>t, <2>1, <2>2, <2>3 DEF TypeOK, Kinds, pageSide, attempts, refused
  <2> QED
    BY <1>t, <2>1, <2>3, <2>4, OthersKeep
<1>3. CASE SendFrame
  <2> DEFINE f == [epoch |-> encoder.epoch, n |-> encoder.frames, key |-> encoder.wantKey]
             config == IF wsConfig = f.epoch THEN down ELSE Append(down, Say("CONFIG", f.epoch))
  <2>1. /\ encoder' = [encoder EXCEPT !.frames = @ + 1, !.wantKey = FALSE]
        /\ \/ /\ mailbox' = mailbox \/ (Len(mailbox) < MaxMail /\ mailbox' = Append(mailbox, Video(f)))
              /\ dropped' = dropped \/ dropped' = Lost(f)
              /\ UNCHANGED <<down, wsConfig>>
           \/ /\ down' = config \o <<Video(f)>>
              /\ wsConfig' = f.epoch
              /\ UNCHANGED <<mailbox, dropped>>
        /\ UNCHANGED <<waiting, claim, peer, notices, up, channel, pageSide>>
        /\ left' \in [encoders : Nat, frames : Nat, faults : Nat]
    BY <1>t, <1>3, SpendType DEF SendFrame
  <2>2. f \in Frame /\ f.epoch \in Nat /\ Video(f) \in Message /\ Video(f).kind = "VIDEO"
    <3>1. f \in Frame /\ f.epoch \in Nat
      BY <1>t DEF TypeOK, Frame
    <3> QED
      BY <3>1, VideoType
  <2> HIDE DEF f
  <2>3. encoder' \in [epoch : Nat, announced : BOOLEAN, frames : Nat, wantKey : BOOLEAN]
    BY <1>t, <2>1 DEF Encoders
  <2>4. /\ config \in Seq(Message) /\ Carries(config, ToPage)
        /\ Says(down, "close", rtc.g) => Says(config, "close", rtc.g)
    BY <1>t, <1>k, <2>2, PageIsTold
  <2> HIDE DEF config
  <2>5. /\ down' \in Seq(Message) /\ Carries(down', ToPage)
        /\ Says(down, "close", rtc.g) => Says(down', "close", rtc.g)
    <3>1. config \o <<Video(f)>> = Append(config, Video(f))
      BY <2>2, <2>4, OneMore
    <3>2. /\ Append(config, Video(f)) \in Seq(Message) /\ Carries(Append(config, Video(f)), ToPage)
          /\ Says(config, "close", rtc.g) => Says(Append(config, Video(f)), "close", rtc.g)
      BY <1>k, <2>2, <2>4, AppendFacts
    <3> QED
      BY <1>t, <2>1, <2>4, <3>1, <3>2
  <2>6. /\ mailbox' \in Seq(Message) /\ Carries(mailbox', ToHub) /\ Len(mailbox') <= MaxMail
        /\ Ordered(mailbox', up', peer'.g, Sent, Closed)
    <3>1. CASE mailbox' = mailbox
      BY <1>t, <2>1, <3>1 DEF TypeOK, Kinds
    <3>2. CASE Len(mailbox) < MaxMail /\ mailbox' = Append(mailbox, Video(f))
      <4>1. mailbox \in Seq(Message) /\ up \in Seq(Message)
        BY <1>t DEF TypeOK
      <4>2. Len(mailbox') = Len(mailbox) + 1
        BY <4>1, <3>2
      <4>3. Len(mailbox') <= MaxMail
        BY <4>1, <4>2, <3>2, BoundAssumption
      <4> QED
        BY <1>t, <1>k, <2>1, <2>2, <3>2, <4>1, <4>3, AppendFacts, OrderedFrames DEF Kinds
    <3> QED
      BY <2>1, <3>1, <3>2
  <2>7. dropped' \in Frame
    BY <1>t, <2>1, <2>2 DEF TypeOK, Lost
  <2>0. keyLost' \in BOOLEAN
    <3>1. Unheard \in BOOLEAN /\ (~(Len(mailbox) < MaxMail)) \in BOOLEAN /\ (Len(mailbox) < MaxMail) \in BOOLEAN
      BY DEF Unheard
    <3>2. keyLost \in BOOLEAN
      BY <1>t DEF TypeOK
    <3>3. \/ keyLost' = (~(Len(mailbox) < MaxMail)) \/ keyLost' = Unheard \/ keyLost' = keyLost
      BY <1>3, Zenon DEF SendFrame
    <3> QED
      BY <3>1, <3>2, <3>3, Zenon
  <2>8. wsConfig' \in Nat
    BY <1>t, <2>1, <2>2 DEF TypeOK
  <2>9. /\ UNCHANGED <<waiting, claim, peer, notices, up, channel, rtc, rtcGen, retryTimer,
                        picked, available, page, crossed>>
        /\ left' \in [encoders : Nat, frames : Nat, faults : Nat]
    BY <2>1 DEF pageSide, attempts
  <2>10. TypeOK' /\ Kinds'
    BY <1>t, <2>0, <2>3, <2>5, <2>6, <2>7, <2>8, <2>9 DEF TypeOK, Kinds
  <2> QED
    BY <2>1, <2>5, <2>6, <2>10, OthersKeep
<1>4. CASE Receive
  <2> DEFINE m == Head(up)
  <2>1. /\ up # <<>> /\ up' = Tail(up)
        /\ \/ /\ m.kind = "REQUEST_KEYFRAME"
              /\ encoder' = [encoder EXCEPT !.wantKey = TRUE]
              /\ UNCHANGED <<waiting, mailbox>>
           \/ /\ m.kind # "REQUEST_KEYFRAME" /\ Len(mailbox) < MaxMail
              /\ mailbox' = Append(mailbox, m) /\ waiting' \in BOOLEAN
              /\ UNCHANGED encoder
        /\ UNCHANGED <<wsConfig, claim, peer, notices, down, channel, pageSide, refused, left>>
    BY <1>4 DEF Receive
  <2>2. /\ up' \in Seq(Message) /\ Carries(up', ToSession) /\ m \in Message /\ m.kind \in ToSession
    BY <1>t, <2>1, TailCarries DEF TypeOK, Kinds
  <2>3. CASE m.kind = "REQUEST_KEYFRAME"
    <3>1. encoder' \in [epoch : Nat, announced : BOOLEAN, frames : Nat, wantKey : BOOLEAN]
      BY <1>t, <2>1, <2>3 DEF TypeOK
    <3>0. UNCHANGED <<waiting, mailbox, wsConfig, claim, peer, notices, down, channel, pageSide,
                      refused, left>>
      BY <2>1, <2>3
    <3> HIDE DEF m
    <3>4. TypeOK'
      BY <1>t, <2>2, <3>0, <3>1 DEF TypeOK, pageSide, attempts, refused
    <3>5. Kinds'
      BY <1>t, <2>2, <3>0 DEF Kinds
    <3>2. TypeOK' /\ Kinds'
      BY <3>4, <3>5
    <3>3. Ordered(mailbox', up', peer'.g, Sent, Closed)
      BY <1>t, <2>1, <2>3, OrderedForgets DEF TypeOK
    <3> QED
      BY <2>1, <3>2, <3>3, OthersKeep
  <2>4. CASE m.kind # "REQUEST_KEYFRAME"
    <3>1. m.kind \in ToHub
      BY <2>2, <2>4 DEF ToSession, ToHub
    <3>2. /\ mailbox' \in Seq(Message) /\ Carries(mailbox', ToHub) /\ Len(mailbox') <= MaxMail
      <4>1. mailbox \in Seq(Message)
        BY <1>t DEF TypeOK
      <4>2. Len(Append(mailbox, m)) = Len(mailbox) + 1 /\ Len(mailbox) \in Nat
        BY <2>2, <4>1
      <4>3. Len(mailbox') <= MaxMail
        BY <4>2, <2>1, <2>4, BoundAssumption
      <4> QED
        BY <1>t, <2>1, <2>2, <2>4, <3>1, <4>1, <4>3, AppendFacts DEF Kinds
    <3>3. Ordered(mailbox', up', peer'.g, Sent, Closed)
      <4>1. mailbox \in Seq(Message) /\ up \in Seq(Message)
        BY <1>t DEF TypeOK
      <4>2. mailbox' = Append(mailbox, Head(up)) /\ up' = Tail(up) /\ peer' = peer
        BY <2>1, <2>4
      <4> QED
        BY <1>t, <2>1, <4>1, <4>2, OrderedPasses
    <3>4. TypeOK' /\ Kinds'
      <4>1. /\ UNCHANGED <<encoder, wsConfig, claim, peer, notices, down, channel, left>>
            /\ UNCHANGED <<rtc, rtcGen, retryTimer, picked, available, page, crossed, dropped, keyLost>>
        BY <2>1, <2>4 DEF pageSide, attempts, refused
      <4>2. up' \in Seq(Message) /\ Carries(up', ToSession) /\ waiting' \in BOOLEAN
        BY <2>1, <2>2, <2>4
      <4>3. TypeOK'
        BY <1>t, <3>2, <4>1, <4>2 DEF TypeOK
      <4> QED
        BY <1>t, <3>2, <4>1, <4>2, <4>3 DEF Kinds
    <3> QED
      BY <2>1, <3>3, <3>4, OthersKeep
  <2> QED
    BY <2>3, <2>4
<1> QED
  BY <1>1, <1>2, <1>3, <1>4 DEF Session

-----------------------------------------------------------------------------
(* The hub's steps. *)

Claims == [g : Nat, active : BOOLEAN]
Peers == [g : Nat, opening : BOOLEAN, open : BOOLEAN, config : Nat, queue : Seq(Message)]

LEMMA NobodyTypes ==
  /\ NoClaim \in Claims /\ NoPeer \in Peers /\ NoPeer.g = 0 /\ ~NoPeer.open /\ ~NoPeer.opening
  /\ \A g \in Nat : /\ [NoPeer EXCEPT !.g = g] \in Peers /\ [NoPeer EXCEPT !.g = g].g = g
                     /\ ~[NoPeer EXCEPT !.g = g].open /\ ~[NoPeer EXCEPT !.g = g].opening
<1>1. <<>> \in Seq(Message) /\ 0 \in Nat
  OBVIOUS
<1>2. NoPeer = [g |-> 0, opening |-> FALSE, open |-> FALSE, config |-> 0, queue |-> <<>>]
  BY DEF NoPeer, None
<1>4. NoClaim = [g |-> 0, active |-> FALSE]
  BY DEF NoClaim, None
<1>5. NoPeer \in Peers /\ NoPeer.g = 0 /\ ~NoPeer.open /\ ~NoPeer.opening
  BY <1>1, <1>2 DEF Peers
<1>6. NoClaim \in Claims
  BY <1>1, <1>4 DEF Claims
<1>7. ASSUME NEW g \in Nat
      PROVE  /\ [NoPeer EXCEPT !.g = g] \in Peers /\ [NoPeer EXCEPT !.g = g].g = g
             /\ ~[NoPeer EXCEPT !.g = g].open /\ ~[NoPeer EXCEPT !.g = g].opening
  BY <1>5 DEF Peers
<1> QED
  BY <1>5, <1>6, <1>7

\* A frame never changes whose peer it is.
LEMMA EnqueueType ==
  ASSUME NEW p \in Peers, NEW f \in Frame
  PROVE  /\ Enqueue(p, f) \in Peers /\ Enqueue(p, f).g = p.g
         /\ Enqueue(p, f).open = p.open /\ Enqueue(p, f).opening = p.opening
<1> DEFINE boundary == p.config # f.epoch \/ f.key
           waits == IF boundary THEN <<Say("CONFIG", f.epoch)>> ELSE p.queue
           full == Cardinality({i \in DOMAIN waits : waits[i].kind = "VIDEO"}) >= Queue
           config == IF boundary THEN f.epoch ELSE p.config
           queue == IF full THEN waits ELSE Append(waits, Video(f))
<1>1. f.epoch \in Nat /\ Video(f) \in Message
  BY VideoType DEF Frame
<1>2. Say("CONFIG", f.epoch) \in Message
  BY <1>1, SayType DEF AllKinds, ToPage
<1>3. p.queue \in Seq(Message) /\ p.config \in Nat
  BY DEF Peers
<1>4. waits \in Seq(Message) /\ config \in Nat
  BY <1>1, <1>2, <1>3
<1>5. Enqueue(p, f) = [p EXCEPT !.config = config, !.queue = queue]
  BY DEF Enqueue
<1> HIDE DEF waits, full, config
<1>6. queue \in Seq(Message)
  BY <1>1, <1>4
<1> HIDE DEF queue
<1> QED
  BY <1>4, <1>5, <1>6 DEF Peers

\* What the hub takes: one of three messages.
LEMMA MailCases ==
  ASSUME Inv, TakeMail
  PROVE  /\ mailbox # <<>> /\ mailbox' = Tail(mailbox) /\ Head(mailbox) \in Message
         /\ UNCHANGED <<wsConfig, notices, up, channel, pageSide, keyLost>>
         /\ \/ Head(mailbox).kind = "offer" /\ TakeOffer(Head(mailbox).of)
            \/ Head(mailbox).kind = "VIDEO" /\ TakeFrame(Head(mailbox).frame)
            \/ Head(mailbox).kind = "close" /\ TakeClose(Head(mailbox).of)
<1> DEFINE m == Head(mailbox)
<1>1. mailbox # <<>> /\ mailbox' = Tail(mailbox) /\ UNCHANGED <<wsConfig, notices, up, channel, pageSide, keyLost>>
  BY Zenon DEF TakeMail
<1>2. m \in Message /\ m.kind \in ToHub
  <2>1. mailbox \in Seq(Message) /\ Carries(mailbox, ToHub)
    BY DEF Inv, TypeOK, Kinds
  <2> QED
    BY <1>1, <2>1, TailCarries
<1>3. CASE m.kind = "offer"
  <2>1. TakeOffer(m.of)
    BY <1>3, Zenon DEF TakeMail
  <2> QED
    BY <1>1, <1>2, <1>3, <2>1
<1>4. CASE m.kind = "VIDEO"
  <2>1. m.kind # "offer"
    BY <1>4
  <2>2. TakeFrame(m.frame)
    BY <1>4, <2>1, Zenon DEF TakeMail
  <2> QED
    BY <1>1, <1>2, <1>4, <2>2
<1>5. CASE m.kind = "close"
  <2>1. m.kind # "offer" /\ m.kind # "VIDEO"
    BY <1>5
  <2>2. TakeClose(m.of)
    BY <1>5, <2>1, Zenon DEF TakeMail
  <2> QED
    BY <1>1, <1>2, <1>5, <2>2
<1> QED
  BY <1>2, <1>3, <1>4, <1>5 DEF ToHub

LEMMA MailKeeps == Inv /\ TakeMail => Inv'
<1> SUFFICES ASSUME Inv, TakeMail PROVE Inv'
  OBVIOUS
<1> DEFINE m == Head(mailbox)
<1>t. /\ TypeOK /\ Kinds /\ Attempt /\ Ordered(mailbox, up, peer.g, Sent, Closed)
  BY DEF Inv
<1>u. /\ encoder \in Encoders /\ down \in Seq(Message) /\ Carries(down, ToPage)
      /\ peer \in Peers /\ claim \in Claims /\ waiting \in BOOLEAN
      /\ left \in [encoders : Nat, frames : Nat, faults : Nat] /\ dropped \in Frame
      /\ mailbox \in Seq(Message) /\ Carries(mailbox, ToHub)
  BY <1>t DEF TypeOK, Kinds, Encoders, Peers, Claims
<1>0. /\ mailbox # <<>> /\ mailbox' = Tail(mailbox) /\ m \in Message
      /\ UNCHANGED <<wsConfig, notices, up, channel, pageSide, keyLost>>
      /\ \/ m.kind = "offer" /\ TakeOffer(m.of)
         \/ m.kind = "VIDEO" /\ TakeFrame(m.frame)
         \/ m.kind = "close" /\ TakeClose(m.of)
  BY MailCases
<1>1. mailbox' \in Seq(Message) /\ Carries(mailbox', ToHub) /\ Len(mailbox') <= MaxMail
  <2>1. mailbox' \in Seq(Message) /\ Carries(mailbox', ToHub)
    BY <1>u, <1>0, TailCarries
  <2>2. Len(mailbox) <= MaxMail
    BY <1>t DEF TypeOK
  <2>3. Len(Tail(mailbox)) = Len(mailbox) - 1 /\ Len(mailbox) \in Nat
    BY <1>u, <1>0
  <2> QED
    BY <1>0, <2>1, <2>2, <2>3, BoundAssumption
<1>2. /\ Ordered(mailbox', up, peer.g, Sent, Closed)
      /\ m.kind = "offer" => peer.g < m.of /\ m.of <= Sent /\ Ordered(mailbox', up, m.of, Sent, Closed)
      /\ m.kind = "close" => m.of <= Closed
  <2>1. up \in Seq(Message)
    BY <1>t DEF TypeOK
  <2> QED
    BY <1>t, <1>u, <1>0, <2>1, OrderedTakes
<1>3. m.of \in Nat /\ m.frame \in Frame
  BY <1>0 DEF Message
<1>4. ASSUME encoder' \in Encoders, down' \in Seq(Message), Carries(down', ToPage), peer' \in Peers,
             claim' \in Claims, waiting' \in BOOLEAN, dropped' \in Frame,
             left' \in [encoders : Nat, frames : Nat, faults : Nat]
      PROVE  TypeOK' /\ Kinds'
  <2>1. UNCHANGED <<wsConfig, notices, up, channel, rtc, rtcGen, retryTimer, picked, available, page,
                    crossed, keyLost>>
    BY <1>0 DEF pageSide, attempts
  <2> QED
    BY <1>t, <1>1, <1>4, <2>1 DEF TypeOK, Kinds, Encoders, Peers, Claims
<1> HIDE DEF m
<1>n. rtcGen \in Nat /\ peer.g \in Nat /\ Sent \in Nat /\ Closed \in Nat /\ Sent <= rtcGen
  BY Numbers
<1>5. CASE m.kind = "offer" /\ TakeOffer(m.of)
  <2>1. /\ UNCHANGED <<encoder, waiting, dropped>>
        /\ claim' = NoClaim
        /\ \/ peer' = [NoPeer EXCEPT !.g = m.of] /\ UNCHANGED left
           \/ peer' = NoPeer /\ Spend("faults")
        /\ \/ down' = Append(down, Say("answer", m.of)) \/ UNCHANGED down
           \/ down' = Append(down, Say("close", m.of))
    BY <1>5 DEF TakeOffer
  <2>2. /\ down' \in Seq(Message) /\ Carries(down', ToPage)
        /\ Says(down, "close", rtc.g) => Says(down', "close", rtc.g)
    <3>1. "answer" \in ToPage /\ "close" \in ToPage
      BY DEF ToPage
    <3> QED
      BY <1>u, <1>3, <2>1, <3>1, PageIsTold
  <2>3. claim' \in Claims /\ peer' \in Peers /\ (peer'.g = m.of \/ peer'.g = 0)
    BY <1>3, <2>1, NobodyTypes
  <2>4. left' \in [encoders : Nat, frames : Nat, faults : Nat]
    BY <1>t, <1>u, <2>1, SpendType
  <2>5. TypeOK' /\ Kinds'
    BY <1>u, <1>4, <2>1, <2>2, <2>3, <2>4
  <2>6. Ordered(mailbox', up', peer'.g, Sent, Closed)
    <3>1. up' = up /\ up \in Seq(Message)
      BY <1>t, <1>0 DEF TypeOK
    <3>2. Ordered(mailbox', up, m.of, Sent, Closed)
      BY <1>2, <1>5
    <3>3. Ordered(mailbox', up, 0, Sent, Closed)
      BY <1>1, <1>3, <1>n, <3>1, <3>2, OrderedLowers
    <3> QED
      BY <2>3, <3>1, <3>2, <3>3
  <2>7. ~(rtc.at \in {"connected", "open"} /\ peer.g = rtc.g)
    <3> SUFFICES ASSUME rtc.at \in {"connected", "open"}, peer.g = rtc.g PROVE FALSE
      OBVIOUS
    <3>1. rtc.g = rtcGen /\ Sent = rtcGen
      BY <1>t DEF Attempt, Sent
    <3> QED
      BY <1>2, <1>3, <1>5, <1>n, <3>1
  <2> QED
    BY <1>0, <2>2, <2>5, <2>6, <2>7, OthersKeep
<1>6. CASE m.kind = "VIDEO" /\ TakeFrame(m.frame)
  <2>1. /\ UNCHANGED <<encoder, waiting, claim, down, left>>
        /\ peer' = Enqueue(peer, m.frame) \/ peer' = peer
        /\ dropped' = dropped \/ dropped' = Lost(m.frame)
    BY <1>6 DEF TakeFrame
  <2>2. peer' \in Peers /\ peer'.g = peer.g /\ peer'.open = peer.open /\ peer'.opening = peer.opening
    BY <1>u, <1>3, <2>1, EnqueueType
  <2>3. dropped' \in Frame
    BY <1>u, <1>3, <2>1 DEF Lost
  <2>4. TypeOK' /\ Kinds'
    BY <1>u, <1>4, <2>1, <2>2, <2>3
  <2> QED
    BY <1>0, <1>2, <2>1, <2>2, <2>4, OthersKeep
<1>7. CASE m.kind = "close" /\ TakeClose(m.of)
  <2>1. /\ UNCHANGED <<dropped, left>> /\ waiting' = FALSE
        /\ peer' = IF peer.g = m.of THEN NoPeer ELSE peer
        /\ claim' = NoClaim \/ claim' = claim
        /\ down' = Append(down, Say("keyframe", m.of)) \/ UNCHANGED down
        /\ encoder' = [encoder EXCEPT !.wantKey = TRUE] \/ UNCHANGED encoder
    BY <1>7 DEF TakeClose, Reply, Closes
  <2>2. /\ down' \in Seq(Message) /\ Carries(down', ToPage)
        /\ Says(down, "close", rtc.g) => Says(down', "close", rtc.g)
    <3>1. "keyframe" \in ToPage
      BY DEF ToPage
    <3> QED
      BY <1>u, <1>3, <2>1, <3>1, PageIsTold
  <2>3. claim' \in Claims /\ peer' \in Peers /\ (peer'.g = peer.g \/ peer'.g = 0)
    BY <1>u, <2>1, NobodyTypes
  <2>4. encoder' \in Encoders
    BY <1>u, <2>1 DEF Encoders
  <2>5. TypeOK' /\ Kinds'
    BY <1>u, <1>4, <2>1, <2>2, <2>3, <2>4
  <2>6. Ordered(mailbox', up', peer'.g, Sent, Closed)
    <3>1. up' = up /\ up \in Seq(Message)
      BY <1>t, <1>0 DEF TypeOK
    <3>2. Ordered(mailbox', up, 0, Sent, Closed)
      BY <1>1, <1>2, <1>n, <3>1, OrderedLowers
    <3> QED
      BY <1>2, <2>3, <3>1, <3>2
  <2>7. rtc.at \in {"connected", "open"} /\ peer.g = rtc.g => peer' = peer
    <3> SUFFICES ASSUME rtc.at \in {"connected", "open"}, peer.g = rtc.g PROVE peer' = peer
      OBVIOUS
    <3>1. rtc.g = rtcGen /\ rtcGen > 0 /\ Closed = rtcGen - 1
      BY <1>t DEF Attempt, Closed
    <3> QED
      BY <1>2, <1>3, <1>7, <1>n, <2>1, <3>1
  <2> QED
    BY <1>0, <2>2, <2>5, <2>6, <2>7, OthersKeep
<1> QED
  BY <1>0, <1>5, <1>6, <1>7

LEMMA HubKeeps == Inv /\ Hub => Inv'
<1> SUFFICES ASSUME Inv, Hub PROVE Inv'
  OBVIOUS
<1>t. /\ TypeOK /\ Kinds /\ Attempt /\ Ordered(mailbox, up, peer.g, Sent, Closed)
  BY DEF Inv
<1>u. /\ down \in Seq(Message) /\ Carries(down, ToPage) /\ peer \in Peers /\ claim \in Claims
      /\ left \in [encoders : Nat, frames : Nat, faults : Nat] /\ channel \in Seq(Message)
      /\ notices \subseteq Nat /\ mailbox \in Seq(Message) /\ up \in Seq(Message) /\ peer.g \in Nat
  BY <1>t DEF TypeOK, Kinds, Peers, Claims
<1>4. ASSUME UNCHANGED <<encoder, wsConfig, waiting, mailbox, up, pageSide, refused>>,
             down' \in Seq(Message), Carries(down', ToPage), peer' \in Peers,
             claim' \in Claims, notices' \subseteq Nat, channel' \in Seq(Message),
             left' \in [encoders : Nat, frames : Nat, faults : Nat]
      PROVE  TypeOK' /\ Kinds'
  <2>1. UNCHANGED <<rtc, rtcGen, retryTimer, picked, available, page, crossed>>
    BY <1>4 DEF pageSide, attempts
  <2> QED
    BY <1>t, <1>4, <2>1 DEF TypeOK, Kinds, Peers, Claims, refused
<1>5. CASE TakeMail
  BY <1>5, MailKeeps
<1>6. CASE ChannelOpen
  <2>1. /\ peer' = [peer EXCEPT !.opening = FALSE, !.open = TRUE] /\ claim' = [g |-> peer.g, active |-> TRUE]
        /\ UNCHANGED <<encoder, wsConfig, waiting, mailbox, notices, down, up, channel, pageSide, refused, left>>
    BY <1>6 DEF ChannelOpen, server
  <2>2. peer' \in Peers /\ peer'.g = peer.g /\ peer'.open /\ claim' \in Claims
    BY <1>u, <2>1 DEF Peers, Claims
  <2>3. TypeOK' /\ Kinds'
    BY <1>u, <1>4, <2>1, <2>2
  <2> QED
    BY <1>t, <2>1, <2>2, <2>3, OthersKeep
<1>7. CASE ChannelClose
  <2>1. /\ rtc.g # peer.g
        /\ peer' = [peer EXCEPT !.open = FALSE, !.queue = <<>>] /\ claim' = [claim EXCEPT !.active = FALSE]
        /\ UNCHANGED <<encoder, wsConfig, waiting, mailbox, notices, down, up, channel, pageSide, refused, left>>
    BY <1>7 DEF ChannelClose, server
  <2>2. peer' \in Peers /\ peer'.g = peer.g
    <3>1. <<>> \in Seq(Message)
      OBVIOUS
    <3> QED
      BY <1>u, <2>1, <3>1 DEF Peers
  <2>3. claim' \in Claims
    BY <1>u, <2>1 DEF Claims
  <2>4. TypeOK' /\ Kinds'
    BY <1>u, <1>4, <2>1, <2>2, <2>3
  <2> QED
    BY <1>t, <2>1, <2>2, <2>4, OthersKeep
<1>8. CASE Flush
  <2>1. /\ peer.queue # <<>> /\ peer' = [peer EXCEPT !.queue = Tail(peer.queue)]
        /\ channel' = Append(channel, Head(peer.queue)) \/ channel' = channel
        /\ UNCHANGED <<encoder, wsConfig, waiting, claim, mailbox, notices, down, up, pageSide, refused, left>>
    BY <1>8 DEF Flush, server
  <2>2. peer.queue \in Seq(Message)
    BY <1>u DEF Peers
  <2>3. Tail(peer.queue) \in Seq(Message) /\ Head(peer.queue) \in Message
    BY <2>1, <2>2
  <2>4. peer' \in Peers /\ peer'.g = peer.g /\ peer'.open = peer.open /\ peer'.opening = peer.opening
    BY <1>u, <2>1, <2>3 DEF Peers
  <2>5. channel' \in Seq(Message)
    <3> DEFINE m == Head(peer.queue)
    <3>1. m \in Message /\ (channel' = Append(channel, m) \/ channel' = channel)
      BY <2>1, <2>3
    <3>2. channel \in Seq(Message)
      BY <1>u
    <3> HIDE DEF m
    <3>3. Append(channel, m) \in Seq(Message)
      BY <3>1, <3>2
    <3> QED
      BY <3>1, <3>2, <3>3
  <2>6. TypeOK' /\ Kinds'
    BY <1>u, <1>4, <2>1, <2>4, <2>5
  <2> QED
    BY <1>t, <2>1, <2>4, <2>6, OthersKeep
<1>9. CASE PeerDies
  <2>1. /\ peer' = NoPeer /\ claim' = [claim EXCEPT !.active = FALSE] /\ notices' = notices \cup {peer.g}
        /\ channel' \in {channel, <<>>} /\ (UNCHANGED left \/ Spend("faults"))
        /\ UNCHANGED <<encoder, wsConfig, waiting, mailbox, down, up, pageSide, refused>>
    BY <1>9 DEF PeerDies, server, ClaimAfterDeath, Owes
  <2>2. claim' \in Claims /\ peer' \in Peers /\ peer'.g = 0
    BY <1>u, <2>1, NobodyTypes DEF Claims
  <2>3. left' \in [encoders : Nat, frames : Nat, faults : Nat]
    BY <1>t, <1>u, <2>1, SpendType
  <2>4. channel' \in Seq(Message)
    <3>1. <<>> \in Seq(Message)
      OBVIOUS
    <3> QED
      BY <1>u, <2>1, <3>1
  <2>5. TypeOK' /\ Kinds'
    BY <1>u, <1>4, <2>1, <2>2, <2>3, <2>4
  <2>6. Ordered(mailbox', up', peer'.g, Sent, Closed)
    BY <1>t, <1>u, <2>1, <2>2, OrderedLowers, Numbers
  <2> QED
    BY <2>1, <2>5, <2>6, OthersKeep
<1>10. CASE Notice
  <2>1. PICK g \in notices : /\ notices' = notices \ {g}
                             /\ down' = Append(down, Say("close", g))
    BY <1>10 DEF Notice
  <2>2. UNCHANGED <<encoder, wsConfig, waiting, claim, mailbox, peer, up, channel, pageSide, refused, left>>
    BY <1>10 DEF Notice, server
  <2>3. g \in Nat /\ "close" \in ToPage /\ "close" \in AllKinds
    BY <1>u DEF ToPage, AllKinds
  <2>4. /\ down' \in Seq(Message) /\ Carries(down', ToPage)
        /\ Says(down, "close", rtc.g) => Says(down', "close", rtc.g)
    BY <1>u, <2>1, <2>3, PageIsTold
  <2>5. Says(down', "close", g)
    <3> DEFINE m == Say("close", g)
    <3>1. m.kind = "close" /\ m.of = g
      BY <2>3, SayType
    <3> HIDE DEF m
    <3>2. Len(down) + 1 \in DOMAIN Append(down, m) /\ Append(down, m)[Len(down) + 1] = m
      BY <1>u
    <3>3. Says(Append(down, m), "close", g)
      BY <3>1, <3>2 DEF Says
    <3> QED
      BY <2>1, <3>3 DEF m
  <2>6. TypeOK' /\ Kinds'
    BY <1>u, <1>4, <2>1, <2>2, <2>4
  <2>7. rtc.g \in notices => rtc.g \in notices' \/ Says(down', "close", rtc.g)
    BY <2>1, <2>5
  <2> QED
    BY <1>t, <2>1, <2>2, <2>4, <2>6, <2>7, OthersKeep
<1> QED
  BY <1>5, <1>6, <1>7, <1>8, <1>9, <1>10 DEF Hub

-----------------------------------------------------------------------------
(* The page's attempts begin, go on and end. *)

Rtcs == [g : Nat, at : {"none", "offering", "offered", "answered", "connected", "open"}]
Pages == [stream : Nat, told : Nat, seq : Int, awaiting : BOOLEAN, last : Frame]

\* The invariant without the types.
Core ==
  /\ Attempt /\ Ordered(mailbox, up, peer.g, Sent, Closed)
  /\ AlwaysTrying /\ OpenIsServed

LEMMA NoRtcType == NoRtc \in Rtcs /\ NoRtc.at = "none" /\ NoRtc.g = 0
BY DEF NoRtc, Rtcs, None

LEMMA GoesOn ==
  ASSUME Inv, UNCHANGED <<rtc, rtcGen, retryTimer, picked, available, mailbox, peer, notices>>,
         Ordered(mailbox, up', peer.g, Sent, Closed),
         rtc.at \in {"connected", "open"} /\ Says(down, "close", rtc.g) => Says(down', "close", rtc.g)
  PROVE  Core'
<1>1. Attempt' /\ AlwaysTrying' /\ Sent' = Sent /\ Closed' = Closed
  BY DEF Inv, Attempt, AlwaysTrying, Sent, Closed
<1>2. OpenIsServed'
  BY ServedStays DEF Inv
<1> QED
  BY <1>1, <1>2 DEF Core

\* maybeRtc
LEMMA Starts ==
  ASSUME Inv, NEW retrying \in BOOLEAN, MaybeRtc(retrying), UNCHANGED <<mailbox, peer, notices>>,
         up' \in Seq(Message), Ordered(mailbox, up', peer.g, Sent, Closed),
         rtc.at \in {"connected", "open"} /\ Says(down, "close", rtc.g) => Says(down', "close", rtc.g)
  PROVE  Core' /\ rtc' \in Rtcs /\ rtcGen' \in 0..MaxAttempt /\ retryTimer' \in BOOLEAN
<1>n. /\ rtcGen \in Nat /\ peer.g \in Nat /\ Sent \in Nat /\ Closed \in Nat /\ Sent <= rtcGen /\ Closed <= rtcGen
      /\ mailbox \in Seq(Message)
  BY Numbers
<1>t. rtc \in Rtcs /\ rtcGen \in 0..MaxAttempt /\ retryTimer \in BOOLEAN
  BY DEF Inv, TypeOK, Rtcs
<1>1. CASE UNCHANGED attempts /\ (retryTimer \/ rtc # NoRtc \/ picked' # "webrtc" \/ ~available')
  <2>1. UNCHANGED <<rtc, rtcGen, retryTimer>>
    BY <1>1 DEF attempts
  <2>2. Attempt' /\ AlwaysTrying' /\ Sent' = Sent /\ Closed' = Closed
    BY <1>1, <2>1 DEF Inv, Attempt, AlwaysTrying, Sent, Closed
  <2>3. OpenIsServed'
    BY <2>1, ServedStays DEF Inv
  <2> QED
    BY <1>t, <2>1, <2>2, <2>3 DEF Core
<1>2. CASE /\ rtc = NoRtc /\ rtcGen < MaxAttempt /\ rtcGen' = rtcGen + 1
           /\ rtc' = [g |-> rtcGen + 1, at |-> "offering"] /\ retryTimer' = FALSE
  <2>1. rtc' \in Rtcs /\ rtc'.at = "offering" /\ rtc'.g = rtcGen + 1 /\ rtcGen' \in 0..MaxAttempt
    BY <1>2, <1>n, BoundAssumption DEF Rtcs
  <2>2. Sent' = rtcGen /\ Closed' = rtcGen
    BY <1>2, <1>n, <2>1 DEF Sent, Closed
  <2>3. Attempt' /\ OpenIsServed'
    BY <1>2, <1>n, <2>1 DEF Attempt, OpenIsServed
  <2>4. AlwaysTrying'
    BY <2>1, NoRtcType DEF AlwaysTrying
  <2>5. Ordered(mailbox, up', peer.g, rtcGen, rtcGen)
    <3>1. peer.g <= peer.g
      BY <1>n
    <3> QED
      BY <1>n, <3>1, OrderedLoosens
  <2> QED
    BY <1>2, <2>1, <2>2, <2>3, <2>4, <2>5 DEF Core
<1>3. \/ UNCHANGED attempts /\ (retryTimer \/ rtc # NoRtc \/ picked' # "webrtc" \/ ~available')
      \/ /\ rtc = NoRtc /\ rtcGen < MaxAttempt /\ rtcGen' = rtcGen + 1
         /\ rtc' = [g |-> rtcGen + 1, at |-> "offering"] /\ retryTimer' = FALSE
  BY DEF MaybeRtc
<1> QED
  BY <1>1, <1>2, <1>3

\* closeRtc and failRtc: the page gives its attempt up and says so.
LEMMA WordIsOrdered ==
  ASSUME Inv
  PROVE  /\ up \o ClosingWord \in Seq(Message) /\ Carries(up \o ClosingWord, ToSession)
         /\ Ordered(mailbox, up \o ClosingWord, peer.g, rtcGen, rtcGen)
<1>n. /\ rtcGen \in Nat /\ peer.g \in Nat /\ Sent \in Nat /\ Closed \in Nat /\ Sent <= rtcGen /\ Closed <= rtcGen
      /\ mailbox \in Seq(Message) /\ up \in Seq(Message) /\ peer.g <= peer.g
  BY Numbers
<1>1. Ordered(mailbox, up, peer.g, Sent, Closed) /\ Carries(up, ToSession)
  BY DEF Inv, Kinds
<1>2. Ordered(mailbox, up, peer.g, rtcGen, rtcGen)
  BY <1>n, <1>1, OrderedLoosens
<1>3. CASE rtc = NoRtc
  <2>1. up \o ClosingWord = up
    BY <1>3, <1>n DEF ClosingWord
  <2> QED
    BY <1>n, <1>1, <1>2, <2>1
<1>4. CASE rtc # NoRtc
  <2> DEFINE m == Say("close", rtcGen)
  <2>1. m \in Message /\ m.kind = "close" /\ m.of = rtcGen
    BY <1>n, SayType DEF AllKinds, ToHub
  <2>2. rtc.g = rtcGen
    BY <1>4 DEF Inv, Attempt
  <2>3. ClosingWord = <<m>>
    BY <1>4, <2>2 DEF ClosingWord
  <2> HIDE DEF m
  <2>4. up \o ClosingWord = Append(up, m)
    BY <1>n, <2>1, <2>3, OneMore
  <2>5. Append(up, m) \in Seq(Message) /\ Carries(Append(up, m), ToSession)
    <3>1. m.kind \in ToSession
      BY <2>1 DEF ToSession
    <3> QED
      BY <1>n, <1>1, <2>1, <3>1, AppendFacts
  <2>6. Ordered(mailbox, Append(up, m), peer.g, rtcGen, rtcGen)
    <3>1. m.kind # "offer" /\ m.of <= rtcGen
      BY <1>n, <2>1
    <3> QED
      BY <1>n, <1>2, <2>1, <3>1, OrderedSays
  <2> QED
    BY <2>4, <2>5, <2>6
<1> QED
  BY <1>3, <1>4

LEMMA Ends ==
  ASSUME Inv, rtc' = NoRtc, UNCHANGED <<rtcGen, mailbox, peer>>,
         picked' = "webrtc" /\ available' => retryTimer',
         Ordered(mailbox, up', peer.g, rtcGen, rtcGen)
  PROVE  Core'
<1>1. Sent' = rtcGen /\ Closed' = rtcGen /\ Attempt' /\ OpenIsServed'
  BY NoRtcType DEF Sent, Closed, Attempt, OpenIsServed
<1>2. AlwaysTrying'
  BY DEF AlwaysTrying
<1> QED
  BY <1>1, <1>2 DEF Core

\* The page asks for a key.
LEMMA KeyIsOrdered ==
  ASSUME NEW p \in Seq(Message), NEW q \in Seq(Message), Carries(q, ToSession),
         NEW last, NEW sent, NEW closed, Ordered(p, q, last, sent, closed)
  PROVE  /\ q \o KeyWanted \in Seq(Message) /\ Carries(q \o KeyWanted, ToSession)
         /\ Ordered(p, q \o KeyWanted, last, sent, closed)
         /\ q \o KeyWanted = Append(q, Say("REQUEST_KEYFRAME", None))
<1> DEFINE m == Say("REQUEST_KEYFRAME", None)
<1>1. m \in Message /\ m.kind = "REQUEST_KEYFRAME"
  BY SayType DEF AllKinds, ToSession, None
<1>2. KeyWanted = <<m>>
  BY DEF KeyWanted
<1> HIDE DEF m
<1>3. q \o KeyWanted = Append(q, m)
  BY <1>1, <1>2, OneMore
<1>4. Append(q, m) \in Seq(Message) /\ Carries(Append(q, m), ToSession)
  <2>1. m.kind \in ToSession
    BY <1>1 DEF ToSession
  <2> QED
    BY <1>1, <2>1, AppendFacts
<1>5. Ordered(p, Append(q, m), last, sent, closed)
  <2>1. m.kind # "offer" /\ m.kind # "close"
    BY <1>1
  <2> QED
    BY <1>1, <2>1, OrderedSays
<1> QED
  BY <1>3, <1>4, <1>5 DEF m

-----------------------------------------------------------------------------
(* The page's steps. *)

\* The types that a step of the page may change.
LEMMA PageTypes ==
  ASSUME TypeOK, Kinds, UNCHANGED <<server, hub, refused>>,
         down' \in Seq(Message), Carries(down', ToPage), up' \in Seq(Message), Carries(up', ToSession),
         channel' \in Seq(Message), rtc' \in Rtcs, rtcGen' \in 0..MaxAttempt, retryTimer' \in BOOLEAN,
         picked' \in {"websocket", "webrtc"}, available' \in BOOLEAN, page' \in Pages,
         crossed' \in BOOLEAN, left' \in [encoders : Nat, frames : Nat, faults : Nat]
  PROVE  TypeOK' /\ Kinds'
<1>1. UNCHANGED <<encoder, wsConfig, waiting, claim, mailbox, peer, notices>>
  BY DEF server, hub
<1> QED
  BY <1>1 DEF TypeOK, Kinds, Rtcs, Pages, refused

LEMMA CoreKeeps ==
  ASSUME TypeOK', Kinds', Core'
  PROVE  Inv'
BY DEF Inv, Core

\* What the invariant gives to each of them.
LEMMA PageFacts ==
  ASSUME Inv
  PROVE  /\ TypeOK /\ Kinds /\ Attempt /\ Ordered(mailbox, up, peer.g, Sent, Closed)
         /\ mailbox \in Seq(Message) /\ up \in Seq(Message) /\ Carries(up, ToSession)
         /\ down \in Seq(Message) /\ Carries(down, ToPage) /\ channel \in Seq(Message)
         /\ rtc \in Rtcs /\ rtcGen \in 0..MaxAttempt /\ rtcGen \in Nat /\ retryTimer \in BOOLEAN
         /\ picked \in {"websocket", "webrtc"} /\ available \in BOOLEAN /\ page \in Pages
         /\ crossed \in BOOLEAN /\ left \in [encoders : Nat, frames : Nat, faults : Nat]
         /\ peer.g \in Nat /\ Sent \in Nat /\ Closed \in Nat /\ <<>> \in Seq(Message)
<1>1. TypeOK /\ Kinds /\ Attempt /\ Ordered(mailbox, up, peer.g, Sent, Closed)
  BY DEF Inv
<1>2. /\ mailbox \in Seq(Message) /\ up \in Seq(Message) /\ Carries(up, ToSession)
      /\ down \in Seq(Message) /\ Carries(down, ToPage) /\ channel \in Seq(Message)
      /\ rtc \in Rtcs /\ rtcGen \in 0..MaxAttempt /\ retryTimer \in BOOLEAN
      /\ picked \in {"websocket", "webrtc"} /\ available \in BOOLEAN /\ page \in Pages
      /\ crossed \in BOOLEAN /\ left \in [encoders : Nat, frames : Nat, faults : Nat]
  BY <1>1 DEF TypeOK, Kinds, Rtcs, Pages
<1>3. <<>> \in Seq(Message)
  OBVIOUS
<1> QED
  BY <1>1, <1>2, <1>3, Numbers

LEMMA SendOfferKeeps == Inv /\ SendOffer => Inv'
<1> SUFFICES ASSUME Inv, SendOffer PROVE Inv'
  OBVIOUS
<1> DEFINE m == Say("offer", rtcGen)
<1>1. /\ rtc.at = "offering" /\ rtc.g = rtcGen /\ rtcGen > 0 /\ Sent = rtcGen - 1
  BY DEF SendOffer, Inv, Attempt, Sent
<1>2. /\ rtc' = [rtc EXCEPT !.at = "offered"] /\ up' = Append(up, m)
      /\ UNCHANGED <<server, hub, down, channel, rtcGen, retryTimer, picked, available, page, refused,
                     crossed, left>>
  BY <1>1 DEF SendOffer
<1>3. m \in Message /\ m.kind = "offer" /\ m.of = rtcGen
  BY PageFacts, SayType DEF AllKinds, ToHub
<1> HIDE DEF m
<1>4. rtc' \in Rtcs /\ rtc'.at = "offered" /\ rtc'.g = rtcGen
  BY <1>1, <1>2, PageFacts DEF Rtcs
<1>5. up' \in Seq(Message) /\ Carries(up', ToSession)
  <2>1. m.kind \in ToSession
    BY <1>3 DEF ToSession
  <2> QED
    BY <1>2, <1>3, <2>1, PageFacts, AppendFacts
<1>6. TypeOK' /\ Kinds'
  BY <1>2, <1>4, <1>5, PageFacts, PageTypes
<1>7. Sent' = rtcGen /\ Closed' = Closed /\ Attempt' /\ OpenIsServed'
  BY <1>1, <1>2, <1>4 DEF Sent, Closed, Attempt, OpenIsServed
<1>8. AlwaysTrying'
  BY <1>4, NoRtcType DEF AlwaysTrying
<1>9. Ordered(mailbox, Append(up, m), peer.g, m.of, Closed)
  <2>1. Sent < m.of
    BY <1>1, <1>3, PageFacts
  <2> QED
    BY <1>3, <2>1, PageFacts, OrderedOffers
<1>10. Core'
  BY <1>2, <1>3, <1>7, <1>8, <1>9 DEF Core, hub
<1> QED
  BY <1>6, <1>10, CoreKeeps

LEMMA ConnectKeeps == Inv /\ Connect => Inv'
<1> SUFFICES ASSUME Inv, Connect PROVE Inv'
  OBVIOUS
<1>1. /\ rtc.at = "answered" /\ peer.g = rtc.g
      /\ rtc' = [rtc EXCEPT !.at = "connected"] /\ peer' = [peer EXCEPT !.opening = TRUE]
      /\ UNCHANGED <<encoder, wsConfig, waiting, claim, mailbox, notices, down, up, channel, rtcGen, retryTimer,
                     picked, available, page, crossed, refused, left>>
  BY DEF Connect, server
<1>t. TypeOK /\ Kinds /\ peer \in Peers
  BY PageFacts DEF TypeOK, Peers
<1>2. rtc' \in Rtcs /\ rtc'.at = "connected" /\ rtc'.g = rtc.g
  BY <1>1, PageFacts DEF Rtcs
<1>3. peer' \in Peers /\ peer'.g = peer.g /\ peer'.opening
  BY <1>1, <1>t DEF Peers
<1>4. TypeOK' /\ Kinds'
  BY <1>1, <1>2, <1>3, <1>t DEF TypeOK, Kinds, Rtcs, Peers, refused
<1>5. Sent' = Sent /\ Closed' = Closed /\ Attempt'
  BY <1>1, <1>2, PageFacts DEF Sent, Closed, Attempt
<1>6. OpenIsServed' /\ AlwaysTrying'
  BY <1>1, <1>2, <1>3, NoRtcType DEF OpenIsServed, AlwaysTrying
<1>7. Core'
  BY <1>1, <1>3, <1>5, <1>6, PageFacts DEF Core
<1> QED
  BY <1>4, <1>7, CoreKeeps

LEMMA KeyIsAsked ==
  ASSUME Inv
  PROVE  /\ up \o KeyWanted \in Seq(Message) /\ Carries(up \o KeyWanted, ToSession)
         /\ Ordered(mailbox, up \o KeyWanted, peer.g, Sent, Closed)
         /\ up \o KeyWanted = Append(up, Say("REQUEST_KEYFRAME", None))
<1>1. /\ mailbox \in Seq(Message) /\ up \in Seq(Message) /\ Carries(up, ToSession)
      /\ Ordered(mailbox, up, peer.g, Sent, Closed)
  BY PageFacts
<1> QED
  BY <1>1, KeyIsOrdered

LEMMA OnOpenKeeps == Inv /\ OnOpen => Inv'
<1> SUFFICES ASSUME Inv, OnOpen PROVE Inv'
  OBVIOUS
<1>1. /\ rtc.at = "connected"
      /\ rtc' = [rtc EXCEPT !.at = "open"] /\ page' = [page EXCEPT !.awaiting = TRUE]
      /\ up' = Append(up, Say("REQUEST_KEYFRAME", None))
      /\ UNCHANGED <<server, hub, down, channel, rtcGen, retryTimer, picked, available, refused,
                     crossed, left>>
  BY DEF OnOpen
<1>2. rtc' \in Rtcs /\ rtc'.at = "open" /\ rtc'.g = rtc.g /\ page' \in Pages
  BY <1>1, PageFacts DEF Rtcs, Pages
<1>3. /\ up' \in Seq(Message) /\ Carries(up', ToSession)
      /\ Ordered(mailbox, up', peer.g, Sent, Closed)
  BY <1>1, KeyIsAsked
<1>4. TypeOK' /\ Kinds'
  BY <1>1, <1>2, <1>3, PageFacts, PageTypes
<1>5. peer' = peer /\ mailbox' = mailbox /\ rtcGen' = rtcGen
  BY <1>1 DEF hub
<1>6. Sent' = Sent /\ Closed' = Closed
  BY <1>1, <1>2, <1>5 DEF Sent, Closed
<1>7. Attempt'
  <2>1. rtc.g = rtcGen /\ rtcGen > 0
    BY <1>1, PageFacts DEF Attempt
  <2> QED
    BY <1>2, <1>5, <2>1 DEF Attempt
<1>8. OpenIsServed'
  <2>1. notices' = notices /\ down' = down /\ OpenIsServed
    BY <1>1 DEF hub, Inv
  <2> QED
    BY <1>1, <1>2, <1>5, <2>1 DEF OpenIsServed
<1>9. AlwaysTrying'
  BY <1>2, NoRtcType DEF AlwaysTrying
<1>10. Core'
  BY <1>3, <1>5, <1>6, <1>7, <1>8, <1>9 DEF Core
<1> QED
  BY <1>4, <1>10, CoreKeeps

LEMMA EndingKeeps ==
  Inv /\ (GiveUp \/ Retry \/ Reconnect \/ \E t \in {"websocket", "webrtc"} \ {picked} : SetTransport(t)) => Inv'
<1> SUFFICES ASSUME Inv, GiveUp \/ Retry \/ Reconnect \/ \E t \in {"websocket", "webrtc"} \ {picked} : SetTransport(t)
             PROVE  Inv'
  OBVIOUS
<1>1. CASE GiveUp
  <2>1. /\ up' = up \o ClosingWord /\ rtc' = NoRtc /\ rtcGen' = rtcGen
        /\ retryTimer' = (picked = "webrtc") /\ channel' = <<>> /\ Spend("faults")
        /\ UNCHANGED <<server, hub, down, picked, available, page, refused, crossed>>
    BY <1>1 DEF GiveUp, FailRtc
  <2>2. left' \in [encoders : Nat, frames : Nat, faults : Nat]
    BY <2>1, PageFacts, SpendType
  <2>3. TypeOK' /\ Kinds'
    BY <2>1, <2>2, PageFacts, PageTypes, NoRtcType, WordIsOrdered
  <2>4. Core'
    BY <2>1, Ends, WordIsOrdered DEF hub
  <2> QED
    BY <2>3, <2>4, CoreKeeps
<1>2. CASE Retry
  <2>1. /\ UNCHANGED <<picked, available>> /\ MaybeRtc(TRUE)
        /\ UNCHANGED <<server, hub, down, up, channel, page, refused, crossed, left>>
    BY <1>2 DEF Retry
  <2>2. UNCHANGED <<mailbox, peer, notices>>
    BY <2>1 DEF hub
  <2>3. Core' /\ rtc' \in Rtcs /\ rtcGen' \in 0..MaxAttempt /\ retryTimer' \in BOOLEAN
    BY <2>1, <2>2, PageFacts, Starts
  <2>4. TypeOK' /\ Kinds'
    BY <2>1, <2>3, PageFacts, PageTypes
  <2> QED
    BY <2>3, <2>4, CoreKeeps
<1>3. ASSUME NEW t \in {"websocket", "webrtc"} \ {picked}, SetTransport(t) PROVE Inv'
  <2>1. /\ Spend("faults") /\ picked' = t /\ UNCHANGED available
        /\ UNCHANGED <<server, hub, down, page, refused, crossed>>
    BY <1>3 DEF SetTransport
  <2>2. left' \in [encoders : Nat, frames : Nat, faults : Nat]
    BY <2>1, PageFacts, SpendType
  <2>3. UNCHANGED <<mailbox, peer, notices>>
    BY <2>1 DEF hub
  <2>4. CASE t = "webrtc"
    <3>1. MaybeRtc(FALSE) /\ UNCHANGED <<up, channel>>
      BY <1>3, <2>4 DEF SetTransport
    <3>2. Core' /\ rtc' \in Rtcs /\ rtcGen' \in 0..MaxAttempt /\ retryTimer' \in BOOLEAN
      BY <2>1, <2>3, <3>1, PageFacts, Starts
    <3>3. TypeOK' /\ Kinds'
      BY <2>1, <2>2, <2>4, <3>1, <3>2, PageFacts, PageTypes
    <3> QED
      BY <3>2, <3>3, CoreKeeps
  <2>5. CASE t = "websocket"
    <3>1. /\ up' = up \o ClosingWord /\ rtc' = NoRtc /\ rtcGen' = rtcGen /\ retryTimer' = FALSE
          /\ channel' = <<>>
      BY <1>3, <2>5 DEF SetTransport, CloseRtc
    <3>2. TypeOK' /\ Kinds'
      BY <2>1, <2>2, <2>5, <3>1, PageFacts, PageTypes, NoRtcType, WordIsOrdered
    <3>3. Core'
      BY <2>1, <2>3, <2>5, <3>1, Ends, WordIsOrdered
    <3> QED
      BY <3>2, <3>3, CoreKeeps
  <2> QED
    BY <2>4, <2>5
<1>4. CASE Reconnect
  <2>1. /\ Spend("faults") /\ encoder' = NewEncoder(1) /\ wsConfig' = 0 /\ waiting' = FALSE
        /\ claim' = NoClaim /\ mailbox' = <<>> /\ peer' = NoPeer /\ notices' = {}
        /\ down' = <<Say("RTC_CONFIG", 0), Say("STREAM_STATE", 1)>>
        /\ up' = <<>> /\ rtc' = NoRtc /\ retryTimer' = FALSE /\ UNCHANGED rtcGen /\ channel' = <<>>
        /\ available' = FALSE /\ page' = FreshPage /\ dropped' = NoFrame /\ keyLost' = FALSE /\ crossed' = FALSE
        /\ UNCHANGED picked
    BY <1>4 DEF Reconnect, CloseRtc, None
  <2>2. left' \in [encoders : Nat, frames : Nat, faults : Nat]
    BY <2>1, PageFacts, SpendType
  <2>3. /\ encoder' \in Encoders /\ page' \in Pages /\ dropped' \in Frame
    BY <2>1 DEF NewEncoder, Encoders, FreshPage, Pages, NoFrame, Frame, None
  <2>4. down' \in Seq(Message) /\ Carries(down', ToPage)
    <3> DEFINE m == Say("RTC_CONFIG", 0)
               n == Say("STREAM_STATE", 1)
    <3>1. m \in Message /\ n \in Message /\ m.kind \in ToPage /\ n.kind \in ToPage
      BY SayType DEF AllKinds, ToPage
    <3> HIDE DEF m, n
    <3>2. <<m, n>> \in Seq(Message) /\ Carries(<<m, n>>, ToPage)
      BY <3>1 DEF Carries
    <3> QED
      BY <2>1, <3>2 DEF m, n
  <2>5. TypeOK'
    <3>1. Len(<<>>) <= MaxMail /\ <<>> \in Seq(Message)
      BY BoundAssumption
    <3>2. claim' \in Claims /\ peer' \in Peers /\ rtc' \in Rtcs
      BY <2>1, NobodyTypes, NoRtcType
    <3> QED
      BY <2>1, <2>2, <2>3, <2>4, <3>1, <3>2, PageFacts DEF TypeOK, Claims, Peers, Rtcs, Pages, Encoders
  <2>6. Kinds'
    <3>1. Carries(<<>>, ToHub) /\ Carries(<<>>, ToSession)
      BY DEF Carries
    <3> QED
      BY <2>1, <2>4, <3>1 DEF Kinds
  <2>7. Sent' = rtcGen /\ Closed' = rtcGen /\ Attempt' /\ OpenIsServed' /\ AlwaysTrying'
    BY <2>1, NoRtcType DEF Sent, Closed, Attempt, OpenIsServed, AlwaysTrying
  <2>8. Core'
    BY <2>1, <2>7, PageFacts, NobodyQueues, NobodyTypes DEF Core
  <2> QED
    BY <2>5, <2>6, <2>8, CoreKeeps
<1> QED
  BY <1>1, <1>2, <1>3, <1>4

LEMMA SeenType ==
  ASSUME NEW p \in Pages, NEW n \in Int, NEW b \in BOOLEAN, NEW f \in Frame
  PROVE  /\ [p EXCEPT !.seq = n, !.awaiting = b] \in Pages
         /\ [p EXCEPT !.seq = n, !.awaiting = b, !.last = f] \in Pages
BY DEF Pages

\* A frame at the decoder changes the page's video and may ask for a key.
LEMMA DecoderFacts ==
  ASSUME Inv, NEW m \in Message, Decoder(m)
  PROVE  /\ page' \in Pages /\ crossed' \in BOOLEAN
         /\ left' \in [encoders : Nat, frames : Nat, faults : Nat]
         /\ up' = up \/ up' = up \o KeyWanted
<1> DEFINE f == m.frame
<1>1. f \in Frame
  BY DEF Message
<1> HIDE DEF f
<1>2. f.n \in Nat
  BY <1>1 DEF Frame
<1>3. ASSUME NEW lagging \in BOOLEAN, NEW broken \in BOOLEAN, OnVideo(f, lagging, broken)
      PROVE  page' \in Pages /\ crossed' \in BOOLEAN /\ (up' = up \/ up' = up \o KeyWanted)
  <2>1. page \in Pages /\ crossed \in BOOLEAN
    BY PageFacts
  <2>2. \/ UNCHANGED <<page, up, crossed>>
        \/ /\ crossed' = (crossed \/ f.epoch # page.stream)
           /\ \/ page' = [page EXCEPT !.seq = f.n, !.awaiting = TRUE]
              \/ page' = [page EXCEPT !.seq = f.n, !.awaiting = TRUE, !.last = NoFrame]
              \/ page' = [page EXCEPT !.seq = f.n, !.awaiting = FALSE, !.last = f]
           /\ up' = up \/ up' = up \o KeyWanted
    BY <1>3 DEF OnVideo
  <2>3. NoFrame \in Frame
    BY DEF NoFrame, Frame, None
  <2>4. crossed' \in BOOLEAN
    BY <2>1, <2>2
  <2>5. page' \in Pages
    <3>1. CASE page' = page
      BY <2>1, <3>1
    <3>2. f.n \in Int
      BY <1>2
    <3>3. /\ [page EXCEPT !.seq = f.n, !.awaiting = TRUE] \in Pages
          /\ [page EXCEPT !.seq = f.n, !.awaiting = TRUE, !.last = NoFrame] \in Pages
          /\ [page EXCEPT !.seq = f.n, !.awaiting = FALSE, !.last = f] \in Pages
      BY <1>1, <2>1, <2>3, <3>2, SeenType
    <3> QED
      BY <2>2, <3>1, <3>3
  <2> QED
    BY <2>2, <2>4, <2>5
<1>4. \/ OnVideo(f, FALSE, FALSE) /\ UNCHANGED left
      \/ \E lagging \in BOOLEAN : OnVideo(f, lagging, ~lagging) /\ Spend("faults")
  BY DEF Decoder, f
<1>5. left' \in [encoders : Nat, frames : Nat, faults : Nat]
  BY <1>4, PageFacts, SpendType
<1>6. CASE OnVideo(f, FALSE, FALSE)
  BY <1>3, <1>5, <1>6
<1>7. ASSUME NEW lagging \in BOOLEAN, OnVideo(f, lagging, ~lagging)
      PROVE  page' \in Pages /\ crossed' \in BOOLEAN /\ (up' = up \/ up' = up \o KeyWanted)
  BY <1>3, <1>7
<1> QED
  BY <1>4, <1>5, <1>6, <1>7

\* The page's video moves and its attempt stays.
LEMMA VideoKeeps ==
  ASSUME Inv, UNCHANGED <<server, hub, picked, refused, attempts, available>>,
         page' \in Pages, crossed' \in BOOLEAN,
         left' \in [encoders : Nat, frames : Nat, faults : Nat],
         up' = up \/ up' = up \o KeyWanted,
         down' \in Seq(Message), Carries(down', ToPage), channel' \in Seq(Message),
         rtc.at \in {"connected", "open"} /\ Says(down, "close", rtc.g) => Says(down', "close", rtc.g)
  PROVE  Inv'
<1>1. UNCHANGED <<rtc, rtcGen, retryTimer, picked, available, mailbox, peer, notices>>
  BY DEF attempts, hub
<1>2. up' \in Seq(Message) /\ Carries(up', ToSession) /\ Ordered(mailbox, up', peer.g, Sent, Closed)
  BY PageFacts, KeyIsAsked
<1>3. TypeOK' /\ Kinds'
  BY <1>1, <1>2, PageFacts, PageTypes
<1>4. Core'
  BY <1>1, <1>2, GoesOn
<1> QED
  BY <1>3, <1>4, CoreKeeps

\* What the page takes from the socket.
LEMMA SocketCases ==
  ASSUME Inv, FromSocket
  PROVE  /\ down # <<>> /\ down' = Tail(down) /\ UNCHANGED <<server, hub, picked, refused>>
         /\ \/ /\ UNCHANGED <<page, up, attempts, channel, available, crossed, left>>
               /\ Head(down).kind = "close" => Head(down).of # rtcGen \/ rtc = NoRtc
               /\ Head(down).kind = "VIDEO" => rtc.at = "open"
               /\ Head(down).kind = "keyframe" => Head(down).of # rtcGen
               /\ Head(down).kind # "CONFIG"
            \/ /\ Head(down).kind = "RTC_CONFIG" /\ available' = TRUE /\ MaybeRtc(FALSE)
               /\ UNCHANGED <<page, up, channel, crossed, left>>
            \/ /\ Head(down).kind = "STREAM_STATE" /\ page' = [page EXCEPT !.told = Head(down).of]
               /\ ~(Head(down).of < page.told)
               /\ UNCHANGED <<up, attempts, channel, available, crossed, left>>
            \/ /\ Head(down).kind = "CONFIG" /\ OnConfig(Head(down).of, "websocket")
               /\ UNCHANGED <<available, crossed, left>>
            \/ /\ Head(down).kind = "VIDEO" /\ Decoder(Head(down)) /\ rtc.at # "open"
               /\ UNCHANGED <<attempts, channel, available>>
            \/ /\ Head(down).kind = "keyframe" /\ page' = [page EXCEPT !.awaiting = TRUE]
               /\ Head(down).of = rtcGen
               /\ UNCHANGED <<up, attempts, channel, available, crossed, left>>
            \/ /\ Head(down).kind = "answer" /\ rtc # NoRtc /\ Head(down).of = rtcGen
               /\ rtc' = [rtc EXCEPT !.at = IF rtc.at = "offered" THEN "answered" ELSE rtc.at]
               /\ UNCHANGED <<page, up, rtcGen, retryTimer, channel, available, crossed, left>>
            \/ /\ Head(down).kind = "close" /\ FailRtc /\ up' = up \o ClosingWord
               /\ UNCHANGED <<page, available, crossed, left>>
<1> DEFINE m == Head(down)
           videoOff == m.kind = "VIDEO" /\ videoVia = "webrtc"
           stale == \/ m.kind \in {"answer", "close", "keyframe"} /\ m.of # rtcGen
                    \/ m.kind = "STREAM_STATE" /\ (m.of < page.told \/ m.of < page.stream)
           gone == m.kind \in {"answer", "close"} /\ rtc = NoRtc
<1>1. down # <<>> /\ down' = Tail(down) /\ UNCHANGED <<server, hub, picked, refused>>
  BY Zenon DEF FromSocket
<1>2. m \in Message /\ m.kind \in ToPage
  <2>1. down \in Seq(Message) /\ Carries(down, ToPage)
    BY PageFacts
  <2> QED
    BY <1>1, <2>1, TailCarries
<1>3. CASE videoOff \/ stale \/ gone
  <2>1. UNCHANGED <<page, up, attempts, channel, available, crossed, left>>
    BY <1>3, Zenon DEF FromSocket
  <2>2. /\ m.kind = "close" => m.of # rtcGen \/ rtc = NoRtc
        /\ m.kind = "VIDEO" => rtc.at = "open"
        /\ m.kind = "keyframe" => m.of # rtcGen
        /\ m.kind # "CONFIG"
    BY <1>3 DEF videoVia
  <2> QED
    BY <1>1, <2>1, <2>2
<1>4. CASE ~(videoOff \/ stale \/ gone)
  <2>1. CASE m.kind = "RTC_CONFIG"
    <3>1. available' = TRUE /\ MaybeRtc(FALSE) /\ UNCHANGED <<page, up, channel, crossed, left>>
      BY <1>4, <2>1, Zenon DEF FromSocket
    <3> QED
      BY <1>1, <2>1, <3>1
  <2>2. CASE m.kind = "STREAM_STATE"
    <3>1. m.kind # "RTC_CONFIG"
      BY <2>2
    <3>2. page' = [page EXCEPT !.told = m.of] /\ UNCHANGED <<up, attempts, channel, available, crossed, left>>
      BY <1>4, <2>2, <3>1, Zenon DEF FromSocket
    <3>3. ~(m.of < page.told)
      BY <1>4, <2>2
    <3> QED
      BY <1>1, <2>2, <3>2, <3>3
  <2>3. CASE m.kind = "CONFIG"
    <3>1. m.kind # "RTC_CONFIG" /\ m.kind # "STREAM_STATE"
      BY <2>3
    <3>2. OnConfig(m.of, "websocket") /\ UNCHANGED <<available, crossed, left>>
      BY <1>4, <2>3, <3>1, Zenon DEF FromSocket
    <3> QED
      BY <1>1, <2>3, <3>2
  <2>4. CASE m.kind = "VIDEO"
    <3>1. m.kind # "RTC_CONFIG" /\ m.kind # "STREAM_STATE" /\ m.kind # "CONFIG"
      BY <2>4
    <3>2. Decoder(m) /\ UNCHANGED <<attempts, channel, available>>
      BY <1>4, <2>4, <3>1, Zenon DEF FromSocket
    <3>3. rtc.at # "open"
      BY <1>4, <2>4 DEF videoVia
    <3> QED
      BY <1>1, <2>4, <3>2, <3>3
  <2>5. CASE m.kind = "keyframe"
    <3>1. m.kind # "RTC_CONFIG" /\ m.kind # "STREAM_STATE" /\ m.kind # "CONFIG" /\ m.kind # "VIDEO"
      BY <2>5
    <3>2. page' = [page EXCEPT !.awaiting = TRUE] /\ UNCHANGED <<up, attempts, channel, available, crossed, left>>
      BY <1>4, <2>5, <3>1, Zenon DEF FromSocket
    <3>3. m.of = rtcGen
      BY <1>4, <2>5
    <3> QED
      BY <1>1, <2>5, <3>2, <3>3
  <2>6. CASE m.kind = "answer"
    <3>1. /\ m.kind # "RTC_CONFIG" /\ m.kind # "STREAM_STATE" /\ m.kind # "CONFIG" /\ m.kind # "VIDEO"
          /\ m.kind # "keyframe" /\ m.kind \in {"answer", "close"}
      BY <2>6
    <3>2. /\ rtc' = [rtc EXCEPT !.at = IF rtc.at = "offered" THEN "answered" ELSE rtc.at]
          /\ UNCHANGED <<page, up, rtcGen, retryTimer, channel, available, crossed, left>>
      BY <1>4, <2>6, <3>1, Zenon DEF FromSocket
    <3>3. rtc # NoRtc /\ m.of = rtcGen
      BY <1>4, <3>1
    <3> QED
      BY <1>1, <2>6, <3>2, <3>3
  <2>7. CASE m.kind = "close"
    <3>1. /\ m.kind # "RTC_CONFIG" /\ m.kind # "STREAM_STATE" /\ m.kind # "CONFIG" /\ m.kind # "VIDEO"
          /\ m.kind # "keyframe" /\ m.kind # "answer"
      BY <2>7
    <3>2. FailRtc /\ up' = up \o ClosingWord /\ UNCHANGED <<page, available, crossed, left>>
      BY <1>4, <2>7, <3>1, Zenon DEF FromSocket
    <3> QED
      BY <1>1, <2>7, <3>2
  <2> QED
    BY <1>2, <2>1, <2>2, <2>3, <2>4, <2>5, <2>6, <2>7 DEF ToPage
<1> QED
  BY <1>3, <1>4
LEMMA ConfigKeeps ==
  ASSUME Inv, NEW a \in Nat, OnConfig(a, "websocket"),
         UNCHANGED <<server, hub, picked, refused, available, crossed, left>>,
         down' \in Seq(Message), Carries(down', ToPage),
         Says(down, "close", rtc.g) => Says(down', "close", rtc.g)
  PROVE  Inv'
<1>h. UNCHANGED <<mailbox, peer, notices>>
  BY DEF hub
<1>1. CASE UNCHANGED <<page, up, attempts, channel>>
  <2>1. /\ page' \in Pages /\ crossed' \in BOOLEAN /\ channel' \in Seq(Message)
        /\ left' \in [encoders : Nat, frames : Nat, faults : Nat]
    BY <1>1, PageFacts
  <2> QED
    BY <1>1, <2>1, VideoKeeps
<1>2. CASE /\ page' = [page EXCEPT !.stream = a, !.seq = -1, !.awaiting = TRUE, !.last = NoFrame]
           /\ \/ videoVia = "webrtc" /\ FailRtc
                 /\ (up' = up \o ClosingWord \o <<>> \/ up' = up \o ClosingWord \o KeyWanted)
              \/ MaybeRtc(FALSE) /\ UNCHANGED channel
                 /\ (up' = up \o <<>> \o <<>> \/ up' = up \o <<>> \o KeyWanted)
  <2>1. page' \in Pages
    <3>1. NoFrame \in Frame /\ page \in Pages /\ -1 \in Int
      BY PageFacts DEF NoFrame, Frame, None
    <3> QED
      BY <1>2, <3>1 DEF Pages
  <2>2. CASE FailRtc /\ (up' = up \o ClosingWord \o <<>> \/ up' = up \o ClosingWord \o KeyWanted)
    <3> DEFINE word == up \o ClosingWord
    <3>1. /\ word \in Seq(Message) /\ Carries(word, ToSession) /\ Ordered(mailbox, word, peer.g, rtcGen, rtcGen)
      BY WordIsOrdered
    <3> HIDE DEF word
    <3>2. /\ up' \in Seq(Message) /\ Carries(up', ToSession) /\ Ordered(mailbox, up', peer.g, rtcGen, rtcGen)
      <4>1. CASE up' = word \o <<>>
        <5>1. up' = word
          BY <3>1, <4>1
        <5> QED
          BY <3>1, <5>1
      <4>2. CASE up' = word \o KeyWanted
        <5>1. mailbox \in Seq(Message)
          BY PageFacts
        <5> QED
          BY <3>1, <4>2, <5>1, KeyIsOrdered
      <4> QED
        BY <2>2, <4>1, <4>2 DEF word
    <3>3. rtc' = NoRtc /\ rtcGen' = rtcGen /\ retryTimer' = (picked = "webrtc") /\ channel' = <<>>
      BY <2>2 DEF FailRtc
    <3>4. TypeOK' /\ Kinds'
      BY <2>1, <3>2, <3>3, PageFacts, PageTypes, NoRtcType
    <3>5. Core'
      BY <1>h, <3>2, <3>3, Ends
    <3> QED
      BY <3>4, <3>5, CoreKeeps
  <2>3. CASE MaybeRtc(FALSE) /\ UNCHANGED channel /\ (up' = up \o <<>> \o <<>> \/ up' = up \o <<>> \o KeyWanted)
    <3>1. up \o <<>> = up
      BY PageFacts
    <3>2. up' = up \/ up' = up \o KeyWanted
      BY <2>3, <3>1
    <3>3. /\ up' \in Seq(Message) /\ Carries(up', ToSession) /\ Ordered(mailbox, up', peer.g, Sent, Closed)
      BY <3>2, PageFacts, KeyIsAsked
    <3>4. Core' /\ rtc' \in Rtcs /\ rtcGen' \in 0..MaxAttempt /\ retryTimer' \in BOOLEAN
      BY <1>h, <2>3, <3>3, Starts
    <3>5. TypeOK' /\ Kinds'
      BY <2>1, <2>3, <3>3, <3>4, PageFacts, PageTypes
    <3> QED
      BY <3>4, <3>5, CoreKeeps
  <2> QED
    BY <1>2, <2>2, <2>3
<1>3. CASE ~(a < page.told \/ a <= page.stream)
  <2> DEFINE resumed == videoVia = "webrtc"
  <2>1. /\ page' = [page EXCEPT !.stream = a, !.seq = -1, !.awaiting = TRUE, !.last = NoFrame]
        /\ \/ up' = up \o (IF resumed THEN ClosingWord ELSE <<>>) \o <<>>
           \/ up' = up \o (IF resumed THEN ClosingWord ELSE <<>>) \o KeyWanted
        /\ IF resumed THEN FailRtc ELSE MaybeRtc(FALSE) /\ UNCHANGED channel
    BY <1>3 DEF OnConfig
  <2>2. \/ videoVia = "webrtc" /\ FailRtc
           /\ (up' = up \o ClosingWord \o <<>> \/ up' = up \o ClosingWord \o KeyWanted)
        \/ MaybeRtc(FALSE) /\ UNCHANGED channel
           /\ (up' = up \o <<>> \o <<>> \/ up' = up \o <<>> \o KeyWanted)
    BY <2>1, Zenon
  <2> QED
    BY <1>2, <2>1, <2>2
<1>4. CASE a < page.told \/ a <= page.stream
  BY <1>1, <1>4 DEF OnConfig
<1> QED
  BY <1>3, <1>4

LEMMA SocketKeeps == Inv /\ FromSocket => Inv'
<1> SUFFICES ASSUME Inv, FromSocket PROVE Inv'
  OBVIOUS
<1> DEFINE m == Head(down)
<1>1. down # <<>> /\ down' = Tail(down) /\ UNCHANGED <<server, hub, picked, refused>>
  BY SocketCases
<1>2. /\ down' \in Seq(Message) /\ Carries(down', ToPage) /\ m \in Message /\ m.kind \in ToPage
      /\ Says(down, "close", rtc.g) => Says(down', "close", rtc.g) \/ (m.kind = "close" /\ m.of = rtc.g)
  <2>1. down \in Seq(Message) /\ Carries(down, ToPage)
    BY PageFacts
  <2> QED
    BY <1>1, <2>1, TailCarries
<1>3. m.of \in Nat
  BY <1>2 DEF Message
<1>h. UNCHANGED <<mailbox, peer, notices>>
  BY <1>1 DEF hub
<1>4. CASE /\ UNCHANGED <<page, up, attempts, channel, available, crossed, left>>
           /\ m.kind = "close" => m.of # rtcGen \/ rtc = NoRtc
  <2>1. rtc.at \in {"connected", "open"} => rtc.g = rtcGen /\ rtc # NoRtc
    BY PageFacts, NoRtcType DEF Attempt
  <2>2. rtc.at \in {"connected", "open"} /\ Says(down, "close", rtc.g) => Says(down', "close", rtc.g)
    BY <1>2, <1>4, <2>1
  <2>3. /\ page' \in Pages /\ crossed' \in BOOLEAN /\ channel' \in Seq(Message)
        /\ left' \in [encoders : Nat, frames : Nat, faults : Nat]
    BY <1>4, PageFacts
  <2> QED
    BY <1>1, <1>2, <1>4, <2>2, <2>3, VideoKeeps
<1>5. CASE /\ m.kind = "RTC_CONFIG" /\ available' = TRUE /\ MaybeRtc(FALSE)
           /\ UNCHANGED <<page, up, channel, crossed, left>>
  <2>1. Says(down, "close", rtc.g) => Says(down', "close", rtc.g)
    BY <1>2, <1>5
  <2>2. Core' /\ rtc' \in Rtcs /\ rtcGen' \in 0..MaxAttempt /\ retryTimer' \in BOOLEAN
    BY <1>5, <1>h, <2>1, PageFacts, Starts
  <2>3. TypeOK' /\ Kinds'
    BY <1>1, <1>2, <1>5, <2>2, PageFacts, PageTypes
  <2> QED
    BY <2>2, <2>3, CoreKeeps
<1>6. ASSUME \/ m.kind = "STREAM_STATE" /\ page' = [page EXCEPT !.told = m.of]
             \/ m.kind = "keyframe" /\ page' = [page EXCEPT !.awaiting = TRUE],
             UNCHANGED <<up, attempts, channel, available, crossed, left>>
      PROVE  Inv'
  <2>1. Says(down, "close", rtc.g) => Says(down', "close", rtc.g)
    BY <1>2, <1>6
  <2>2. page' \in Pages
    <3>1. page \in Pages
      BY PageFacts
    <3>2. CASE page' = [page EXCEPT !.told = m.of]
      BY <1>3, <3>1, <3>2 DEF Pages
    <3>3. CASE page' = [page EXCEPT !.awaiting = TRUE]
      BY <3>1, <3>3 DEF Pages
    <3> QED
      BY <1>6, <3>2, <3>3
  <2>3. crossed' \in BOOLEAN /\ channel' \in Seq(Message) /\ left' \in [encoders : Nat, frames : Nat, faults : Nat]
    BY <1>6, PageFacts
  <2> QED
    BY <1>1, <1>2, <1>6, <2>1, <2>2, <2>3, VideoKeeps
<1>7. CASE m.kind = "CONFIG" /\ OnConfig(m.of, "websocket") /\ UNCHANGED <<available, crossed, left>>
  <2>1. Says(down, "close", rtc.g) => Says(down', "close", rtc.g)
    BY <1>2, <1>7
  <2> QED
    BY <1>1, <1>2, <1>3, <1>7, <2>1, ConfigKeeps
<1>8. CASE m.kind = "VIDEO" /\ Decoder(m) /\ UNCHANGED <<attempts, channel, available>>
  <2>1. Says(down, "close", rtc.g) => Says(down', "close", rtc.g)
    BY <1>2, <1>8
  <2>2. channel' \in Seq(Message)
    BY <1>8, PageFacts
  <2>3. /\ page' \in Pages /\ crossed' \in BOOLEAN
        /\ left' \in [encoders : Nat, frames : Nat, faults : Nat]
        /\ up' = up \/ up' = up \o KeyWanted
    BY <1>2, <1>8, DecoderFacts
  <2> QED
    BY <1>1, <1>2, <1>8, <2>1, <2>2, <2>3, VideoKeeps
<1>9. CASE /\ m.kind = "answer" /\ rtc # NoRtc
           /\ rtc' = [rtc EXCEPT !.at = IF rtc.at = "offered" THEN "answered" ELSE rtc.at]
           /\ UNCHANGED <<page, up, rtcGen, retryTimer, channel, available, crossed, left>>
  <2>1. rtc \in Rtcs
    BY PageFacts
  <2>2. CASE rtc.at = "offered"
    <3>1. rtc' \in Rtcs /\ rtc'.at = "answered" /\ rtc'.g = rtc.g
      BY <1>9, <2>1, <2>2 DEF Rtcs
    <3>2. Sent' = Sent /\ Closed' = Closed
      BY <1>9, <2>2, <3>1 DEF Sent, Closed
    <3>3. Attempt'
      <4>1. rtc.g = rtcGen /\ rtcGen > 0
        BY <2>2, PageFacts DEF Attempt
      <4> QED
        BY <1>9, <3>1, <4>1 DEF Attempt
    <3>4. OpenIsServed' /\ AlwaysTrying'
      BY <3>1, NoRtcType DEF OpenIsServed, AlwaysTrying
    <3>5. Core'
      BY <1>9, <1>h, <3>2, <3>3, <3>4, PageFacts DEF Core
    <3>6. TypeOK' /\ Kinds'
      BY <1>1, <1>2, <1>9, <3>1, PageFacts, PageTypes
    <3> QED
      BY <3>5, <3>6, CoreKeeps
  <2>3. CASE rtc.at # "offered"
    <3>1. rtc' = rtc
      BY <1>9, <2>1, <2>3 DEF Rtcs
    <3>2. Says(down, "close", rtc.g) => Says(down', "close", rtc.g)
      BY <1>2, <1>9
    <3>3. /\ page' \in Pages /\ crossed' \in BOOLEAN /\ channel' \in Seq(Message)
          /\ left' \in [encoders : Nat, frames : Nat, faults : Nat]
      BY <1>9, PageFacts
    <3>4. UNCHANGED attempts
      BY <1>9, <3>1 DEF attempts
    <3> QED
      BY <1>1, <1>2, <1>9, <3>2, <3>3, <3>4, VideoKeeps
  <2> QED
    BY <2>2, <2>3
<1>10. CASE /\ m.kind = "close" /\ FailRtc /\ up' = up \o ClosingWord
            /\ UNCHANGED <<page, available, crossed, left>>
  <2>1. rtc' = NoRtc /\ rtcGen' = rtcGen /\ retryTimer' = (picked = "webrtc") /\ channel' = <<>>
    BY <1>10 DEF FailRtc
  <2>2. /\ up' \in Seq(Message) /\ Carries(up', ToSession) /\ Ordered(mailbox, up', peer.g, rtcGen, rtcGen)
    BY <1>10, WordIsOrdered
  <2>3. TypeOK' /\ Kinds'
    BY <1>1, <1>2, <1>10, <2>1, <2>2, PageFacts, PageTypes, NoRtcType
  <2>4. Core'
    BY <1>1, <1>h, <2>1, <2>2, Ends
  <2> QED
    BY <2>3, <2>4, CoreKeeps
<1> QED
  BY <1>4, <1>5, <1>6, <1>7, <1>8, <1>9, <1>10, SocketCases

LEMMA ChannelKeeps == Inv /\ FromChannel => Inv'
<1> SUFFICES ASSUME Inv, FromChannel PROVE Inv'
  OBVIOUS
<1> DEFINE m == Head(channel)
<1>1. /\ channel # <<>> /\ channel' = Tail(channel)
      /\ UNCHANGED <<server, hub, down, picked, available, refused>>
  BY Zenon DEF FromChannel
<1>2. channel' \in Seq(Message) /\ m \in Message /\ m.of \in Nat
  <2>1. channel \in Seq(Message)
    BY PageFacts
  <2>2. channel' \in Seq(Message) /\ m \in Message
    BY <1>1, <2>1, TailFacts
  <2> QED
    BY <2>2 DEF Message
<1>3. down' \in Seq(Message) /\ Carries(down', ToPage)
  BY <1>1, PageFacts
<1>4. Says(down, "close", rtc.g) => Says(down', "close", rtc.g)
  BY <1>1
<1>5. /\ UNCHANGED attempts /\ page' \in Pages /\ crossed' \in BOOLEAN
      /\ left' \in [encoders : Nat, frames : Nat, faults : Nat]
      /\ up' = up \/ up' = up \o KeyWanted
  <2>1. CASE m.kind = "CONFIG"
    <3>1. /\ UNCHANGED <<attempts, crossed, left>> /\ (up' = up \/ up' = up \o KeyWanted)
          /\ \/ page' = page
             \/ page' = [page EXCEPT !.stream = m.of, !.seq = -1, !.awaiting = TRUE, !.last = NoFrame]
      BY <2>1, Zenon DEF FromChannel
    <3>2. page' \in Pages
      <4>1. NoFrame \in Frame /\ page \in Pages /\ -1 \in Int
        BY PageFacts DEF NoFrame, Frame, None
      <4>2. CASE page' = page
        BY <4>1, <4>2
      <4>3. CASE page' = [page EXCEPT !.stream = m.of, !.seq = -1, !.awaiting = TRUE, !.last = NoFrame]
        BY <1>2, <4>1, <4>3 DEF Pages
      <4> QED
        BY <3>1, <4>2, <4>3
    <3> QED
      BY <3>1, <3>2, PageFacts
  <2>2. CASE m.kind # "CONFIG"
    <3>1. Decoder(m) /\ UNCHANGED attempts
      BY <2>2, Zenon DEF FromChannel
    <3> QED
      BY <1>2, <3>1, DecoderFacts
  <2> QED
    BY <2>1, <2>2
<1> QED
  BY <1>1, <1>2, <1>3, <1>4, <1>5, VideoKeeps

-----------------------------------------------------------------------------
(* The invariant, and what it says. *)

LEMMA InitInv == Init => Inv
<1> SUFFICES ASSUME Init PROVE Inv
  OBVIOUS
<1>1. /\ encoder = NewEncoder(1) /\ wsConfig = 0 /\ waiting = FALSE
      /\ claim = NoClaim /\ mailbox = <<>> /\ peer = NoPeer /\ notices = {}
      /\ down = <<Say("RTC_CONFIG", 0), Say("STREAM_STATE", 1)>>
      /\ up = <<>> /\ channel = <<>> /\ rtc = NoRtc /\ rtcGen = 0 /\ retryTimer = FALSE
      /\ picked \in Transport /\ available = FALSE /\ page = FreshPage
      /\ dropped = NoFrame /\ keyLost = FALSE /\ crossed = FALSE /\ left \in Budgets
  BY DEF Init, None
<1>2. /\ encoder \in Encoders /\ page \in Pages /\ dropped \in Frame
  BY <1>1 DEF NewEncoder, Encoders, FreshPage, Pages, NoFrame, Frame, None
<1>3. down \in Seq(Message) /\ Carries(down, ToPage)
  <2> DEFINE m == Say("RTC_CONFIG", 0)
             n == Say("STREAM_STATE", 1)
  <2>1. m \in Message /\ n \in Message /\ m.kind \in ToPage /\ n.kind \in ToPage
    BY SayType DEF AllKinds, ToPage
  <2> HIDE DEF m, n
  <2>2. <<m, n>> \in Seq(Message) /\ Carries(<<m, n>>, ToPage)
    BY <2>1 DEF Carries
  <2> QED
    BY <1>1, <2>2 DEF m, n
<1>4. TypeOK
  <2>1. Len(<<>>) <= MaxMail /\ <<>> \in Seq(Message) /\ 0 \in 0..MaxAttempt
    BY BoundAssumption
  <2>2. claim \in Claims /\ peer \in Peers /\ rtc \in Rtcs
    BY <1>1, NobodyTypes, NoRtcType
  <2>3. picked \in {"websocket", "webrtc"} /\ left \in [encoders : Nat, frames : Nat, faults : Nat]
    BY <1>1, BoundAssumption
  <2> QED
    BY <1>1, <1>2, <1>3, <2>1, <2>2, <2>3 DEF TypeOK, Claims, Peers, Rtcs, Pages, Encoders
<1>5. Kinds
  <2>1. Carries(<<>>, ToHub) /\ Carries(<<>>, ToSession)
    BY DEF Carries
  <2> QED
    BY <1>1, <1>3, <2>1 DEF Kinds
<1>6. Sent = 0 /\ Closed = 0 /\ Attempt /\ OpenIsServed /\ AlwaysTrying
  BY <1>1, NoRtcType DEF Sent, Closed, Attempt, OpenIsServed, AlwaysTrying
<1>7. Ordered(mailbox, up, peer.g, Sent, Closed)
  BY <1>1, <1>6, NobodyQueues, NobodyTypes
<1> QED
  BY <1>4, <1>5, <1>6, <1>7 DEF Inv

LEMMA NextInv == Inv /\ [Next]_vars => Inv'
<1> SUFFICES ASSUME Inv, [Next]_vars PROVE Inv'
  OBVIOUS
<1>1. CASE UNCHANGED vars
  <2>1. /\ UNCHANGED <<encoder, wsConfig, waiting, claim, mailbox, peer, notices, down, up, channel>>
        /\ UNCHANGED <<rtc, rtcGen, retryTimer, picked, available, page, crossed, refused, left>>
    BY <1>1 DEF vars, server, hub, pageSide, attempts
  <2>2. TypeOK' /\ Kinds' /\ Attempt'
    BY <2>1 DEF Inv, TypeOK, Kinds, Attempt, refused
  <2>3. Sent' = Sent /\ Closed' = Closed /\ AlwaysTrying' /\ OpenIsServed'
    BY <2>1 DEF Inv, Sent, Closed, AlwaysTrying, OpenIsServed
  <2> QED
    BY <2>1, <2>2, <2>3 DEF Inv
<1> QED
  BY <1>1, SessionKeeps, HubKeeps, ConnectKeeps, SendOfferKeeps, OnOpenKeeps, EndingKeeps, SocketKeeps, ChannelKeeps
  DEF Next, Page

LEMMA SpecInv == Spec => []Inv
<1> QED
  BY InitInv, NextInv, PTL DEF Spec

\* Every variable of the two paths keeps its type, and the hub's mailbox its limit.
THEOREM PathsAreTyped == Spec => []TypeOK
<1>1. Inv => TypeOK
  BY DEF Inv
<1> QED
  BY <1>1, SpecInv, PTL

\* Whatever ends an attempt (the hub's close, the page's own timers, video that
\* comes back on the socket), maybeRtc or failRtc has the next one under way.
THEOREM SomeAttemptIsDue == Spec => []AlwaysTrying
<1>1. Inv => AlwaysTrying
  BY DEF Inv
<1> QED
  BY <1>1, SpecInv, PTL

\* A page that is connected, be its channel open at both ends, at either or at neither yet,
\* is never left with a peer the hub has let go: no late close and no second offer takes
\* the peer of the present attempt, whose channel the hub has open or is to hear of, and a
\* peer that dies leaves its word behind.
THEOREM OpenChannelsAreServed == Spec => []OpenIsServed
<1>1. Inv => OpenIsServed
  BY DEF Inv
<1> QED
  BY <1>1, SpecInv, PTL
-----------------------------------------------------------------------------
(* The decoder follows its stream. *)

\* The frame the decoder goes on from is the newest it was told of, of its stream.
Follows == ~crossed /\ ~page.awaiting => page.last.epoch = page.stream /\ page.last.n = page.seq

\* What a step may do to the decoder.
Decodes(f) ==
  /\ page' = [page EXCEPT !.seq = f.n, !.awaiting = FALSE, !.last = f]
  /\ crossed' = (crossed \/ f.epoch # page.stream)
  /\ ~Late(f)
  /\ f.key \/ (~page.awaiting /\ ~(page.seq >= 0 /\ f.n > page.seq + 1))

Rests ==
  \/ page' = page /\ crossed' = crossed
  \/ page' = [page EXCEPT !.told = page'.told] /\ crossed' = crossed
  \/ page'.awaiting /\ page'.last \in {page.last, NoFrame}

LEMMA Stops ==
  ASSUME NEW p \in Pages, NEW a \in Nat, NEW n \in Int
  PROVE  /\ LET q == [p EXCEPT !.awaiting = TRUE] IN q.awaiting /\ q.last = p.last
         /\ LET q == [p EXCEPT !.seq = n, !.awaiting = TRUE] IN q.awaiting /\ q.last = p.last
         /\ LET q == [p EXCEPT !.seq = n, !.awaiting = TRUE, !.last = NoFrame] IN q.awaiting /\ q.last = NoFrame
         /\ LET q == [p EXCEPT !.told = a] IN q = [p EXCEPT !.told = q.told]
BY DEF Pages

LEMMA DecoderMoves ==
  ASSUME Inv, NEW m \in Message, Decoder(m)
  PROVE  Rests \/ \E f \in Frame : Decodes(f)
<1> DEFINE f == m.frame
<1>1. f \in Frame
  BY DEF Message
<1> HIDE DEF f
<1>2. f.n \in Int /\ page \in Pages /\ 0 \in Nat
  BY <1>1, PageFacts DEF Frame
<1>3. ASSUME NEW lagging \in BOOLEAN, NEW broken \in BOOLEAN, OnVideo(f, lagging, broken)
      PROVE  Rests \/ Decodes(f)
  <2>1. \/ page' = page /\ crossed' = crossed
        \/ page' = [page EXCEPT !.seq = f.n, !.awaiting = TRUE]
        \/ page' = [page EXCEPT !.seq = f.n, !.awaiting = TRUE, !.last = NoFrame]
        \/ Decodes(f)
    <3>1. CASE page.stream = None \/ page.stream < page.told \/ Late(f)
      BY <1>3, <3>1 DEF OnVideo
    <3>2. CASE ~(page.stream = None \/ page.stream < page.told \/ Late(f))
      <4>1. /\ crossed' = (crossed \/ f.epoch # page.stream)
            /\ \/ page' = [page EXCEPT !.seq = f.n, !.awaiting = TRUE]
               \/ page' = [page EXCEPT !.seq = f.n, !.awaiting = TRUE, !.last = NoFrame]
               \/ /\ ~Skips(f, lagging)
                  /\ page' = [page EXCEPT !.seq = f.n, !.awaiting = FALSE, !.last = f]
        BY <1>3, <3>2 DEF OnVideo
      <4>2. ~Skips(f, lagging) => f.key \/ (~page.awaiting /\ ~(page.seq >= 0 /\ f.n > page.seq + 1))
        BY DEF Skips
      <4> QED
        BY <3>2, <4>1, <4>2, Zenon DEF Decodes
    <3> QED
      BY <3>1, <3>2
  <2>2. CASE page' = [page EXCEPT !.seq = f.n, !.awaiting = TRUE]
    BY <1>2, <2>2, Stops DEF Rests
  <2>3. CASE page' = [page EXCEPT !.seq = f.n, !.awaiting = TRUE, !.last = NoFrame]
    BY <1>2, <2>3, Stops DEF Rests
  <2> QED
    BY <2>1, <2>2, <2>3 DEF Rests
<1>4. \E lagging, broken \in BOOLEAN : OnVideo(f, lagging, broken)
  BY DEF Decoder, f
<1> QED
  BY <1>1, <1>3, <1>4

LEMMA PageMoves ==
  ASSUME Inv, [Next]_vars
  PROVE  Rests \/ \E f \in Frame : Decodes(f)
<1>t. page \in Pages /\ -1 \in Int
  BY PageFacts
<1>1. CASE UNCHANGED <<page, crossed>>
  BY <1>1 DEF Rests
<1>2. CASE FromSocket
  <2> DEFINE m == Head(down)
  <2>1. m \in Message /\ m.of \in Nat
    <3>1. down \in Seq(Message) /\ down # <<>>
      BY <1>2, PageFacts, SocketCases
    <3>2. m \in Message
      BY <3>1, TailFacts
    <3> QED
      BY <3>2 DEF Message
  <2>2. CASE Decoder(m)
    BY <2>1, <2>2, DecoderMoves
  <2>3. CASE page' = [page EXCEPT !.told = m.of] /\ UNCHANGED crossed
    BY <1>t, <2>1, <2>3, Stops DEF Rests
  <2>4. CASE page' = [page EXCEPT !.awaiting = TRUE]
    BY <1>t, <2>1, <2>4, Stops DEF Rests
  <2>5. CASE OnConfig(m.of, "websocket") /\ UNCHANGED crossed
    <3>1. \/ UNCHANGED <<page, crossed>>
          \/ page' = [page EXCEPT !.stream = m.of, !.seq = -1, !.awaiting = TRUE, !.last = NoFrame]
      BY <2>5 DEF OnConfig
    <3>2. CASE page' = [page EXCEPT !.stream = m.of, !.seq = -1, !.awaiting = TRUE, !.last = NoFrame]
      <4>1. page'.awaiting /\ page'.last = NoFrame
        BY <1>t, <2>1, <3>2 DEF Pages
      <4> QED
        BY <4>1 DEF Rests
    <3> QED
      BY <1>1, <3>1, <3>2
  <2> QED
    BY <1>1, <1>2, <2>2, <2>3, <2>4, <2>5, SocketCases
<1>3. CASE FromChannel
  <2> DEFINE m == Head(channel)
  <2>1. m \in Message /\ m.of \in Nat
    <3>1. channel \in Seq(Message) /\ channel # <<>>
      BY <1>3, PageFacts, Zenon DEF FromChannel
    <3>2. m \in Message
      BY <3>1, TailFacts
    <3> QED
      BY <3>2 DEF Message
  <2>2. CASE m.kind = "CONFIG"
    <3>1. \/ UNCHANGED <<page, crossed>>
          \/ page' = [page EXCEPT !.stream = m.of, !.seq = -1, !.awaiting = TRUE, !.last = NoFrame]
      BY <1>3, <2>2, Zenon DEF FromChannel
    <3>2. CASE page' = [page EXCEPT !.stream = m.of, !.seq = -1, !.awaiting = TRUE, !.last = NoFrame]
      <4>1. page'.awaiting /\ page'.last = NoFrame
        BY <1>t, <2>1, <3>2 DEF Pages
      <4> QED
        BY <4>1 DEF Rests
    <3> QED
      BY <1>1, <3>1, <3>2
  <2>3. CASE m.kind # "CONFIG"
    <3>1. Decoder(m)
      BY <1>3, <2>3, Zenon DEF FromChannel
    <3> QED
      BY <2>1, <3>1, DecoderMoves
  <2> QED
    BY <2>2, <2>3
<1>4. CASE OnOpen
  <2>1. page' = [page EXCEPT !.awaiting = TRUE] /\ 0 \in Nat
    BY <1>4 DEF OnOpen
  <2> QED
    BY <1>t, <2>1, Stops DEF Rests
<1>5. CASE Reconnect
  BY <1>5 DEF Reconnect, FreshPage, Rests
<1>6. CASE Session
  BY <1>1, <1>6 DEF Session, Restart, Info, SendFrame, Receive, pageSide
<1>7. CASE Hub
  BY <1>1, <1>7 DEF Hub, TakeMail, ChannelOpen, ChannelClose, Flush, PeerDies, Notice, pageSide
<1>8. CASE SendOffer \/ GiveUp \/ Retry \/ \E t \in {"websocket", "webrtc"} \ {picked} : SetTransport(t)
  BY <1>1, <1>8 DEF SendOffer, GiveUp, Retry, SetTransport
<1>9. CASE UNCHANGED vars
  BY <1>1, <1>9 DEF vars, pageSide
<1>10. CASE Connect
  BY <1>1, <1>10 DEF Connect
<1> QED
  BY <1>2, <1>3, <1>4, <1>5, <1>6, <1>7, <1>8, <1>9, <1>10 DEF Next, Page

LEMMA FollowsKeeps ==
  ASSUME Inv, Follows, [Next]_vars
  PROVE  /\ Follows'
         /\ page'.last # page.last /\ ~page'.last.key /\ page'.last # NoFrame /\ ~crossed' =>
              page.last.epoch = page'.last.epoch /\ page'.last.n = page.last.n + 1
<1>t. page \in Pages
  BY PageFacts
<1>1. CASE Rests
  <2>1. CASE page' = page /\ crossed' = crossed
    BY <2>1 DEF Follows
  <2>2. CASE page' = [page EXCEPT !.told = page'.told] /\ crossed' = crossed
    <3>1. /\ page'.last = page.last /\ page'.awaiting = page.awaiting
          /\ page'.stream = page.stream /\ page'.seq = page.seq
      BY <1>t, <2>2 DEF Pages
    <3> QED
      BY <2>2, <3>1 DEF Follows
  <2>3. CASE page'.awaiting /\ page'.last \in {page.last, NoFrame}
    BY <2>3 DEF Follows
  <2> QED
    BY <1>1, <2>1, <2>2, <2>3 DEF Rests
<1>2. ASSUME NEW f \in Frame, Decodes(f)
      PROVE  /\ Follows'
             /\ page'.last # page.last /\ ~page'.last.key /\ page'.last # NoFrame /\ ~crossed' =>
                  page.last.epoch = page'.last.epoch /\ page'.last.n = page.last.n + 1
  <2>1. /\ page'.last = f /\ page'.seq = f.n /\ page'.stream = page.stream
        /\ f.n \in Nat /\ page.seq \in Int /\ page.last \in Frame
    BY <1>t, <1>2 DEF Decodes, Pages, Frame
  <2>2. ~crossed' => ~crossed /\ f.epoch = page.stream
    BY <1>2 DEF Decodes
  <2>3. Follows'
    BY <2>1, <2>2 DEF Follows
  <2>4. ASSUME ~f.key, ~crossed'
        PROVE  page.last.epoch = f.epoch /\ f.n = page.last.n + 1
    <3>1. ~page.awaiting /\ ~Late(f) /\ ~(page.seq >= 0 /\ f.n > page.seq + 1)
      BY <1>2, <2>4 DEF Decodes
    <3>2. page.last.epoch = page.stream /\ page.last.n = page.seq
      BY <2>2, <2>4, <3>1 DEF Follows
    <3>3. page.seq >= 0
      BY <2>1, <3>2 DEF Frame
    <3>4. f.n = page.seq + 1
      BY <2>1, <3>1, <3>3 DEF Late
    <3> QED
      BY <2>2, <2>4, <3>2, <3>4
  <2> QED
    BY <2>1, <2>3, <2>4
<1> QED
  BY <1>1, <1>2, PageMoves

\* onVideo decodes a delta only right behind the frame before it, across every
\* change of path, of stream and of socket.
THEOREM NoDeltaIsSkipped == Spec => DeltasFollow
<1>1. Init => Follows
  BY DEF Init, Follows, FreshPage
<1>2. Inv /\ Follows /\ [Next]_vars => Follows'
  BY FollowsKeeps
<1>3. Inv /\ Follows /\ [Next]_vars =>
        [page'.last # page.last /\ ~page'.last.key /\ page'.last # NoFrame /\ ~crossed' =>
           page.last.epoch = page'.last.epoch /\ page'.last.n = page.last.n + 1]_vars
  BY FollowsKeeps
<1> QED
  BY <1>1, <1>2, <1>3, SpecInv, PTL DEF Spec, DeltasFollow

-----------------------------------------------------------------------------
(* Nothing stays lost: the attempts.  What holds of the hub's claim while the *)
(* page gives attempts up and the words of it are under way.                 *)

\* in q, before i, attempt g is closed
CloseBefore(q, i, g) == \E j \in DOMAIN q : j < i /\ q[j].kind = "close" /\ q[j].of = g

\* An offer comes behind the close of g; p is at the hub, q on the socket.
ClosesFirst(p, q, g) ==
  /\ \A i \in Offers(p) : CloseBefore(p, i, g)
  /\ \A i \in Offers(q) : Says(p, "close", g) \/ CloseBefore(q, i, g)

\* The attempt whose channel the hub has, or is to hear of.
Holds == IF peer.opening THEN peer.g ELSE claim.g

\* The hub's claim is its peer's while that is open, and there is none while one opens.
Served ==
  /\ claim.active => claim.g # None /\ peer.g = claim.g /\ peer.open
  /\ peer.open => peer.g # None /\ claim.g = peer.g /\ claim.active /\ ~peer.opening
  /\ peer.opening => peer.g # None /\ claim.g = None
  /\ claim.g # None => peer.g \in {None, claim.g}
  /\ claim.g <= Sent

\* Who has given an attempt up tells the other.
GivenUp ==
  /\ Holds # None /\ rtc.g # Holds => Says(up, "close", Holds) \/ Says(mailbox, "close", Holds)
  /\ claim.g # None /\ ~claim.active /\ rtc.g = claim.g =>
       claim.g \in notices \/ Says(down, "close", claim.g)

\* The channel is the page's present one, and open at the hub; the hub has or awaits the
\* word of no channel of the present attempt before the page is connected.
ChannelIsCurrent ==
  /\ channel # <<>> => claim.g # None /\ claim.g = rtc.g /\ (peer.g = rtc.g => peer.open)
  /\ Holds # None /\ Holds = rtc.g => rtc.at \in {"connected", "open"}

\* An offer is answered once, and a refresh is of an attempt that is over.
Answers ==
  /\ \A g \in Nat : Says(mailbox, "offer", g) \/ Says(up, "offer", g) =>
       /\ g = rtc.g => rtc.at = "offered"
       /\ \A h \in Nat : Says(down, "answer", h) => h < g
  /\ \A h \in Nat : Says(down, "answer", h) => h <= Sent
  /\ \A h \in Nat : Says(down, "keyframe", h) => h <= Closed

Attempts ==
  /\ Served /\ GivenUp /\ ChannelIsCurrent /\ Answers
  /\ Holds # None => ClosesFirst(mailbox, up, Holds)

\* Says, of a queue that is longer or shorter by one.
LEMMA SaysAppended ==
  ASSUME NEW q \in Seq(Message), NEW m \in Message, NEW kind, NEW g
  PROVE  Says(Append(q, m), kind, g) <=> Says(q, kind, g) \/ (m.kind = kind /\ m.of = g)
<1>1. /\ DOMAIN Append(q, m) = 1..(Len(q) + 1) /\ DOMAIN q = 1..Len(q) /\ Len(q) \in Nat
      /\ \A i \in DOMAIN q : Append(q, m)[i] = q[i]
      /\ Append(q, m)[Len(q) + 1] = m
  OBVIOUS
<1>2. Len(q) + 1 \in DOMAIN Append(q, m) /\ \A i \in DOMAIN q : i \in DOMAIN Append(q, m)
  BY <1>1
<1>3. \A i \in DOMAIN Append(q, m) : i \in DOMAIN q \/ i = Len(q) + 1
  BY <1>1
<1> DEFINE a == Append(q, m)
           n == Len(q) + 1
<1>4. /\ \A i \in DOMAIN q : a[i] = q[i] /\ i \in DOMAIN a
      /\ a[n] = m /\ n \in DOMAIN a
      /\ \A i \in DOMAIN a : i \in DOMAIN q \/ i = n
  BY <1>1, <1>2, <1>3
<1> HIDE DEF a, n
<1>5. Says(a, kind, g) <=> Says(q, kind, g) \/ (m.kind = kind /\ m.of = g)
  BY <1>4 DEF Says
<1> QED
  BY <1>5 DEF a

\* The message taken from a queue is what it no longer says.
LEMMA SaysTaken ==
  ASSUME NEW q \in Seq(Message), q # <<>>, NEW kind, NEW g
  PROVE  Says(q, kind, g) <=> Says(Tail(q), kind, g) \/ (Head(q).kind = kind /\ Head(q).of = g)
<1>1. /\ Tail(q) \in Seq(Message) /\ Head(q) \in Message /\ Head(q) = q[1] /\ 1 \in DOMAIN q
      /\ \A i \in DOMAIN Tail(q) : i \in Nat /\ i + 1 \in DOMAIN q /\ i + 1 > 1 /\ Tail(q)[i] = q[i + 1]
  BY TailFacts
<1>2. \A i \in DOMAIN q : i = 1 \/ (i - 1 \in DOMAIN Tail(q) /\ Tail(q)[i - 1] = q[i])
  OBVIOUS
<1>3. ASSUME Says(Tail(q), kind, g) PROVE Says(q, kind, g)
  <2>1. PICK i \in DOMAIN Tail(q) : Tail(q)[i].kind = kind /\ Tail(q)[i].of = g
    BY <1>3 DEF Says
  <2>2. PICK k \in DOMAIN q : q[k] = Tail(q)[i]
    BY <1>1
  <2> QED
    BY <2>1, <2>2 DEF Says
<1>4. ASSUME Says(q, kind, g) PROVE Says(Tail(q), kind, g) \/ (Head(q).kind = kind /\ Head(q).of = g)
  BY <1>1, <1>2, <1>4 DEF Says
<1>5. ASSUME Head(q).kind = kind /\ Head(q).of = g PROVE Says(q, kind, g)
  BY <1>1, <1>5 DEF Says
<1> QED
  BY <1>3, <1>4, <1>5

\* An empty queue says nothing.
LEMMA SaysNothing ==
  ASSUME NEW kind, NEW g
  PROVE  ~Says(<<>>, kind, g)
BY DEF Says

\* Indices in a queue that is longer or shorter by one.
LEMMA Appended ==
  ASSUME NEW q \in Seq(Message), NEW m \in Message
  PROVE  \E n \in Nat :
           /\ DOMAIN Append(q, m) = DOMAIN q \cup {n} /\ n \notin DOMAIN q
           /\ Append(q, m)[n] = m
           /\ \A i \in DOMAIN q : i \in Nat /\ i < n /\ Append(q, m)[i] = q[i]
<1>1. /\ DOMAIN Append(q, m) = 1..(Len(q) + 1) /\ DOMAIN q = 1..Len(q) /\ Len(q) \in Nat
      /\ \A i \in DOMAIN q : Append(q, m)[i] = q[i]
      /\ Append(q, m)[Len(q) + 1] = m
  OBVIOUS
<1>2. PICK n \in Nat : n = Len(q) + 1
  BY <1>1
<1>3. DOMAIN Append(q, m) = DOMAIN q \cup {n} /\ n \notin DOMAIN q /\ \A i \in DOMAIN q : i \in Nat /\ i < n
  BY <1>1, <1>2
<1> QED
  BY <1>1, <1>2, <1>3

\* A queue without its head.
LEMMA Taken ==
  ASSUME NEW q \in Seq(Message), q # <<>>
  PROVE  /\ Tail(q) \in Seq(Message) /\ Head(q) \in Message /\ Head(q) = q[1] /\ 1 \in DOMAIN q
         /\ \A i \in DOMAIN Tail(q) : i \in Nat /\ i > 0 /\ i + 1 \in DOMAIN q /\ Tail(q)[i] = q[i + 1]
         /\ \A i \in DOMAIN q : i \in Nat /\ (i = 1 \/ (i > 1 /\ i - 1 \in DOMAIN Tail(q) /\ Tail(q)[i - 1] = q[i]))
OBVIOUS

\* The queues move.
LEMMA FirstAppends ==
  ASSUME NEW p \in Seq(Message), NEW q \in Seq(Message), NEW m \in Message, NEW g,
         ClosesFirst(p, q, g), m.kind # "offer"
  PROVE  ClosesFirst(Append(p, m), q, g) /\ ClosesFirst(p, Append(q, m), g)
<1>1. PICK n \in Nat :
           /\ DOMAIN Append(q, m) = DOMAIN q \cup {n} /\ n \notin DOMAIN q
           /\ Append(q, m)[n] = m
           /\ \A i \in DOMAIN q : i \in Nat /\ i < n /\ Append(q, m)[i] = q[i]
  BY Appended
<1>2. PICK k \in Nat :
           /\ DOMAIN Append(p, m) = DOMAIN p \cup {k} /\ k \notin DOMAIN p
           /\ Append(p, m)[k] = m
           /\ \A i \in DOMAIN p : i \in Nat /\ i < k /\ Append(p, m)[i] = p[i]
  BY Appended
<1> DEFINE a == Append(p, m)
           b == Append(q, m)
<1>3. Offers(a) = Offers(p) /\ \A i \in Offers(p) : CloseBefore(p, i, g) => CloseBefore(a, i, g)
  BY <1>2 DEF Offers, CloseBefore
<1>4. Offers(b) = Offers(q) /\ \A i \in Offers(q) : CloseBefore(q, i, g) => CloseBefore(b, i, g)
  BY <1>1 DEF Offers, CloseBefore
<1>5. Says(p, "close", g) => Says(a, "close", g)
  BY SaysAppended
<1> HIDE DEF a, b
<1>6. ClosesFirst(a, q, g) /\ ClosesFirst(p, b, g)
  BY <1>3, <1>4, <1>5 DEF ClosesFirst
<1> QED
  BY <1>6 DEF a, b

\* An offer behind the close of an attempt.
LEMMA FirstOffers ==
  ASSUME NEW p \in Seq(Message), NEW q \in Seq(Message), NEW m \in Message, NEW g,
         ClosesFirst(p, q, g), Says(p, "close", g) \/ Says(q, "close", g)
  PROVE  ClosesFirst(p, Append(q, m), g)
<1>1. PICK n \in Nat :
           /\ DOMAIN Append(q, m) = DOMAIN q \cup {n} /\ n \notin DOMAIN q
           /\ Append(q, m)[n] = m
           /\ \A i \in DOMAIN q : i \in Nat /\ i < n /\ Append(q, m)[i] = q[i]
  BY Appended
<1> DEFINE b == Append(q, m)
<1>2. \A i \in Offers(b) : i \in Offers(q) \/ i = n
  BY <1>1 DEF Offers
<1>3. \A i \in Offers(q) : CloseBefore(q, i, g) => CloseBefore(b, i, g)
  BY <1>1 DEF Offers, CloseBefore
<1>4. Says(q, "close", g) => CloseBefore(b, n, g)
  BY <1>1 DEF Says, CloseBefore
<1> HIDE DEF b
<1>5. ClosesFirst(p, b, g)
  BY <1>2, <1>3, <1>4 DEF ClosesFirst
<1> QED
  BY <1>5 DEF b

\* The session's head of the queue moves on to the hub.
LEMMA FirstPasses ==
  ASSUME NEW p \in Seq(Message), NEW q \in Seq(Message), NEW g, q # <<>>, ClosesFirst(p, q, g)
  PROVE  /\ ClosesFirst(Append(p, Head(q)), Tail(q), g)
         /\ Head(q).kind # "close" => ClosesFirst(p, Tail(q), g)
<1> DEFINE m == Head(q)
           a == Append(p, m)
           t == Tail(q)
<1>1. /\ t \in Seq(Message) /\ m \in Message /\ m = q[1] /\ 1 \in DOMAIN q
      /\ \A i \in DOMAIN t : i \in Nat /\ i > 0 /\ i + 1 \in DOMAIN q /\ t[i] = q[i + 1]
      /\ \A i \in DOMAIN q : i \in Nat /\ (i = 1 \/ (i > 1 /\ i - 1 \in DOMAIN t /\ t[i - 1] = q[i]))
  BY Taken
<1>2. PICK n \in Nat :
           /\ DOMAIN a = DOMAIN p \cup {n} /\ n \notin DOMAIN p
           /\ a[n] = m
           /\ \A i \in DOMAIN p : i \in Nat /\ i < n /\ a[i] = p[i]
  BY <1>1, Appended
<1>3. Says(a, "close", g) <=> Says(p, "close", g) \/ (m.kind = "close" /\ m.of = g)
  BY <1>1, SaysAppended
<1>0. m = q[1]
  BY <1>1
<1> HIDE DEF m, a, t
<1>4. \A i \in Offers(t) : i \in DOMAIN t /\ i + 1 \in Offers(q)
  BY <1>1 DEF Offers
<1>5. \A i \in Offers(t) : CloseBefore(q, i + 1, g) => CloseBefore(t, i, g) \/ (m.kind = "close" /\ m.of = g)
  <2> SUFFICES ASSUME NEW i \in Offers(t), CloseBefore(q, i + 1, g)
               PROVE  CloseBefore(t, i, g) \/ (m.kind = "close" /\ m.of = g)
    OBVIOUS
  <2>1. PICK j \in DOMAIN q : j < i + 1 /\ q[j].kind = "close" /\ q[j].of = g
    BY DEF CloseBefore
  <2>2. CASE j = 1
    BY <1>0, <2>1, <2>2
  <2>3. CASE j # 1
    <3>0. i \in DOMAIN t
      BY <1>4
    <3>2. i \in Nat /\ j \in Nat /\ j - 1 \in DOMAIN t /\ t[j - 1] = q[j]
      BY <1>1, <2>3, <3>0
    <3>1. j - 1 \in DOMAIN t /\ t[j - 1] = q[j] /\ j - 1 < i
      BY <2>1, <3>2
    <3> QED
      BY <2>1, <3>1 DEF CloseBefore
  <2> QED
    BY <2>2, <2>3
<1>6. \A i \in Offers(a) : i \in Offers(p) \/ (i = n /\ 1 \in Offers(q))
  BY <1>1, <1>2 DEF Offers
<1>7. \A i \in Offers(p) : CloseBefore(p, i, g) => CloseBefore(a, i, g)
  BY <1>2 DEF Offers, CloseBefore
<1>8. ~CloseBefore(q, 1, g)
  BY <1>1 DEF CloseBefore
<1>9. Says(p, "close", g) => CloseBefore(a, n, g)
  BY <1>2 DEF Says, CloseBefore
<1>10. ClosesFirst(a, t, g)
  BY <1>3, <1>4, <1>5, <1>6, <1>7, <1>8, <1>9 DEF ClosesFirst
<1>11. m.kind # "close" => ClosesFirst(p, t, g)
  BY <1>4, <1>5 DEF ClosesFirst
<1> QED
  BY <1>10, <1>11 DEF m, a, t

\* The hub takes its head: no offer comes before the close.
LEMMA FirstTakes ==
  ASSUME NEW p \in Seq(Message), NEW q \in Seq(Message), NEW g, p # <<>>, ClosesFirst(p, q, g)
  PROVE  /\ Head(p).kind # "offer"
         /\ Head(p).kind = "close" => Head(p).of = g \/ ClosesFirst(Tail(p), q, g)
         /\ Head(p).kind # "close" => ClosesFirst(Tail(p), q, g)
<1> DEFINE m == Head(p)
           t == Tail(p)
<1>1. /\ t \in Seq(Message) /\ m \in Message /\ m = p[1] /\ 1 \in DOMAIN p
      /\ \A i \in DOMAIN t : i \in Nat /\ i > 0 /\ i + 1 \in DOMAIN p /\ t[i] = p[i + 1]
      /\ \A i \in DOMAIN p : i \in Nat /\ (i = 1 \/ (i > 1 /\ i - 1 \in DOMAIN t /\ t[i - 1] = p[i]))
  BY Taken
<1>2. Says(p, "close", g) <=> Says(t, "close", g) \/ (m.kind = "close" /\ m.of = g)
  BY SaysTaken
<1>0. m = p[1]
  BY <1>1
<1> HIDE DEF m, t
<1>3. \A i \in Offers(t) : i \in DOMAIN t /\ i + 1 \in Offers(p)
  BY <1>1 DEF Offers
<1>4. \A i \in Offers(t) : CloseBefore(p, i + 1, g) => CloseBefore(t, i, g) \/ (m.kind = "close" /\ m.of = g)
  <2> SUFFICES ASSUME NEW i \in Offers(t), CloseBefore(p, i + 1, g)
               PROVE  CloseBefore(t, i, g) \/ (m.kind = "close" /\ m.of = g)
    OBVIOUS
  <2>1. PICK j \in DOMAIN p : j < i + 1 /\ p[j].kind = "close" /\ p[j].of = g
    BY DEF CloseBefore
  <2>2. CASE j = 1
    BY <1>0, <2>1, <2>2
  <2>3. CASE j # 1
    <3>0. i \in DOMAIN t
      BY <1>3
    <3>2. i \in Nat /\ j \in Nat /\ j - 1 \in DOMAIN t /\ t[j - 1] = p[j]
      BY <1>1, <2>3, <3>0
    <3>1. j - 1 \in DOMAIN t /\ t[j - 1] = p[j] /\ j - 1 < i
      BY <2>1, <3>2
    <3> QED
      BY <2>1, <3>1 DEF CloseBefore
  <2> QED
    BY <2>2, <2>3
<1>5. ~CloseBefore(p, 1, g)
  BY <1>1 DEF CloseBefore
<1>6. m.kind # "offer"
  BY <1>1, <1>5 DEF ClosesFirst, Offers
<1>7. (m.kind = "close" /\ m.of = g) \/ ClosesFirst(t, q, g)
  BY <1>2, <1>3, <1>4 DEF ClosesFirst
<1> QED
  BY <1>6, <1>7 DEF m, t

\* What Inv says of the numbers under way.
LEMMA UnderWay ==
  ASSUME Inv
  PROVE  /\ claim \in Claims /\ claim.g \in Nat /\ peer \in Peers /\ peer.g \in Nat /\ peer.g <= Sent
         /\ Holds \in Nat
         /\ rtc \in Rtcs /\ rtc.g \in Nat /\ rtcGen \in Nat /\ Sent \in Nat /\ Closed \in Nat
         /\ Sent <= rtcGen /\ Closed <= rtcGen
         /\ rtc.at = "none" => rtc.g = 0 /\ rtc = NoRtc
         /\ rtc.at # "none" => rtc.g = rtcGen /\ rtcGen > 0 /\ rtc # NoRtc
         /\ \A g \in Nat : Says(mailbox, "offer", g) \/ Says(up, "offer", g) => peer.g < g /\ g <= Sent
         /\ \A g \in Nat : Says(mailbox, "close", g) \/ Says(up, "close", g) => g <= Closed
         /\ notices \subseteq Nat
<1>1. claim \in Claims /\ peer \in Peers /\ rtc \in Rtcs /\ notices \subseteq Nat
  BY DEF Inv, TypeOK, Claims, Peers, Rtcs
<1>2. claim.g \in Nat /\ rtc.g \in Nat /\ peer.g \in Nat
  BY <1>1 DEF Claims, Rtcs, Peers
<1>3. Ordered(mailbox, up, peer.g, Sent, Closed)
  BY DEF Inv
<1>4. /\ rtc.at = "none" => rtc.g = 0 /\ rtc = NoRtc
      /\ rtc.at # "none" => rtc.g = rtcGen /\ rtcGen > 0 /\ rtc # NoRtc
  BY NoRtcType DEF Inv, Attempt
<1>5. \A g \in Nat : Says(mailbox, "offer", g) \/ Says(up, "offer", g) => peer.g < g /\ g <= Sent
  BY <1>3 DEF Ordered, Offers, Says
<1>6. \A g \in Nat : Says(mailbox, "close", g) \/ Says(up, "close", g) => g <= Closed
  BY <1>3 DEF Ordered, Says
<1>7. peer.g <= Sent
  BY <1>3 DEF Ordered
<1>8. Holds \in Nat
  BY <1>2 DEF Holds
<1> QED
  BY <1>1, <1>2, <1>8, <1>4, <1>5, <1>6, <1>7, Numbers

\* No attempt begins, goes on or ends.
LEMMA AttemptsStay ==
  ASSUME Inv, Attempts, UNCHANGED <<claim, rtc, rtcGen>>,
         peer'.g = peer.g, peer'.open = peer.open, peer'.opening = peer.opening,
         Holds # None => ClosesFirst(mailbox', up', Holds),
         \A g \in Nat : Says(mailbox', "offer", g) \/ Says(up', "offer", g) =>
                          Says(mailbox, "offer", g) \/ Says(up, "offer", g),
         Says(up, "close", Holds) \/ Says(mailbox, "close", Holds) =>
           Says(up', "close", Holds) \/ Says(mailbox', "close", Holds),
         claim.g \in notices \/ Says(down, "close", claim.g) =>
           claim.g \in notices' \/ Says(down', "close", claim.g) \/ (rtc.g = claim.g => claim.g = None),
         \A h \in Nat : Says(down', "answer", h) => Says(down, "answer", h),
         \A h \in Nat : Says(down', "keyframe", h) => Says(down, "keyframe", h) \/ h <= Closed,
         channel' # <<>> => channel # <<>> \/ (peer.open /\ peer.g = rtc.g)
  PROVE  Attempts'
<1>1. Sent' = Sent /\ Closed' = Closed /\ Holds' = Holds
  BY DEF Sent, Closed, Holds
<1>2. Served'
  BY <1>1 DEF Attempts, Served
<1>3. GivenUp'
  BY <1>1 DEF Attempts, GivenUp
<1>4. ChannelIsCurrent'
  BY <1>1 DEF Attempts, ChannelIsCurrent, Served
<1>5. Answers'
  BY <1>1 DEF Attempts, Answers
<1> QED
  BY <1>1, <1>2, <1>3, <1>4, <1>5 DEF Attempts

\* closeRtc and failRtc
LEMMA AttemptEnds ==
  ASSUME Inv, Attempts, rtc' = NoRtc, channel' = <<>>,
         UNCHANGED <<claim, rtcGen, mailbox, peer, notices>>,
         Holds # None => ClosesFirst(mailbox', up', Holds),
         \A g \in Nat : Says(up', "offer", g) => Says(up, "offer", g),
         \A g \in Nat : Says(up, "close", g) => Says(up', "close", g),
         rtc # NoRtc => Says(up', "close", rtc.g),
         \A h \in Nat : Says(down', "answer", h) => Says(down, "answer", h),
         \A h \in Nat : Says(down', "keyframe", h) => Says(down, "keyframe", h)
  PROVE  Attempts'
<1>u. /\ claim.g \in Nat /\ Holds \in Nat /\ peer.g \in Nat /\ rtc.g \in Nat /\ rtcGen \in Nat /\ Sent \in Nat /\ Closed \in Nat
      /\ Sent <= rtcGen /\ Closed <= rtcGen
      /\ \A g \in Nat : Says(mailbox, "offer", g) \/ Says(up, "offer", g) => peer.g < g /\ g <= Sent
      /\ rtc.at = "none" => rtc.g = 0 /\ rtc = NoRtc
  BY UnderWay
<1>1. rtc'.at = "none" /\ rtc'.g = 0 /\ Sent' = rtcGen /\ Closed' = rtcGen /\ Holds' = Holds
  BY NoRtcType DEF Sent, Closed, Holds
<1>2. Served'
  BY <1>1, <1>u DEF Attempts, Served
<1>3. GivenUp'
  <2>1. rtc = NoRtc => rtc.g = 0
    BY NoRtcType
  <2>2. Holds # None => Says(up', "close", Holds) \/ Says(mailbox', "close", Holds)
    BY <1>u, <2>1 DEF Attempts, GivenUp, None
  <2> QED
    BY <1>1, <2>2 DEF GivenUp, None
<1>4. ChannelIsCurrent'
  BY <1>1, <1>u DEF ChannelIsCurrent, None
<1>5. Answers'
  <2>1. \A h \in Nat : Says(down, "answer", h) => h <= Sent
    BY DEF Attempts, Answers
  <2>2. \A h \in Nat : Says(down, "keyframe", h) => h <= Closed
    BY DEF Attempts, Answers
  <2>3. \A g \in Nat : Says(mailbox', "offer", g) \/ Says(up', "offer", g) =>
           g # 0 /\ \A h \in Nat : Says(down', "answer", h) => h < g
    BY <1>u DEF Attempts, Answers
  <2>4. \A h \in Nat : Says(down', "answer", h) => h <= rtcGen
    BY <1>u, <2>1
  <2>5. \A h \in Nat : Says(down', "keyframe", h) => h <= rtcGen
    BY <1>u, <2>2
  <2> QED
    BY <1>1, <2>3, <2>4, <2>5 DEF Answers
<1> QED
  BY <1>1, <1>2, <1>3, <1>4, <1>5 DEF Attempts

\* maybeRtc
LEMMA AttemptStarts ==
  ASSUME Inv, Attempts, MaybeRtc(FALSE) \/ MaybeRtc(TRUE),
         UNCHANGED <<claim, mailbox, peer, notices, channel>>,
         Holds # None => ClosesFirst(mailbox', up', Holds),
         \A g \in Nat : Says(up', "offer", g) => Says(up, "offer", g),
         \A g \in Nat : Says(up, "close", g) => Says(up', "close", g),
         Says(down, "close", claim.g) => Says(down', "close", claim.g),
         \A h \in Nat : Says(down', "answer", h) => Says(down, "answer", h),
         \A h \in Nat : Says(down', "keyframe", h) => Says(down, "keyframe", h)
  PROVE  Attempts'
<1>u. /\ claim.g \in Nat /\ Holds \in Nat /\ peer.g \in Nat /\ rtc.g \in Nat /\ rtcGen \in Nat /\ Sent \in Nat /\ Closed \in Nat
      /\ Sent <= rtcGen /\ Closed <= rtcGen /\ peer.g <= Sent
      /\ \A g \in Nat : Says(mailbox, "offer", g) \/ Says(up, "offer", g) => peer.g < g /\ g <= Sent
      /\ rtc.at = "none" => rtc.g = 0 /\ rtc = NoRtc
  BY UnderWay
<1>1. CASE UNCHANGED attempts
  <2>1. UNCHANGED <<rtc, rtcGen>>
    BY <1>1 DEF attempts
  <2> QED
    BY <1>u, <2>1, AttemptsStay
<1>2. CASE /\ rtc = NoRtc /\ rtcGen' = rtcGen + 1 /\ rtc' = [g |-> rtcGen + 1, at |-> "offering"]
  <2>1. /\ rtc.at = "none" /\ rtc.g = 0 /\ rtc'.at = "offering" /\ rtc'.g = rtcGen + 1
        /\ Sent = rtcGen /\ Closed = rtcGen /\ Sent' = rtcGen /\ Closed' = rtcGen
        /\ Holds' = Holds
    BY <1>2, <1>u, NoRtcType DEF Sent, Closed, Holds
  <2>2. Served'
    BY <1>2, <1>u, <2>1 DEF Attempts, Served
  <2>3. GivenUp'
    <3>1. Holds # None => Says(up', "close", Holds) \/ Says(mailbox', "close", Holds)
      BY <1>u, <2>1 DEF Attempts, GivenUp, None
    <3>2. rtc'.g # claim.g
      BY <1>u, <2>1 DEF Attempts, Served
    <3> QED
      BY <2>1, <3>1, <3>2 DEF GivenUp
  <2>4. ChannelIsCurrent'
    <3>1. Holds <= Sent
      BY <1>u DEF Attempts, Served, Holds
    <3>2. rtc'.g # Holds
      BY <1>u, <2>1, <3>1
    <3> QED
      BY <1>u, <2>1, <3>2 DEF Attempts, ChannelIsCurrent, None
  <2>5. Answers'
    <3>1. \A g \in Nat : Says(mailbox', "offer", g) \/ Says(up', "offer", g) =>
             g # rtcGen + 1 /\ \A h \in Nat : Says(down', "answer", h) => h < g
      BY <1>u DEF Attempts, Answers
    <3>2. \A h \in Nat : Says(down', "answer", h) => h <= rtcGen
      BY <2>1 DEF Attempts, Answers
    <3>3. \A h \in Nat : Says(down', "keyframe", h) => h <= rtcGen
      BY <2>1 DEF Attempts, Answers
    <3> QED
      BY <2>1, <3>1, <3>2, <3>3 DEF Answers
  <2> QED
    BY <2>1, <2>2, <2>3, <2>4, <2>5 DEF Attempts
<1> QED
  BY <1>1, <1>2 DEF MaybeRtc

\* A word more on a queue.
LEMMA WordSays ==
  ASSUME NEW q \in Seq(Message), NEW kind \in AllKinds, NEW of \in Nat
  PROVE  /\ Append(q, Say(kind, of)) \in Seq(Message)
         /\ \A k, h : Says(Append(q, Say(kind, of)), k, h) <=> Says(q, k, h) \/ (k = kind /\ h = of)
<1> DEFINE m == Say(kind, of)
<1>1. m \in Message /\ m.kind = kind /\ m.of = of
  BY SayType
<1> HIDE DEF m
<1>2. ASSUME NEW k, NEW h
      PROVE  Says(Append(q, m), k, h) <=> Says(q, k, h) \/ (k = kind /\ h = of)
  BY <1>1, SaysAppended
<1>3. Append(q, m) \in Seq(Message)
  BY <1>1
<1>4. \A k, h : Says(Append(q, m), k, h) <=> Says(q, k, h) \/ (k = kind /\ h = of)
  BY <1>2
<1> QED
  BY <1>3, <1>4 DEF m

\* The same of a concatenation.
LEMMA ConcatSays ==
  ASSUME NEW q \in Seq(Message), NEW m \in Message
  PROVE  \A k, h : Says(q \o <<m>>, k, h) <=> Says(q, k, h) \/ (k = m.kind /\ h = m.of)
<1>1. q \o <<m>> = Append(q, m)
  BY OneMore
<1>2. ASSUME NEW k, NEW h PROVE Says(Append(q, m), k, h) <=> Says(q, k, h) \/ (k = m.kind /\ h = m.of)
  BY SaysAppended
<1> QED
  BY <1>1, <1>2

\* The session's steps keep what the two ends know of an attempt.
LEMMA SessionAttempts ==
  ASSUME Inv, Attempts, Session
  PROVE  Attempts'
<1>u. /\ claim.g \in Nat /\ Holds \in Nat /\ down \in Seq(Message) /\ up \in Seq(Message) /\ mailbox \in Seq(Message)
      /\ encoder \in Encoders /\ encoder.epoch \in Nat /\ encoder.epoch + 1 \in Nat
      /\ Holds # None => ClosesFirst(mailbox, up, Holds)
  <2>1. encoder \in Encoders
    BY DEF Inv, TypeOK, Encoders
  <2>2. encoder.epoch \in Nat /\ encoder.epoch + 1 \in Nat
    BY <2>1 DEF Encoders
  <2>3. Holds # None => ClosesFirst(mailbox, up, Holds)
    BY DEF Attempts
  <2> QED
    BY <2>1, <2>2, <2>3, UnderWay, PageFacts
<1>k. "STREAM_STATE" \in AllKinds /\ "CONFIG" \in AllKinds /\ "VIDEO" \in AllKinds
  BY DEF AllKinds, ToHub, ToPage
<1>s. ASSUME NEW of \in Nat,
             down' = down \/ down' = Append(down, Say("STREAM_STATE", of)),
             UNCHANGED <<claim, mailbox, peer, notices, up, channel, rtc, rtcGen>>
      PROVE  Attempts'
  <2>1. \A k, h : k # "STREAM_STATE" => (Says(down', k, h) <=> Says(down, k, h))
    <3> DEFINE q == Append(down, Say("STREAM_STATE", of))
    <3>1. \A k, h : Says(q, k, h) <=> Says(down, k, h) \/ (k = "STREAM_STATE" /\ h = of)
      BY <1>u, <1>k, WordSays
    <3>2. down' = down \/ down' = q
      BY <1>s
    <3> HIDE DEF q
    <3> QED
      BY <3>1, <3>2
  <2>2. Says(down, "close", claim.g) => Says(down', "close", claim.g)
    BY <2>1
  <2>3. /\ \A h \in Nat : Says(down', "answer", h) => Says(down, "answer", h)
        /\ \A h \in Nat : Says(down', "keyframe", h) => Says(down, "keyframe", h)
    BY <2>1
  <2> QED
    BY <1>u, <1>s, <2>2, <2>3, AttemptsStay
<1>1. CASE Restart
  <2>1. /\ down' = down \/ down' = Append(down, Say("STREAM_STATE", encoder.epoch + 1))
        /\ UNCHANGED <<claim, mailbox, peer, notices, up, channel, rtc, rtcGen>>
    BY <1>1 DEF Restart, hub, NewEncoder, pageSide, attempts
  <2> QED
    BY <1>u, <1>s, <2>1
<1>2. CASE Info
  <2>1. /\ down' = Append(down, Say("STREAM_STATE", encoder.epoch))
        /\ UNCHANGED <<claim, mailbox, peer, notices, up, channel, rtc, rtcGen>>
    BY <1>2 DEF Info, hub, pageSide, attempts
  <2> QED
    BY <1>u, <1>s, <2>1
<1>3. CASE SendFrame
  <2> DEFINE f == [epoch |-> encoder.epoch, n |-> encoder.frames, key |-> encoder.wantKey]
             config == IF wsConfig = f.epoch THEN down ELSE Append(down, Say("CONFIG", f.epoch))
  <2>1. /\ \/ /\ mailbox' = mailbox \/ mailbox' = Append(mailbox, Video(f))
              /\ down' = down
           \/ /\ down' = config \o <<Video(f)>>
              /\ mailbox' = mailbox
        /\ UNCHANGED <<claim, peer, notices, up, channel, rtc, rtcGen>>
    BY <1>3 DEF SendFrame, pageSide, attempts
  <2>2. f \in Frame /\ f.epoch \in Nat
    BY <1>u DEF Frame, Encoders
  <2>3. Video(f) \in Message /\ Video(f).kind = "VIDEO"
    BY <2>2, VideoType
  <2> HIDE DEF f
  <2>4. /\ config \in Seq(Message)
        /\ \A k, h : k # "CONFIG" => (Says(config, k, h) <=> Says(down, k, h))
    <3> DEFINE q == Append(down, Say("CONFIG", f.epoch))
    <3>1. /\ q \in Seq(Message)
          /\ \A k, h : Says(q, k, h) <=> Says(down, k, h) \/ (k = "CONFIG" /\ h = f.epoch)
      BY <1>u, <1>k, <2>2, WordSays
    <3>2. config = down \/ config = q
      OBVIOUS
    <3> HIDE DEF q, config
    <3> QED
      BY <1>u, <3>1, <3>2
  <2> HIDE DEF config
  <2>5. \A k, h : k \notin {"CONFIG", "VIDEO"} => (Says(down', k, h) <=> Says(down, k, h))
    <3> DEFINE v == Video(f)
               r == config \o <<v>>
    <3>1. v \in Message /\ v.kind = "VIDEO" /\ (down' = down \/ down' = r)
      BY <2>1, <2>3
    <3> HIDE DEF v
    <3>2. \A k, h : Says(r, k, h) <=> Says(config, k, h) \/ (k = v.kind /\ h = v.of)
      BY <2>4, <3>1, ConcatSays
    <3> HIDE DEF r
    <3> QED
      BY <2>4, <3>1, <3>2
  <2>6. /\ Says(down, "close", claim.g) => Says(down', "close", claim.g)
        /\ \A h \in Nat : Says(down', "answer", h) => Says(down, "answer", h)
        /\ \A h \in Nat : Says(down', "keyframe", h) => Says(down, "keyframe", h)
    BY <2>5
  <2>7. /\ \A k, h : k # "VIDEO" => (Says(mailbox', k, h) <=> Says(mailbox, k, h))
        /\ Holds # None => ClosesFirst(mailbox', up', Holds)
    <3>1. CASE mailbox' = mailbox
      BY <1>u, <2>1, <3>1
    <3>2. CASE mailbox' = Append(mailbox, Video(f))
      <4>1. \A k, h : k # "VIDEO" => (Says(mailbox', k, h) <=> Says(mailbox, k, h))
        BY <1>u, <2>3, <3>2, SaysAppended
      <4>2. Holds # None => ClosesFirst(mailbox', up', Holds)
        BY <1>u, <2>1, <2>3, <3>2, FirstAppends
      <4> QED
        BY <4>1, <4>2
    <3> QED
      BY <2>1, <3>1, <3>2
  <2>8. /\ Says(mailbox, "close", Holds) => Says(mailbox', "close", Holds)
        /\ \A g \in Nat : Says(mailbox', "offer", g) => Says(mailbox, "offer", g)
    BY <2>7
  <2> QED
    BY <1>u, <2>1, <2>6, <2>7, <2>8, AttemptsStay
<1>4. CASE Receive
  <2> DEFINE m == Head(up)
  <2>1. /\ up # <<>> /\ up' = Tail(up)
        /\ \/ m.kind = "REQUEST_KEYFRAME" /\ mailbox' = mailbox
           \/ m.kind # "REQUEST_KEYFRAME" /\ mailbox' = Append(mailbox, m)
        /\ UNCHANGED <<claim, peer, notices, down, channel, rtc, rtcGen>>
    BY <1>4 DEF Receive, pageSide, attempts
  <2>2. m \in Message
    BY <1>u, <2>1, TailFacts
  <2>3. \A k, h : Says(up, k, h) <=> Says(up', k, h) \/ (m.kind = k /\ m.of = h)
    BY <1>u, <2>1, SaysTaken
  <2>4. /\ \A k, h : Says(mailbox', k, h) => Says(mailbox, k, h) \/ (m.kind = k /\ m.of = h)
        /\ \A k, h : Says(mailbox, k, h) \/ (m.kind # "REQUEST_KEYFRAME" /\ m.kind = k /\ m.of = h)
                       => Says(mailbox', k, h)
    <3> DEFINE q == Append(mailbox, m)
    <3>1. \A k, h : Says(q, k, h) <=> Says(mailbox, k, h) \/ (m.kind = k /\ m.of = h)
      BY <1>u, <2>2, SaysAppended
    <3>2. \/ m.kind = "REQUEST_KEYFRAME" /\ mailbox' = mailbox
          \/ m.kind # "REQUEST_KEYFRAME" /\ mailbox' = q
      BY <2>1
    <3> HIDE DEF q, m
    <3> QED
      BY <3>1, <3>2
  <2>5. Holds # None => ClosesFirst(mailbox', up', Holds)
    BY <1>u, <2>1, <2>2, FirstPasses
  <2> HIDE DEF m
  <2>6. \A g \in Nat : Says(mailbox', "offer", g) \/ Says(up', "offer", g) =>
                          Says(mailbox, "offer", g) \/ Says(up, "offer", g)
    BY <2>3, <2>4
  <2>7. Says(up, "close", Holds) \/ Says(mailbox, "close", Holds) =>
           Says(up', "close", Holds) \/ Says(mailbox', "close", Holds)
    BY <2>3, <2>4
  <2> QED
    BY <1>u, <2>1, <2>5, <2>6, <2>7, AttemptsStay
<1> QED
  BY <1>1, <1>2, <1>3, <1>4 DEF Session

\* What the hub takes out of its mailbox.
LEMMA MailAttempts ==
  ASSUME Inv, Attempts, TakeMail
  PROVE  Attempts'
<1> DEFINE m == Head(mailbox)
           g == m.of
<1>0. /\ mailbox # <<>> /\ mailbox' = Tail(mailbox) /\ m \in Message
      /\ UNCHANGED <<notices, up, channel, rtc, rtcGen>>
      /\ \/ m.kind = "offer" /\ TakeOffer(g)
         \/ m.kind = "VIDEO" /\ TakeFrame(m.frame)
         \/ m.kind = "close" /\ TakeClose(g)
  BY MailCases DEF pageSide, attempts
<1>1. g \in Nat /\ m.frame \in Frame
  BY <1>0 DEF Message
<1>u. /\ claim.g \in Nat /\ Holds \in Nat /\ peer \in Peers /\ peer.g \in Nat /\ peer.g <= Sent
      /\ rtc.g \in Nat /\ rtcGen \in Nat /\ Sent \in Nat /\ Closed \in Nat
      /\ Sent <= rtcGen /\ Closed <= rtcGen
      /\ rtc.at = "none" => rtc.g = 0
      /\ rtc.at # "none" => rtc.g = rtcGen /\ rtcGen > 0
      /\ mailbox \in Seq(Message) /\ up \in Seq(Message) /\ down \in Seq(Message)
  BY UnderWay, PageFacts
<1>a. Served /\ GivenUp /\ ChannelIsCurrent /\ Answers
  BY DEF Attempts
<1>2. /\ Holds # None => ClosesFirst(mailbox, up, Holds)
      /\ Holds # None => m.kind # "offer"
      /\ Holds # None /\ (m.kind # "close" \/ g # Holds) => ClosesFirst(mailbox', up', Holds)
  <2>1. Holds # None => ClosesFirst(mailbox, up, Holds)
    BY DEF Attempts
  <2> QED
    BY <1>0, <1>u, <2>1, FirstTakes
<1>3. \A k, h : Says(mailbox, k, h) <=> Says(mailbox', k, h) \/ (m.kind = k /\ g = h)
  BY <1>0, <1>u, SaysTaken
<1>4. /\ m.kind = "offer" => g <= Sent /\ Ordered(mailbox', up', g, Sent, Closed)
      /\ m.kind = "close" => g <= Closed
  <2>1. Ordered(mailbox, up, peer.g, Sent, Closed)
    BY PageFacts
  <2> QED
    BY <1>0, <1>u, <2>1, OrderedTakes
<1>5. Sent' = Sent /\ Closed' = Closed
  BY <1>0 DEF Sent, Closed
<1>n. NoClaim.g = None /\ ~NoClaim.active /\ NoPeer.g = 0 /\ ~NoPeer.open /\ ~NoPeer.opening
  BY NobodyTypes DEF NoClaim
<1>k. "answer" \in AllKinds /\ "close" \in AllKinds /\ "keyframe" \in AllKinds
  BY DEF AllKinds, ToHub, ToPage
<1> HIDE DEF m, g
<1>6. CASE m.kind = "offer" /\ TakeOffer(g)
  <2>1. /\ claim' = NoClaim
        /\ peer' = [NoPeer EXCEPT !.g = g] \/ peer' = NoPeer
        /\ down' = down \/ down' = Append(down, Say("answer", g)) \/ down' = Append(down, Say("close", g))
    BY <1>6 DEF TakeOffer
  <2>2. ~peer'.open /\ ~peer'.opening /\ peer'.g \in {0, g}
    BY <1>1, <2>1, NobodyTypes
  <2>3. \A k, h : Says(down', k, h) => Says(down, k, h) \/ (k \in {"answer", "close"} /\ h = g)
    <3> DEFINE q == Append(down, Say("answer", g))
               r == Append(down, Say("close", g))
    <3>1. \A k, h : Says(q, k, h) <=> Says(down, k, h) \/ (k = "answer" /\ h = g)
      BY <1>1, <1>u, <1>k, WordSays
    <3>2. \A k, h : Says(r, k, h) <=> Says(down, k, h) \/ (k = "close" /\ h = g)
      BY <1>1, <1>u, <1>k, WordSays
    <3>3. down' = down \/ down' = q \/ down' = r
      BY <2>1
    <3> HIDE DEF q, r
    <3> QED
      BY <3>1, <3>2, <3>3
  <2>4. claim.g = None
    <3>1. Holds = None
      BY <1>2, <1>6
    <3> QED
      BY <1>a, <3>1 DEF Served, Holds
  <2>5. Served' /\ Holds' = None
    BY <1>0, <1>5, <1>n, <1>u, <2>1, <2>2, <2>4 DEF Served, None, Holds
  <2>6. GivenUp'
    BY <1>n, <2>1, <2>5 DEF GivenUp
  <2>8. ChannelIsCurrent'
    BY <1>0, <1>a, <2>4, <2>5 DEF ChannelIsCurrent
  <2>9. Answers'
    <3>1. ASSUME NEW i \in Nat, Says(mailbox', "offer", i) \/ Says(up', "offer", i)
          PROVE  /\ i = rtc.g => rtc.at = "offered"
                 /\ \A h \in Nat : Says(down', "answer", h) => h < i
      <4>1. Says(mailbox, "offer", i) \/ Says(up, "offer", i)
        BY <1>0, <1>3, <3>1
      <4>2. g < i
        BY <1>4, <1>6, <3>1 DEF Ordered, Offers, Says
      <4>3. /\ i = rtc.g => rtc.at = "offered"
            /\ \A h \in Nat : Says(down, "answer", h) => h < i
        BY <1>a, <4>1 DEF Answers
      <4> QED
        BY <2>3, <4>2, <4>3
    <3>2. \A h \in Nat : Says(down', "answer", h) => h <= Sent
      BY <1>a, <1>4, <1>6, <2>3 DEF Answers
    <3>3. \A h \in Nat : Says(down', "keyframe", h) => h <= Closed
      BY <1>a, <2>3 DEF Answers
    <3> QED
      BY <1>0, <1>5, <3>1, <3>2, <3>3 DEF Answers
  <2> QED
    BY <2>5, <2>6, <2>8, <2>9 DEF Attempts
<1>7. CASE m.kind = "VIDEO" /\ TakeFrame(m.frame)
  <2>1. UNCHANGED <<claim, down>> /\ (peer' = Enqueue(peer, m.frame) \/ peer' = peer)
    BY <1>7 DEF TakeFrame
  <2>2. peer'.g = peer.g /\ peer'.open = peer.open /\ peer'.opening = peer.opening
    BY <1>1, <1>u, <2>1, EnqueueType
  <2>3. \A k, h : k # "VIDEO" => (Says(mailbox', k, h) <=> Says(mailbox, k, h))
    BY <1>3, <1>7
  <2>4. Holds # None => ClosesFirst(mailbox', up', Holds)
    BY <1>2, <1>7
  <2>5. \A i \in Nat : Says(mailbox', "offer", i) \/ Says(up', "offer", i) =>
                          Says(mailbox, "offer", i) \/ Says(up, "offer", i)
    BY <1>0, <2>3
  <2>6. Says(up, "close", Holds) \/ Says(mailbox, "close", Holds) =>
           Says(up', "close", Holds) \/ Says(mailbox', "close", Holds)
    BY <1>0, <2>3
  <2> QED
    BY <1>0, <2>1, <2>2, <2>4, <2>5, <2>6, AttemptsStay
<1>8. CASE m.kind = "close" /\ TakeClose(g)
  <2>1. /\ peer' = IF peer.g = g THEN NoPeer ELSE peer
        /\ claim' = IF claim.g = g THEN NoClaim ELSE claim
        /\ IF claim.g = g THEN down' = Append(down, Say("keyframe", g)) ELSE down' = down
    BY <1>8 DEF TakeClose, Reply, Closes
  <2>2. g <= Closed
    BY <1>4, <1>8
  <2>3. rtc.at # "none" => g < rtc.g
    BY <1>1, <1>u, <2>2 DEF Closed
  <2>4. \A k, h : Says(down', k, h) => Says(down, k, h) \/ (k = "keyframe" /\ h = g)
    <3> DEFINE q == Append(down, Say("keyframe", g))
    <3>1. \A k, h : Says(q, k, h) <=> Says(down, k, h) \/ (k = "keyframe" /\ h = g)
      BY <1>1, <1>u, <1>k, WordSays
    <3>2. down' = down \/ down' = q
      BY <2>1
    <3> HIDE DEF q
    <3> QED
      BY <3>1, <3>2
  <2>5. Answers'
    <3>1. \A i \in Nat : Says(mailbox', "offer", i) \/ Says(up', "offer", i) =>
                           Says(mailbox, "offer", i) \/ Says(up, "offer", i)
      BY <1>0, <1>3
    <3>2. \A h \in Nat : Says(down', "answer", h) => Says(down, "answer", h)
      BY <2>4
    <3>3. \A h \in Nat : Says(down', "keyframe", h) => h <= Closed
      BY <1>a, <2>2, <2>4 DEF Answers
    <3> QED
      BY <1>0, <1>5, <1>a, <3>1, <3>2, <3>3 DEF Answers
  <2>6. Served'
    <3>1. peer'.open => peer' = peer /\ claim' = claim
      <4>1. peer'.open => peer' = peer /\ peer.g # g
        BY <1>n, <2>1
      <4>2. peer.open => claim.g = peer.g
        BY <1>a DEF Served
      <4> QED
        BY <2>1, <4>1, <4>2
    <3>2. claim'.active => claim' = claim /\ peer' = peer
      <4>1. claim'.active => claim' = claim /\ claim.g # g
        BY <1>n, <2>1
      <4>2. claim.active => claim.g = peer.g
        BY <1>a DEF Served
      <4> QED
        BY <2>1, <4>1, <4>2
    <3>3. peer'.opening => peer' = peer /\ claim'.g = None
      <4>1. peer'.opening => peer' = peer
        BY <1>n, <2>1
      <4>2. claim'.g \in {None, claim.g}
        BY <1>n, <2>1
      <4> QED
        BY <1>a, <4>1, <4>2 DEF Served
    <3>4. claim'.g # None => claim' = claim /\ peer'.g \in {None, peer.g}
      BY <1>n, <2>1 DEF None
    <3>5. claim'.g <= Sent'
      BY <1>5, <1>a, <1>n, <1>u, <2>1 DEF Served, None
    <3> QED
      BY <1>a, <3>1, <3>2, <3>3, <3>4, <3>5 DEF Served
  <2>7. Holds' # None => Holds' = Holds /\ Holds # g
    <3>1. CASE peer'.opening
      <4>1. peer' = peer /\ peer.g # g
        BY <1>n, <2>1, <3>1
      <4> QED
        BY <3>1, <4>1 DEF Holds
    <3>2. CASE ~peer'.opening
      <4>1. Holds' = claim'.g
        BY <3>2 DEF Holds
      <4>2. claim'.g # None => claim' = claim /\ claim.g # g
        BY <1>n, <2>1
      <4>3. claim.g # None => ~peer.opening
        BY <1>a DEF Served
      <4> QED
        BY <4>1, <4>2, <4>3 DEF Holds
    <3> QED
      BY <3>1, <3>2
  <2>8. GivenUp'
    <3>1. Holds' # None /\ rtc'.g # Holds' => Says(up', "close", Holds') \/ Says(mailbox', "close", Holds')
      BY <1>0, <1>3, <1>a, <2>7 DEF GivenUp
    <3>2. claim'.g # None => claim' = claim /\ claim.g # g
      BY <1>n, <2>1
    <3>3. claim'.g # None /\ ~claim'.active /\ rtc'.g = claim'.g =>
             claim'.g \in notices' \/ Says(down', "close", claim'.g)
      BY <1>0, <1>a, <2>1, <3>2 DEF GivenUp
    <3> QED
      BY <3>1, <3>3 DEF GivenUp
  <2>9. ChannelIsCurrent'
    <3>1. ASSUME channel # <<>>
          PROVE  claim' = claim /\ (peer'.g = rtc.g => peer' = peer)
      <4>1. claim.g # None /\ claim.g = rtc.g
        BY <1>a, <3>1 DEF ChannelIsCurrent
      <4>2. Holds = claim.g
        BY <1>a, <4>1 DEF Served, Holds
      <4>3. rtc.at # "none"
        BY <1>a, <4>1, <4>2 DEF ChannelIsCurrent
      <4>4. g # rtc.g /\ rtc.g # 0
        BY <1>1, <1>u, <2>3, <4>3
      <4> QED
        BY <1>n, <2>1, <4>1, <4>4
    <3> QED
      BY <1>0, <1>a, <2>7, <3>1 DEF ChannelIsCurrent
  <2> QED
    BY <1>2, <2>5, <2>6, <2>7, <2>8, <2>9 DEF Attempts
<1> QED
  BY <1>0, <1>6, <1>7, <1>8 DEF m, g

\* The hub's own steps.
LEMMA HubAttempts ==
  ASSUME Inv, Attempts, Hub
  PROVE  Attempts'
<1>u. /\ claim \in Claims /\ claim.g \in Nat /\ Holds \in Nat /\ peer \in Peers /\ peer.g \in Nat /\ peer.g <= Sent
      /\ rtc.g \in Nat /\ rtcGen \in Nat /\ Sent \in Nat /\ Closed \in Nat
      /\ Sent <= rtcGen /\ Closed <= rtcGen
      /\ rtc.at = "none" => rtc.g = 0
      /\ rtc.at # "none" => rtc.g = rtcGen /\ rtcGen > 0
      /\ \A g \in Nat : Says(mailbox, "offer", g) \/ Says(up, "offer", g) => peer.g < g /\ g <= Sent
      /\ mailbox \in Seq(Message) /\ up \in Seq(Message) /\ down \in Seq(Message) /\ notices \subseteq Nat
  BY UnderWay, PageFacts
<1>a. Served /\ GivenUp /\ ChannelIsCurrent /\ Answers
  BY DEF Attempts
<1>b. Holds # None => ClosesFirst(mailbox, up, Holds)
  BY DEF Attempts
<1>c. ASSUME UNCHANGED <<rtc, rtcGen, mailbox, up, down>> PROVE Sent' = Sent /\ Closed' = Closed /\ Answers'
  <2>1. Sent' = Sent /\ Closed' = Closed
    BY <1>c DEF Sent, Closed
  <2> QED
    BY <1>a, <1>c, <2>1 DEF Answers
<1>1. CASE TakeMail
  BY <1>1, MailAttempts
<1>2. CASE ChannelOpen
  <2>1. /\ peer.opening
        /\ peer' = [peer EXCEPT !.opening = FALSE, !.open = TRUE] /\ claim' = [g |-> peer.g, active |-> TRUE]
        /\ UNCHANGED <<mailbox, notices, down, up, channel, rtc, rtcGen>>
    BY <1>2 DEF ChannelOpen, pageSide, attempts
  <2>2. /\ peer'.g = peer.g /\ peer'.open /\ ~peer'.opening /\ claim'.g = peer.g /\ claim'.active
        /\ peer.g # None /\ claim.g = None
    BY <1>a, <1>u, <2>1 DEF Peers, Served
  <2>3. Sent' = Sent /\ Answers' /\ Holds' = Holds
    BY <1>c, <2>1, <2>2 DEF Holds
  <2>4. Served' /\ GivenUp' /\ ChannelIsCurrent'
    BY <1>a, <1>u, <2>1, <2>2, <2>3 DEF Served, GivenUp, ChannelIsCurrent
  <2> QED
    BY <1>b, <2>1, <2>3, <2>4 DEF Attempts
<1>3. CASE ChannelClose
  <2>1. /\ peer.open /\ rtc.g # peer.g
        /\ peer' = [peer EXCEPT !.open = FALSE, !.queue = <<>>] /\ claim' = [claim EXCEPT !.active = FALSE]
        /\ UNCHANGED <<mailbox, notices, down, up, channel, rtc, rtcGen>>
    BY <1>3 DEF ChannelClose, pageSide, attempts
  <2>2. /\ peer'.g = peer.g /\ ~peer'.open /\ claim'.g = claim.g /\ ~claim'.active /\ claim.g = peer.g
        /\ ~peer.opening /\ ~peer'.opening
    BY <1>a, <1>u, <2>1 DEF Peers, Claims, Served
  <2>3. Sent' = Sent /\ Answers' /\ Holds' = Holds
    BY <1>c, <2>1, <2>2 DEF Holds
  <2>4. Served' /\ GivenUp' /\ ChannelIsCurrent'
    BY <1>a, <2>1, <2>2, <2>3 DEF Served, GivenUp, ChannelIsCurrent
  <2> QED
    BY <1>b, <2>1, <2>2, <2>3, <2>4 DEF Attempts
<1>4. CASE Flush
  <2>1. /\ peer.open /\ peer' = [peer EXCEPT !.queue = Tail(peer.queue)]
        /\ rtc.g = peer.g \/ channel' = channel
        /\ UNCHANGED <<claim, mailbox, notices, down, up, rtc, rtcGen>>
    BY <1>4 DEF Flush, pageSide, attempts
  <2>2. peer'.g = peer.g /\ peer'.open = peer.open /\ peer'.opening = peer.opening
    BY <1>u, <2>1 DEF Peers
  <2> QED
    BY <1>b, <2>1, <2>2, AttemptsStay
<1>5. CASE PeerDies
  <2>1. /\ peer' = NoPeer /\ claim' = [claim EXCEPT !.active = FALSE] /\ notices' = notices \cup {peer.g}
        /\ channel' \in {channel, <<>>}
        /\ UNCHANGED <<mailbox, down, up, rtc, rtcGen>>
    BY <1>5 DEF PeerDies, ClaimAfterDeath, Owes, pageSide, attempts
  <2>2. /\ peer'.g = 0 /\ ~peer'.open /\ ~peer'.opening /\ claim'.g = claim.g /\ ~claim'.active
        /\ Holds' \in {None, Holds}
    BY <1>a, <1>u, <2>1, NobodyTypes DEF Claims, Holds, Served
  <2>3. Sent' = Sent /\ Answers'
    BY <1>c, <2>1
  <2>4. Served' /\ ChannelIsCurrent'
    BY <1>a, <1>u, <2>1, <2>2, <2>3 DEF Served, ChannelIsCurrent, None
  <2>5. GivenUp'
    BY <1>a, <2>1, <2>2 DEF GivenUp, Served
  <2> QED
    BY <1>b, <2>1, <2>2, <2>3, <2>4, <2>5 DEF Attempts
<1>6. CASE Notice
  <2>1. PICK g \in notices : notices' = notices \ {g} /\ down' = Append(down, Say("close", g))
    BY <1>6 DEF Notice
  <2>2. UNCHANGED <<claim, mailbox, peer, up, channel, rtc, rtcGen>>
    BY <1>6 DEF Notice, pageSide, attempts
  <2>3. \A k, h : Says(down', k, h) <=> Says(down, k, h) \/ (k = "close" /\ h = g)
    <3>1. "close" \in AllKinds /\ g \in Nat
      BY <1>u DEF AllKinds, ToHub
    <3>2. \A k, h : Says(Append(down, Say("close", g)), k, h) <=> Says(down, k, h) \/ (k = "close" /\ h = g)
      BY <1>u, <3>1, WordSays
    <3> QED
      BY <2>1, <3>2, Zenon
  <2>4. claim.g \in notices \/ Says(down, "close", claim.g) => claim.g \in notices' \/ Says(down', "close", claim.g)
    BY <2>1, <2>3
  <2>5. /\ \A h \in Nat : Says(down', "answer", h) => Says(down, "answer", h)
        /\ \A h \in Nat : Says(down', "keyframe", h) => Says(down, "keyframe", h)
    BY <2>3
  <2> QED
    BY <1>b, <2>2, <2>4, <2>5, AttemptsStay
<1> QED
  BY <1>1, <1>2, <1>3, <1>4, <1>5, <1>6 DEF Hub

\* What the page may put on the socket when it gives an attempt up or wants a key.
LEMMA WordsUp ==
  ASSUME Inv, Attempts, NEW word \in {<<>>, ClosingWord},
         up' = up \o word \/ up' = (up \o word) \o KeyWanted
  PROVE  /\ Holds # None => ClosesFirst(mailbox, up', Holds)
         /\ \A g \in Nat : Says(up', "offer", g) => Says(up, "offer", g)
         /\ \A g \in Nat : Says(up, "close", g) => Says(up', "close", g)
         /\ word = ClosingWord /\ rtc # NoRtc => Says(up', "close", rtc.g)
         /\ \A g : Says(up', "REQUEST_KEYFRAME", g) <=>
              Says(up, "REQUEST_KEYFRAME", g) \/ (g = None /\ up' = (up \o word) \o KeyWanted)
<1>u. /\ claim.g \in Nat /\ Holds \in Nat /\ rtc.g \in Nat /\ mailbox \in Seq(Message) /\ up \in Seq(Message)
      /\ Holds # None => ClosesFirst(mailbox, up, Holds)
  <2>1. Holds # None => ClosesFirst(mailbox, up, Holds)
    BY DEF Attempts
  <2> QED
    BY <2>1, UnderWay, PageFacts
<1> DEFINE c == Say("close", rtc.g)
           r == Say("REQUEST_KEYFRAME", None)
           w == up \o word
           k == w \o KeyWanted
<1>1. /\ c \in Message /\ c.kind = "close" /\ c.of = rtc.g
      /\ r \in Message /\ r.kind = "REQUEST_KEYFRAME" /\ r.of = None
  BY <1>u, SayType DEF AllKinds, ToHub, ToSession, None
<1>2. w = up \/ (w = Append(up, c) /\ rtc # NoRtc)
  <2>1. word = <<>> \/ (word = <<c>> /\ rtc # NoRtc)
    BY DEF ClosingWord
  <2> HIDE DEF c
  <2> QED
    BY <1>u, <1>1, <2>1, OneMore
<1>3. word = ClosingWord /\ rtc # NoRtc => w = Append(up, c)
  <2>1. rtc # NoRtc => ClosingWord = <<c>>
    BY DEF ClosingWord
  <2> HIDE DEF c
  <2> QED
    BY <1>u, <1>1, <2>1, OneMore
<1> HIDE DEF c, w
<1>4. /\ w \in Seq(Message)
      /\ \A kind, g : Says(w, kind, g) <=>
           Says(up, kind, g) \/ (w = Append(up, c) /\ kind = "close" /\ g = rtc.g /\ w # up)
      /\ Holds # None => ClosesFirst(mailbox, w, Holds)
  <2>1. CASE w = up
    BY <1>u, <2>1
  <2>2. CASE w = Append(up, c)
    <3>1. w \in Seq(Message)
      BY <1>u, <1>1, <2>2
    <3>2. \A kind, g : Says(w, kind, g) <=> Says(up, kind, g) \/ (c.kind = kind /\ c.of = g)
      BY <1>u, <1>1, <2>2, SaysAppended
    <3>3. Holds # None => ClosesFirst(mailbox, w, Holds)
      BY <1>u, <1>1, <2>2, FirstAppends
    <3>4. w # up
      <4>1. Len(Append(up, c)) = Len(up) + 1 /\ Len(up) \in Nat
        BY <1>u
      <4> QED
        BY <2>2, <4>1
    <3> QED
      BY <1>1, <2>2, <3>1, <3>2, <3>3, <3>4
  <2> QED
    BY <1>2, <2>1, <2>2
<1>5. k = Append(w, r)
  <2>1. KeyWanted = <<r>>
    BY DEF KeyWanted
  <2> HIDE DEF r
  <2> QED
    BY <1>1, <1>4, <2>1, OneMore
<1> HIDE DEF k, r
<1>6. /\ \A kind, g : Says(k, kind, g) <=> Says(w, kind, g) \/ (kind = "REQUEST_KEYFRAME" /\ g = None)
      /\ Holds # None => ClosesFirst(mailbox, k, Holds)
  <2>1. \A kind, g : Says(k, kind, g) <=> Says(w, kind, g) \/ (r.kind = kind /\ r.of = g)
    BY <1>1, <1>4, <1>5, SaysAppended
  <2>2. Holds # None => ClosesFirst(mailbox, k, Holds)
    BY <1>u, <1>1, <1>4, <1>5, FirstAppends
  <2> QED
    BY <1>1, <2>1, <2>2
<1>7. up' = w \/ up' = k
  BY DEF w, k
<1>8. w # k
  <2>1. Len(Append(w, r)) = Len(w) + 1 /\ Len(w) \in Nat
    BY <1>1, <1>4
  <2> QED
    BY <1>5, <2>1
<1>9. word = ClosingWord /\ rtc # NoRtc => Says(w, "close", rtc.g)
  <2>1. Says(Append(up, c), "close", rtc.g) <=> Says(up, "close", rtc.g) \/ (c.kind = "close" /\ c.of = rtc.g)
    BY <1>1, <1>u, SaysAppended
  <2> QED
    BY <1>1, <1>3, <2>1
<1>10. /\ Holds # None => ClosesFirst(mailbox, up', Holds)
       /\ \A g \in Nat : Says(up', "offer", g) => Says(up, "offer", g)
       /\ \A g \in Nat : Says(up, "close", g) => Says(up', "close", g)
       /\ word = ClosingWord /\ rtc # NoRtc => Says(up', "close", rtc.g)
       /\ \A g : Says(up', "REQUEST_KEYFRAME", g) <=>
            Says(up, "REQUEST_KEYFRAME", g) \/ (g = None /\ up' = k)
  BY <1>4, <1>6, <1>7, <1>8, <1>9
<1> QED
  BY <1>10 DEF k, w

\* The page is connected.
LEMMA ConnectAttempts ==
  ASSUME Inv, Attempts, Connect
  PROVE  Attempts'
<1>u. /\ claim.g \in Nat /\ peer \in Peers /\ peer.g \in Nat /\ rtc \in Rtcs /\ rtc.g \in Nat
      /\ rtc.at # "none" => rtc.g = rtcGen /\ rtcGen > 0
      /\ \A g \in Nat : Says(mailbox, "offer", g) \/ Says(up, "offer", g) => peer.g < g /\ g <= Sent
      /\ mailbox \in Seq(Message) /\ up \in Seq(Message) /\ Sent <= rtcGen /\ rtcGen \in Nat /\ Sent \in Nat
  BY UnderWay, PageFacts
<1>a. Served /\ GivenUp /\ ChannelIsCurrent /\ Answers
  BY DEF Attempts
<1>1. /\ rtc.at = "answered" /\ peer.g = rtc.g
      /\ rtc' = [rtc EXCEPT !.at = "connected"] /\ peer' = [peer EXCEPT !.opening = TRUE]
      /\ UNCHANGED <<claim, mailbox, notices, down, up, channel, rtcGen>>
  BY DEF Connect, server
<1>2. /\ peer'.g = peer.g /\ peer'.open = peer.open /\ peer'.opening
      /\ rtc'.at = "connected" /\ rtc'.g = rtc.g /\ Sent' = Sent /\ Closed' = Closed /\ Holds' = rtc.g
  BY <1>1, <1>u DEF Peers, Rtcs, Sent, Closed, Holds
<1>3. rtc.g # None /\ rtc.g = rtcGen
  BY <1>1, <1>u DEF None
<1>4. claim.g = None /\ channel = <<>>
  <2>1. Holds # rtc.g
    BY <1>1, <1>3, <1>a DEF ChannelIsCurrent
  <2>2. ~peer.opening
    BY <1>1, <2>1 DEF Holds
  <2>3. claim.g # rtc.g
    BY <2>1, <2>2 DEF Holds
  <2> QED
    BY <1>1, <1>3, <1>a, <2>3 DEF Served, ChannelIsCurrent
<1>5. Served' /\ GivenUp' /\ ChannelIsCurrent'
  BY <1>1, <1>2, <1>3, <1>4, <1>a DEF Served, GivenUp, ChannelIsCurrent
<1>6. \A g \in Nat : ~(Says(mailbox, "offer", g) \/ Says(up, "offer", g))
  BY <1>1, <1>3, <1>u
<1>7. Answers'
  BY <1>1, <1>2, <1>6, <1>a DEF Answers
<1>8. ClosesFirst(mailbox, up, rtc.g)
  <2>1. \A i \in Offers(mailbox) : mailbox[i].of \in Nat /\ Says(mailbox, "offer", mailbox[i].of)
    <3>1. \A i \in DOMAIN mailbox : mailbox[i] \in Message
      BY <1>u, ElementsType
    <3>2. \A i \in DOMAIN mailbox : mailbox[i].of \in Nat
      BY <3>1 DEF Message
    <3> QED
      BY <3>2 DEF Offers, Says
  <2>2. \A i \in Offers(up) : up[i].of \in Nat /\ Says(up, "offer", up[i].of)
    <3>1. \A i \in DOMAIN up : up[i] \in Message
      BY <1>u, ElementsType
    <3>2. \A i \in DOMAIN up : up[i].of \in Nat
      BY <3>1 DEF Message
    <3> QED
      BY <3>2 DEF Offers, Says
  <2> QED
    BY <1>6, <2>1, <2>2 DEF ClosesFirst
<1> QED
  BY <1>1, <1>2, <1>5, <1>7, <1>8 DEF Attempts

\* The page's own steps.
LEMMA PageAttempts ==
  ASSUME Inv, Attempts,
         SendOffer \/ OnOpen \/ GiveUp \/ Retry \/ \E t \in {"websocket", "webrtc"} \ {picked} : SetTransport(t)
  PROVE  Attempts'
<1>u. /\ claim.g \in Nat /\ Holds \in Nat /\ peer.g \in Nat /\ rtc \in Rtcs /\ rtc.g \in Nat /\ rtcGen \in Nat
      /\ Sent \in Nat /\ Closed \in Nat
      /\ rtc.at = "none" => rtc.g = 0
      /\ rtc.at # "none" => rtc.g = rtcGen /\ rtcGen > 0
      /\ \A g \in Nat : Says(mailbox, "offer", g) \/ Says(up, "offer", g) => g <= Sent
      /\ mailbox \in Seq(Message) /\ up \in Seq(Message)
  BY UnderWay, PageFacts
<1>a. /\ Served /\ GivenUp /\ ChannelIsCurrent /\ Answers
      /\ Holds # None => ClosesFirst(mailbox, up, Holds)
  BY DEF Attempts
<1>w. up \o <<>> = up
  BY <1>u, OneMore, SayType
<1>1. CASE SendOffer
  <2>1. /\ rtc.at = "offering" /\ rtc.g = rtcGen
        /\ rtc' = [rtc EXCEPT !.at = "offered"] /\ up' = Append(up, Say("offer", rtcGen))
        /\ UNCHANGED <<claim, mailbox, peer, notices, down, channel, rtcGen>>
    BY <1>1, <1>u DEF SendOffer, hub
  <2>2. /\ rtc'.at = "offered" /\ rtc'.g = rtcGen /\ Sent = rtcGen - 1 /\ Sent' = rtcGen /\ Closed' = Closed
    BY <1>u, <2>1 DEF Rtcs, Sent, Closed
  <2>3. \A k, h : Says(up', k, h) <=> Says(up, k, h) \/ (k = "offer" /\ h = rtcGen)
    <3>1. "offer" \in AllKinds
      BY DEF AllKinds, ToHub
    <3>2. \A k, h : Says(Append(up, Say("offer", rtcGen)), k, h) <=> Says(up, k, h) \/ (k = "offer" /\ h = rtcGen)
      BY <1>u, <3>1, WordSays
    <3> QED
      BY <2>1, <3>2, Zenon
  <2>4. Served' /\ Holds' = Holds
    BY <1>a, <1>u, <2>1, <2>2 DEF Served, Holds
  <2>5. GivenUp'
    BY <1>a, <2>1, <2>2, <2>3, <2>4 DEF GivenUp
  <2>6. ChannelIsCurrent'
    BY <1>a, <2>1, <2>2, <2>4 DEF ChannelIsCurrent
  <2>7. Answers'
    <3>1. \A h \in Nat : Says(down', "answer", h) => h < rtcGen
      BY <1>a, <1>u, <2>1, <2>2 DEF Answers
    <3>2. ASSUME NEW g \in Nat, Says(mailbox', "offer", g) \/ Says(up', "offer", g)
          PROVE  \A h \in Nat : Says(down', "answer", h) => h < g
      <4>1. g = rtcGen \/ Says(mailbox, "offer", g) \/ Says(up, "offer", g)
        BY <2>1, <2>3, <3>2
      <4> QED
        BY <1>a, <2>1, <3>1, <4>1 DEF Answers
    <3>3. \A h \in Nat : Says(down', "keyframe", h) => h <= Closed
      BY <1>a, <2>1 DEF Answers
    <3> QED
      BY <2>2, <3>1, <3>2, <3>3, <1>u DEF Answers
  <2>8. Holds' # None => ClosesFirst(mailbox', up', Holds')
    <3> DEFINE m == Say("offer", rtcGen)
    <3>1. m \in Message
      BY <1>u, SayType DEF AllKinds, ToHub
    <3> HIDE DEF m
    <3>2. up' = Append(up, m)
      BY <2>1 DEF m
    <3>3. Holds # None => Says(mailbox, "close", Holds) \/ Says(up, "close", Holds)
      BY <1>a, <2>1 DEF GivenUp, ChannelIsCurrent
    <3> QED
      BY <1>a, <1>u, <2>1, <2>4, <3>1, <3>2, <3>3, FirstOffers
  <2> QED
    BY <2>4, <2>5, <2>6, <2>7, <2>8 DEF Attempts
<1>2. CASE OnOpen
  <2>1. /\ rtc.at = "connected"
        /\ rtc' = [rtc EXCEPT !.at = "open"] /\ up' = Append(up, Say("REQUEST_KEYFRAME", None))
        /\ UNCHANGED <<claim, mailbox, peer, notices, down, channel, rtcGen>>
    BY <1>2 DEF OnOpen, hub
  <2>2. up' = (up \o <<>>) \o KeyWanted
    BY <1>w, <2>1, KeyIsAsked
  <2>3. /\ Holds # None => ClosesFirst(mailbox, up', Holds)
        /\ \A g \in Nat : Says(up', "offer", g) => Says(up, "offer", g)
        /\ \A g \in Nat : Says(up, "close", g) => Says(up', "close", g)
    BY <2>2, WordsUp
  <2>4. rtc'.at = "open" /\ rtc'.g = rtc.g /\ Sent' = Sent /\ Closed' = Closed /\ Holds' = Holds
    BY <1>u, <2>1 DEF Rtcs, Sent, Closed, Holds
  <2>5. Served' /\ GivenUp' /\ ChannelIsCurrent'
    BY <1>a, <1>u, <2>1, <2>3, <2>4 DEF Served, GivenUp, ChannelIsCurrent
  <2>6. Answers'
    <3>1. \A g \in Nat : Says(mailbox', "offer", g) \/ Says(up', "offer", g) =>
             g # rtc.g /\ \A h \in Nat : Says(down', "answer", h) => h < g
      BY <1>a, <2>1, <2>3 DEF Answers
    <3>2. /\ \A h \in Nat : Says(down', "answer", h) => h <= Sent
          /\ \A h \in Nat : Says(down', "keyframe", h) => h <= Closed
      BY <1>a, <2>1 DEF Answers
    <3> QED
      BY <2>4, <3>1, <3>2 DEF Answers
  <2> QED
    BY <2>1, <2>3, <2>4, <2>5, <2>6 DEF Attempts
<1>3. ASSUME rtc' = NoRtc, channel' = <<>>, up' = up \o ClosingWord,
             UNCHANGED <<claim, rtcGen, mailbox, peer, notices, down>>
      PROVE  Attempts'
  <2>1. /\ Holds # None => ClosesFirst(mailbox, up', Holds)
        /\ \A g \in Nat : Says(up', "offer", g) => Says(up, "offer", g)
        /\ \A g \in Nat : Says(up, "close", g) => Says(up', "close", g)
        /\ rtc # NoRtc => Says(up', "close", rtc.g)
    BY <1>3, WordsUp
  <2> QED
    BY <1>3, <2>1, AttemptEnds
<1>4. CASE GiveUp
  BY <1>3, <1>4 DEF GiveUp, FailRtc, hub
<1>5. CASE Retry
  <2>1. MaybeRtc(TRUE) /\ UNCHANGED <<claim, mailbox, peer, notices, down, up, channel>>
    BY <1>5 DEF Retry, hub
  <2> QED
    BY <1>a, <2>1, AttemptStarts
<1>6. ASSUME NEW t \in {"websocket", "webrtc"} \ {picked}, SetTransport(t) PROVE Attempts'
  <2>1. UNCHANGED <<claim, mailbox, peer, notices, down>>
    BY <1>6 DEF SetTransport, hub
  <2>2. CASE t = "webrtc"
    <3>1. MaybeRtc(FALSE) /\ UNCHANGED <<up, channel>>
      BY <1>6, <2>2 DEF SetTransport
    <3> QED
      BY <1>a, <2>1, <3>1, AttemptStarts
  <2>3. CASE t = "websocket"
    BY <1>3, <1>6, <2>1, <2>3 DEF SetTransport, CloseRtc
  <2> QED
    BY <2>2, <2>3
<1> QED
  BY <1>1, <1>2, <1>4, <1>5, <1>6

\* The next message on the socket.
LEMMA SocketAttempts ==
  ASSUME Inv, Attempts, FromSocket
  PROVE  Attempts'
<1> DEFINE m == Head(down)
<1>u. /\ claim.g \in Nat /\ Holds \in Nat /\ peer.g \in Nat /\ rtc \in Rtcs /\ rtc.g \in Nat /\ rtcGen \in Nat
      /\ Sent \in Nat /\ Closed \in Nat
      /\ rtc.at = "none" => rtc.g = 0
      /\ rtc.at # "none" => rtc.g = rtcGen /\ rtcGen > 0
      /\ rtc = NoRtc => rtc.g = 0
      /\ mailbox \in Seq(Message) /\ up \in Seq(Message) /\ down \in Seq(Message)
  BY UnderWay, PageFacts, NoRtcType
<1>a. /\ Served /\ GivenUp /\ ChannelIsCurrent /\ Answers
      /\ Holds # None => ClosesFirst(mailbox, up, Holds)
  BY DEF Attempts
<1>w. up \o <<>> = up
  BY <1>u, OneMore, SayType
<1>1. down # <<>> /\ down' = Tail(down) /\ UNCHANGED <<claim, mailbox, peer, notices>>
  BY SocketCases DEF hub
<1>m. m \in Message /\ m.of \in Nat
  <2>1. m \in Message
    BY <1>1, <1>u, TailFacts
  <2> QED
    BY <2>1 DEF Message
<1>2. \A k, h : Says(down, k, h) <=> Says(down', k, h) \/ (m.kind = k /\ m.of = h)
  BY <1>1, <1>u, SaysTaken
<1>3. /\ \A h \in Nat : Says(down', "answer", h) => Says(down, "answer", h)
      /\ \A h \in Nat : Says(down', "keyframe", h) => Says(down, "keyframe", h)
      /\ m.kind # "close" => (Says(down, "close", claim.g) => Says(down', "close", claim.g))
  BY <1>2
<1>4. ASSUME UNCHANGED <<rtc, rtcGen, channel>>, up' = up \/ up' = up \o KeyWanted,
             m.kind = "close" => m.of # rtcGen \/ rtc = NoRtc
      PROVE  Attempts'
  <2>1. /\ Holds # None => ClosesFirst(mailbox, up', Holds)
        /\ \A g \in Nat : Says(up', "offer", g) => Says(up, "offer", g)
        /\ \A g \in Nat : Says(up, "close", g) => Says(up', "close", g)
    <3>1. up' = up \o <<>> \/ up' = (up \o <<>>) \o KeyWanted
      BY <1>4, <1>w
    <3> QED
      BY <3>1, WordsUp
  <2>2. claim.g \in notices \/ Says(down, "close", claim.g) =>
           claim.g \in notices' \/ Says(down', "close", claim.g) \/ (rtc.g = claim.g => claim.g = None)
    BY <1>1, <1>2, <1>4, <1>u DEF None
  <2> QED
    BY <1>1, <1>3, <1>4, <1>u, <2>1, <2>2, AttemptsStay
<1>5. ASSUME MaybeRtc(FALSE), UNCHANGED channel, up' = up \/ up' = up \o KeyWanted, m.kind # "close"
      PROVE  Attempts'
  <2>1. /\ Holds # None => ClosesFirst(mailbox, up', Holds)
        /\ \A g \in Nat : Says(up', "offer", g) => Says(up, "offer", g)
        /\ \A g \in Nat : Says(up, "close", g) => Says(up', "close", g)
    <3>1. up' = up \o <<>> \/ up' = (up \o <<>>) \o KeyWanted
      BY <1>5, <1>w
    <3> QED
      BY <3>1, WordsUp
  <2> QED
    BY <1>1, <1>3, <1>5, <2>1, AttemptStarts
<1>6. ASSUME FailRtc, up' = up \o ClosingWord \/ up' = (up \o ClosingWord) \o KeyWanted
      PROVE  Attempts'
  <2>1. /\ Holds # None => ClosesFirst(mailbox, up', Holds)
        /\ \A g \in Nat : Says(up', "offer", g) => Says(up, "offer", g)
        /\ \A g \in Nat : Says(up, "close", g) => Says(up', "close", g)
        /\ rtc # NoRtc => Says(up', "close", rtc.g)
    BY <1>6, WordsUp
  <2>2. rtc' = NoRtc /\ channel' = <<>> /\ rtcGen' = rtcGen
    BY <1>6 DEF FailRtc
  <2> QED
    BY <1>1, <1>3, <2>1, <2>2, AttemptEnds
<1>7. CASE m.kind = "CONFIG" /\ OnConfig(m.of, "websocket")
  <2>1. CASE UNCHANGED <<page, up, attempts, channel>>
    BY <1>4, <1>7, <2>1 DEF attempts
  <2>2. CASE \/ FailRtc /\ (up' = up \o ClosingWord \o <<>> \/ up' = up \o ClosingWord \o KeyWanted)
             \/ MaybeRtc(FALSE) /\ UNCHANGED channel
                  /\ (up' = up \o <<>> \o <<>> \/ up' = up \o <<>> \o KeyWanted)
    <3>1. up \o ClosingWord \o <<>> = up \o ClosingWord
      <4>1. up \o ClosingWord \in Seq(Message)
        BY WordIsOrdered
      <4> QED
        BY <1>m, <4>1, OneMore
    <3> QED
      BY <1>5, <1>6, <1>7, <1>w, <2>2, <3>1
  <2>3. CASE ~(m.of < page.told \/ m.of <= page.stream)
    <3> DEFINE resumed == videoVia = "webrtc"
    <3>1. /\ \/ up' = up \o (IF resumed THEN ClosingWord ELSE <<>>) \o <<>>
             \/ up' = up \o (IF resumed THEN ClosingWord ELSE <<>>) \o KeyWanted
          /\ IF resumed THEN FailRtc ELSE MaybeRtc(FALSE) /\ UNCHANGED channel
      BY <1>7, <2>3 DEF OnConfig
    <3>2. \/ FailRtc /\ (up' = up \o ClosingWord \o <<>> \/ up' = up \o ClosingWord \o KeyWanted)
          \/ MaybeRtc(FALSE) /\ UNCHANGED channel
             /\ (up' = up \o <<>> \o <<>> \/ up' = up \o <<>> \o KeyWanted)
      BY <3>1, Zenon
    <3> QED
      BY <2>2, <3>2
  <2>4. CASE m.of < page.told \/ m.of <= page.stream
    BY <1>7, <2>1, <2>4 DEF OnConfig
  <2> QED
    BY <2>3, <2>4
<1>8. CASE /\ m.kind = "answer" /\ rtc # NoRtc /\ m.of = rtcGen
           /\ rtc' = [rtc EXCEPT !.at = IF rtc.at = "offered" THEN "answered" ELSE rtc.at]
           /\ UNCHANGED <<up, rtcGen, channel>>
  <2>1. /\ rtc'.g = rtc.g /\ rtc'.at = IF rtc.at = "offered" THEN "answered" ELSE rtc.at
        /\ Sent' = Sent /\ Closed' = Closed /\ Holds' = Holds
    BY <1>1, <1>8, <1>u DEF Rtcs, Sent, Closed, Holds
  <2>2. Served'
    BY <1>1, <1>8, <1>a, <2>1 DEF Served
  <2>3. GivenUp'
    BY <1>1, <1>3, <1>8, <1>a, <2>1 DEF GivenUp
  <2>4. ChannelIsCurrent'
    BY <1>1, <1>8, <1>a, <2>1 DEF ChannelIsCurrent
  <2>5. Answers'
    <3>1. Says(down, "answer", rtcGen)
      BY <1>2, <1>8
    <3>2. \A g \in Nat : Says(mailbox', "offer", g) \/ Says(up', "offer", g) =>
             g # rtcGen /\ \A h \in Nat : Says(down', "answer", h) => h < g
      BY <1>1, <1>3, <1>8, <1>a, <1>u, <3>1 DEF Answers
    <3>3. rtc.g \in {0, rtcGen} /\ \A g \in Nat : Says(mailbox', "offer", g) \/ Says(up', "offer", g) => g # 0
      <4>1. \A g \in Nat : Says(mailbox, "offer", g) \/ Says(up, "offer", g) => peer.g < g
        BY UnderWay
      <4> QED
        BY <1>1, <1>8, <1>u, <4>1
    <3>4. /\ \A h \in Nat : Says(down', "answer", h) => h <= Sent
          /\ \A h \in Nat : Says(down', "keyframe", h) => h <= Closed
      BY <1>3, <1>a DEF Answers
    <3> QED
      BY <2>1, <3>2, <3>3, <3>4 DEF Answers
  <2> QED
    BY <1>1, <1>8, <1>a, <2>1, <2>2, <2>3, <2>4, <2>5 DEF Attempts
<1>9. CASE m.kind = "VIDEO" /\ Decoder(m) /\ UNCHANGED <<attempts, channel, available>>
  <2>1. up' = up \/ up' = up \o KeyWanted
    BY <1>9, <1>m, DecoderFacts
  <2> QED
    BY <1>4, <1>9, <2>1 DEF attempts
<1>10. CASE m.kind = "close" /\ FailRtc /\ up' = up \o ClosingWord
  BY <1>6, <1>10
<1>11. CASE m.kind = "RTC_CONFIG" /\ MaybeRtc(FALSE) /\ UNCHANGED <<page, up, channel, crossed, left>>
  BY <1>5, <1>11
<1>12. CASE /\ UNCHANGED <<up, attempts, channel>>
            /\ m.kind = "close" => m.of # rtcGen \/ rtc = NoRtc
  BY <1>4, <1>12 DEF attempts
<1>13. "close" # "STREAM_STATE" /\ "close" # "keyframe"
  OBVIOUS
<1>14. \/ UNCHANGED <<up, attempts, channel>> /\ (m.kind = "close" => m.of # rtcGen \/ rtc = NoRtc)
       \/ m.kind = "RTC_CONFIG" /\ MaybeRtc(FALSE) /\ UNCHANGED <<page, up, channel, crossed, left>>
       \/ m.kind = "CONFIG" /\ OnConfig(m.of, "websocket")
       \/ m.kind = "VIDEO" /\ Decoder(m) /\ UNCHANGED <<attempts, channel, available>>
       \/ /\ m.kind = "answer" /\ rtc # NoRtc /\ m.of = rtcGen
          /\ rtc' = [rtc EXCEPT !.at = IF rtc.at = "offered" THEN "answered" ELSE rtc.at]
          /\ UNCHANGED <<up, rtcGen, channel>>
       \/ m.kind = "close" /\ FailRtc /\ up' = up \o ClosingWord
  BY <1>13, SocketCases
<1> QED
  BY <1>7, <1>8, <1>9, <1>10, <1>11, <1>12, <1>14

\* The next message on the channel.
LEMMA ChannelAttempts ==
  ASSUME Inv, Attempts, FromChannel
  PROVE  Attempts'
<1> DEFINE m == Head(channel)
<1>1. /\ channel # <<>> /\ channel' = Tail(channel)
      /\ UNCHANGED <<claim, mailbox, peer, notices, down>>
  BY Zenon DEF FromChannel, hub
<1>2. m \in Message
  BY <1>1, PageFacts, TailFacts
<1>3. UNCHANGED <<rtc, rtcGen>> /\ (up' = up \/ up' = up \o KeyWanted)
  <2>1. CASE m.kind = "CONFIG"
    <3>1. UNCHANGED attempts /\ (up' = up \/ up' = up \o KeyWanted)
      BY <2>1, Zenon DEF FromChannel
    <3> QED
      BY <3>1 DEF attempts
  <2>2. CASE m.kind # "CONFIG"
    <3>1. Decoder(m) /\ UNCHANGED attempts
      BY <2>2, Zenon DEF FromChannel
    <3> QED
      BY <1>2, <3>1, DecoderFacts DEF attempts
  <2> QED
    BY <2>1, <2>2
<1>4. /\ Holds # None => ClosesFirst(mailbox, up', Holds)
      /\ \A g \in Nat : Says(up', "offer", g) => Says(up, "offer", g)
      /\ \A g \in Nat : Says(up, "close", g) => Says(up', "close", g)
  <2>1. up \o <<>> = up
    BY <1>2, OneMore, PageFacts
  <2>2. up' = up \o <<>> \/ up' = (up \o <<>>) \o KeyWanted
    BY <1>3, <2>1
  <2> QED
    BY <2>2, WordsUp
<1>5. Holds \in Nat
  BY UnderWay
<1> QED
  BY <1>1, <1>3, <1>4, <1>5, AttemptsStay

\* A session that begins.
LEMMA BeginsAttempts ==
  ASSUME claim' = NoClaim, mailbox' = <<>>, peer' = NoPeer, channel' = <<>>, up' = <<>>, rtc' = NoRtc,
         rtcGen' \in Nat, down' = <<Say("RTC_CONFIG", None), Say("STREAM_STATE", 1)>>
  PROVE  Attempts'
<1>1. /\ claim'.g = None /\ ~claim'.active /\ ~peer'.open /\ ~peer'.opening
      /\ rtc'.at = "none" /\ rtc'.g = 0 /\ Sent' = rtcGen' /\ Closed' = rtcGen' /\ Holds' = None
  BY NobodyTypes, NoRtcType DEF NoClaim, Sent, Closed, Holds
<1>2. \A k, h : ~Says(mailbox', k, h) /\ ~Says(up', k, h)
  BY SaysNothing
<1>3. \A h : ~Says(down', "answer", h) /\ ~Says(down', "keyframe", h)
  <2> DEFINE m == Say("RTC_CONFIG", None)
             n == Say("STREAM_STATE", 1)
  <2>1. m.kind = "RTC_CONFIG" /\ n.kind = "STREAM_STATE"
    BY SayType DEF AllKinds, ToPage, None
  <2> HIDE DEF m, n
  <2>2. \A h : ~Says(<<m, n>>, "answer", h) /\ ~Says(<<m, n>>, "keyframe", h)
    BY <2>1 DEF Says
  <2> QED
    BY <2>2 DEF m, n
<1> QED
  BY <1>1, <1>2, <1>3 DEF Attempts, Served, GivenUp, ChannelIsCurrent, Answers, None

\* It holds initially.
LEMMA InitAttempts == Init => Attempts
<1> SUFFICES ASSUME Init PROVE Attempts
  OBVIOUS
<1>0. /\ claim = NoClaim /\ mailbox = <<>> /\ peer = NoPeer /\ channel = <<>> /\ up = <<>> /\ rtc = NoRtc
      /\ rtcGen = 0 /\ down = <<Say("RTC_CONFIG", None), Say("STREAM_STATE", 1)>>
  BY DEF Init
<1>1. /\ claim.g = None /\ ~claim.active /\ ~peer.open /\ ~peer.opening
      /\ rtc.at = "none" /\ rtc.g = 0 /\ Sent = rtcGen /\ Closed = rtcGen /\ Holds = None
  BY <1>0, NobodyTypes, NoRtcType DEF NoClaim, Sent, Closed, Holds
<1>2. \A k, h : ~Says(mailbox, k, h) /\ ~Says(up, k, h)
  BY <1>0, SaysNothing
<1>3. \A h : ~Says(down, "answer", h) /\ ~Says(down, "keyframe", h)
  <2> DEFINE m == Say("RTC_CONFIG", None)
             n == Say("STREAM_STATE", 1)
  <2>1. m.kind = "RTC_CONFIG" /\ n.kind = "STREAM_STATE"
    BY SayType DEF AllKinds, ToPage, None
  <2> HIDE DEF m, n
  <2>2. \A h : ~Says(<<m, n>>, "answer", h) /\ ~Says(<<m, n>>, "keyframe", h)
    BY <2>1 DEF Says
  <2> QED
    BY <1>0, <2>2 DEF m, n
<1> QED
  BY <1>0, <1>1, <1>2, <1>3 DEF Attempts, Served, GivenUp, ChannelIsCurrent, Answers, None

\* Every step keeps it.
LEMMA NextAttempts == Inv /\ Attempts /\ [Next]_vars => Attempts'
<1> SUFFICES ASSUME Inv, Attempts, [Next]_vars PROVE Attempts'
  OBVIOUS
<1>1. CASE Reconnect
  BY <1>1, BeginsAttempts, PageFacts DEF Reconnect, CloseRtc
<1>2. CASE UNCHANGED vars
  <2>1. UNCHANGED <<claim, mailbox, peer, notices, down, up, channel, rtc, rtcGen>>
    BY <1>2 DEF vars, hub, pageSide, attempts
  <2> QED
    BY <2>1 DEF Attempts, Served, GivenUp, ChannelIsCurrent, Answers, Sent, Closed, Holds
<1> QED
  BY <1>1, <1>2, SessionAttempts, HubAttempts, ConnectAttempts, PageAttempts, SocketAttempts, ChannelAttempts
     DEF Next, Page

\* What the hub and the page hold of an attempt agrees, or the words that make it
\* agree are under way, in an order that never lets a late one take a later attempt's peer.
\* It says nothing of which end hears of the open channel first: the hub may have a claim
\* the page knows nothing of yet, and the page an open channel without a claim.
THEOREM AttemptsAgree == Spec => []Attempts
<1> QED
  BY InitAttempts, NextAttempts, SpecInv, InitInv, NextInv, PTL DEF Spec

-----------------------------------------------------------------------------
(* Nothing stays lost: the frames.  What a queue carries, and in which order. *)

\* The frames a queue carries.
Frames(q) == {q[i].frame : i \in {i \in DOMAIN q : q[i].kind = "VIDEO"}}

Before(f, g) == f.epoch < g.epoch \/ (f.epoch = g.epoch /\ f.n < g.n)
Below(F, G) == \A f \in F, g \in G : Before(f, g)
Rising(q) ==
  \A i, j \in DOMAIN q : q[i].kind = "VIDEO" /\ q[j].kind = "VIDEO" /\ i < j => Before(q[i].frame, q[j].frame)

\* q has no word of a stream after e.
Known(q, e) == \A i \in DOMAIN q : q[i].kind \in {"CONFIG", "STREAM_STATE"} => q[i].of <= e

\* In q, every frame of stream e comes behind a CONFIG of e.
Leads(q, e) ==
  \A i \in DOMAIN q : q[i].kind = "VIDEO" /\ q[i].frame.epoch = e =>
    \E j \in DOMAIN q : j < i /\ q[j].kind = "CONFIG" /\ q[j].of = e

\* In q, a frame of F comes behind every such message.
Followed(q, kind, of, F) ==
  \A i \in DOMAIN q : q[i].kind = kind /\ q[i].of = of =>
    \E j \in DOMAIN q : j > i /\ q[j].kind = "VIDEO" /\ q[j].frame \in F

\* A message more.
LEMMA FramesAppended ==
  ASSUME NEW q \in Seq(Message), NEW m \in Message
  PROVE  /\ Append(q, m) \in Seq(Message)
         /\ m.kind = "VIDEO" => Frames(Append(q, m)) = Frames(q) \cup {m.frame}
         /\ m.kind # "VIDEO" => Frames(Append(q, m)) = Frames(q)
<1>1. PICK n \in Nat :
           /\ DOMAIN Append(q, m) = DOMAIN q \cup {n} /\ n \notin DOMAIN q
           /\ Append(q, m)[n] = m
           /\ \A i \in DOMAIN q : i \in Nat /\ i < n /\ Append(q, m)[i] = q[i]
  BY Appended
<1> DEFINE a == Append(q, m)
<1>2. a \in Seq(Message)
  OBVIOUS
<1> HIDE DEF a
<1>3. /\ DOMAIN a = DOMAIN q \cup {n} /\ n \notin DOMAIN q /\ a[n] = m
      /\ \A i \in DOMAIN q : a[i] = q[i]
  BY <1>1 DEF a
<1>4. CASE m.kind = "VIDEO"
  <2>1. Frames(a) = Frames(q) \cup {m.frame}
    BY <1>3, <1>4 DEF Frames
  <2> QED
    BY <1>2, <1>4, <2>1 DEF a
<1>5. CASE m.kind # "VIDEO"
  <2>1. Frames(a) = Frames(q)
    BY <1>3, <1>5 DEF Frames
  <2> QED
    BY <1>2, <1>5, <2>1 DEF a
<1> QED
  BY <1>4, <1>5

\* A newer frame keeps a queue in order.
LEMMA RisingAppended ==
  ASSUME NEW q \in Seq(Message), NEW m \in Message, Rising(q),
         m.kind = "VIDEO" => Below(Frames(q), {m.frame})
  PROVE  Rising(Append(q, m))
<1>1. PICK n \in Nat :
           /\ DOMAIN Append(q, m) = DOMAIN q \cup {n} /\ n \notin DOMAIN q
           /\ Append(q, m)[n] = m
           /\ \A i \in DOMAIN q : i \in Nat /\ i < n /\ Append(q, m)[i] = q[i]
  BY Appended
<1> DEFINE a == Append(q, m)
<1>3. /\ DOMAIN a = DOMAIN q \cup {n} /\ n \notin DOMAIN q /\ a[n] = m
      /\ \A i \in DOMAIN q : a[i] = q[i] /\ i \in Nat /\ i < n
  BY <1>1 DEF a
<1> HIDE DEF a
<1>4. \A i \in DOMAIN q : m.kind = "VIDEO" /\ q[i].kind = "VIDEO" => Before(q[i].frame, m.frame)
  BY DEF Below, Frames
<1>5. Rising(a)
  <2> SUFFICES ASSUME NEW i \in DOMAIN a, NEW j \in DOMAIN a,
                      a[i].kind = "VIDEO", a[j].kind = "VIDEO", i < j
               PROVE  Before(a[i].frame, a[j].frame)
    BY DEF Rising
  <2>1. i \in DOMAIN q
    BY <1>3
  <2>2. CASE j \in DOMAIN q
    BY <1>3, <2>1, <2>2 DEF Rising
  <2>3. CASE j = n
    BY <1>3, <1>4, <2>1, <2>3
  <2> QED
    BY <1>3, <2>2, <2>3
<1> QED
  BY <1>5 DEF a

\* Word of a stream that there is.
LEMMA KnownAppended ==
  ASSUME NEW q \in Seq(Message), NEW m \in Message, NEW e, Known(q, e),
         m.kind \in {"CONFIG", "STREAM_STATE"} => m.of <= e
  PROVE  Known(Append(q, m), e)
<1>1. PICK n \in Nat :
           /\ DOMAIN Append(q, m) = DOMAIN q \cup {n} /\ n \notin DOMAIN q
           /\ Append(q, m)[n] = m
           /\ \A i \in DOMAIN q : i \in Nat /\ i < n /\ Append(q, m)[i] = q[i]
  BY Appended
<1> DEFINE a == Append(q, m)
<1>3. /\ DOMAIN a = DOMAIN q \cup {n} /\ a[n] = m
      /\ \A i \in DOMAIN q : a[i] = q[i]
  BY <1>1 DEF a
<1> HIDE DEF a
<1>4. Known(a, e)
  BY <1>3 DEF Known
<1> QED
  BY <1>4 DEF a

\* A frame behind the CONFIG of its stream.
LEMMA LeadsAppended ==
  ASSUME NEW q \in Seq(Message), NEW m \in Message, NEW e, Leads(q, e),
         m.kind = "VIDEO" /\ m.frame.epoch = e => Says(q, "CONFIG", e)
  PROVE  Leads(Append(q, m), e)
<1>1. PICK n \in Nat :
           /\ DOMAIN Append(q, m) = DOMAIN q \cup {n} /\ n \notin DOMAIN q
           /\ Append(q, m)[n] = m
           /\ \A i \in DOMAIN q : i \in Nat /\ i < n /\ Append(q, m)[i] = q[i]
  BY Appended
<1> DEFINE a == Append(q, m)
<1>3. /\ DOMAIN a = DOMAIN q \cup {n} /\ a[n] = m
      /\ \A i \in DOMAIN q : a[i] = q[i] /\ i < n
  BY <1>1 DEF a
<1> HIDE DEF a
<1>4. Leads(a, e)
  BY <1>3 DEF Leads, Says
<1> QED
  BY <1>4 DEF a

\* A frame follows every word before it.
LEMMA FollowedAppended ==
  ASSUME NEW q \in Seq(Message), NEW m \in Message, NEW kind, NEW of, NEW F,
         \/ m.kind = "VIDEO" /\ m.frame \in F /\ kind # "VIDEO"
         \/ Followed(q, kind, of, F) /\ ~(m.kind = kind /\ m.of = of)
  PROVE  Followed(Append(q, m), kind, of, F)
<1>1. PICK n \in Nat :
           /\ DOMAIN Append(q, m) = DOMAIN q \cup {n} /\ n \notin DOMAIN q
           /\ Append(q, m)[n] = m
           /\ \A i \in DOMAIN q : i \in Nat /\ i < n /\ Append(q, m)[i] = q[i]
  BY Appended
<1> DEFINE a == Append(q, m)
<1>3. /\ DOMAIN a = DOMAIN q \cup {n} /\ a[n] = m
      /\ \A i \in DOMAIN q : a[i] = q[i] /\ i \in Nat /\ i < n
  BY <1>1 DEF a
<1> HIDE DEF a
<1>4. Followed(a, kind, of, F)
  <2>1. CASE m.kind = "VIDEO" /\ m.frame \in F /\ kind # "VIDEO"
    BY <1>3, <2>1 DEF Followed
  <2>2. CASE Followed(q, kind, of, F) /\ ~(m.kind = kind /\ m.of = of)
    BY <1>3, <2>2 DEF Followed
  <2> QED
    BY <2>1, <2>2
<1> QED
  BY <1>4 DEF a

\* The first message less.
LEMMA FramesTaken ==
  ASSUME NEW q \in Seq(Message), q # <<>>
  PROVE  /\ Head(q).kind = "VIDEO" => Frames(q) = Frames(Tail(q)) \cup {Head(q).frame}
         /\ Head(q).kind # "VIDEO" => Frames(q) = Frames(Tail(q))
<1> DEFINE t == Tail(q)
<1>1. /\ Head(q) = q[1] /\ 1 \in DOMAIN q
      /\ \A i \in DOMAIN t : i \in Nat /\ i > 0 /\ i + 1 \in DOMAIN q /\ t[i] = q[i + 1]
      /\ \A i \in DOMAIN q : i \in Nat /\ (i = 1 \/ (i > 1 /\ i - 1 \in DOMAIN t /\ t[i - 1] = q[i]))
  BY Taken
<1> DEFINE m == Head(q)
<1> HIDE DEF t, m
<1>0. m = q[1]
  BY <1>1 DEF m
<1>2. Frames(t) \subseteq Frames(q)
  BY <1>1 DEF Frames
<1>3. \A f \in Frames(q) : f \in Frames(t) \/ (m.kind = "VIDEO" /\ f = m.frame)
  <2> SUFFICES ASSUME NEW i \in DOMAIN q, q[i].kind = "VIDEO"
               PROVE  q[i].frame \in Frames(t) \/ (m.kind = "VIDEO" /\ q[i].frame = m.frame)
    BY DEF Frames
  <2>1. CASE i = 1
    BY <1>0, <2>1
  <2>2. CASE i # 1
    <3>1. PICK k \in DOMAIN t : t[k] = q[i]
      BY <1>1, <2>2
    <3> QED
      BY <3>1 DEF Frames
  <2> QED
    BY <2>1, <2>2
<1>4. m.kind = "VIDEO" => m.frame \in Frames(q)
  BY <1>0, <1>1 DEF Frames
<1>5. /\ m.kind = "VIDEO" => Frames(q) = Frames(t) \cup {m.frame}
      /\ m.kind # "VIDEO" => Frames(q) = Frames(t)
  BY <1>2, <1>3, <1>4
<1> QED
  BY <1>5 DEF t, m

\* The head of a queue in order is before the rest.
LEMMA RisingTaken ==
  ASSUME NEW q \in Seq(Message), q # <<>>, Rising(q)
  PROVE  /\ Rising(Tail(q))
         /\ Head(q).kind = "VIDEO" => Below({Head(q).frame}, Frames(Tail(q)))
<1> DEFINE t == Tail(q)
           m == Head(q)
<1>1. /\ m = q[1] /\ 1 \in DOMAIN q
      /\ \A i \in DOMAIN t : i \in Nat /\ i > 0 /\ i + 1 \in DOMAIN q /\ t[i] = q[i + 1]
  BY Taken
<1> HIDE DEF t, m
<1>2. Rising(t)
  <2> SUFFICES ASSUME NEW i \in DOMAIN t, NEW j \in DOMAIN t,
                      t[i].kind = "VIDEO", t[j].kind = "VIDEO", i < j
               PROVE  Before(t[i].frame, t[j].frame)
    BY DEF Rising
  <2>1. i + 1 \in DOMAIN q /\ j + 1 \in DOMAIN q /\ i + 1 < j + 1 /\ t[i] = q[i + 1] /\ t[j] = q[j + 1]
    BY <1>1
  <2> QED
    BY <2>1 DEF Rising
<1>3. ASSUME m.kind = "VIDEO" PROVE Below({m.frame}, Frames(t))
  <2> SUFFICES ASSUME NEW i \in DOMAIN t, t[i].kind = "VIDEO" PROVE Before(m.frame, t[i].frame)
    BY DEF Below, Frames
  <2>1. i + 1 \in DOMAIN q /\ 1 < i + 1 /\ t[i] = q[i + 1]
    BY <1>1
  <2> QED
    BY <1>1, <1>3, <2>1 DEF Rising
<1> QED
  BY <1>2, <1>3 DEF t, m

\* The rest of a queue names the streams that there are.
LEMMA KnownTaken ==
  ASSUME NEW q \in Seq(Message), q # <<>>, NEW e, Known(q, e)
  PROVE  Known(Tail(q), e) /\ (Head(q).kind \in {"CONFIG", "STREAM_STATE"} => Head(q).of <= e)
<1> DEFINE t == Tail(q)
           m == Head(q)
<1>1. /\ m = q[1] /\ 1 \in DOMAIN q
      /\ \A i \in DOMAIN t : i \in Nat /\ i > 0 /\ i + 1 \in DOMAIN q /\ t[i] = q[i + 1]
  BY Taken
<1> HIDE DEF t, m
<1>2. Known(t, e) /\ (m.kind \in {"CONFIG", "STREAM_STATE"} => m.of <= e)
  BY <1>1 DEF Known
<1> QED
  BY <1>2 DEF t, m

\* A frame at the head has no CONFIG before it.
LEMMA LeadsTaken ==
  ASSUME NEW q \in Seq(Message), q # <<>>, NEW e, Leads(q, e)
  PROVE  /\ ~(Head(q).kind = "VIDEO" /\ Head(q).frame.epoch = e)
         /\ ~(Head(q).kind = "CONFIG" /\ Head(q).of = e) => Leads(Tail(q), e)
<1> DEFINE t == Tail(q)
           m == Head(q)
<1>1. /\ m = q[1] /\ 1 \in DOMAIN q
      /\ \A i \in DOMAIN t : i \in Nat /\ i > 0 /\ i + 1 \in DOMAIN q /\ t[i] = q[i + 1]
      /\ \A i \in DOMAIN q : i \in Nat /\ (i = 1 \/ (i > 1 /\ i - 1 \in DOMAIN t /\ t[i - 1] = q[i]))
  BY Taken
<1> HIDE DEF t, m
<1>2. ~(m.kind = "VIDEO" /\ m.frame.epoch = e)
  BY <1>1 DEF Leads
<1>3. ASSUME ~(m.kind = "CONFIG" /\ m.of = e) PROVE Leads(t, e)
  <2> SUFFICES ASSUME NEW i \in DOMAIN t, t[i].kind = "VIDEO", t[i].frame.epoch = e
               PROVE  \E j \in DOMAIN t : j < i /\ t[j].kind = "CONFIG" /\ t[j].of = e
    BY DEF Leads
  <2>1. i \in Nat /\ i + 1 \in DOMAIN q /\ t[i] = q[i + 1]
    BY <1>1
  <2>2. PICK j \in DOMAIN q : j < i + 1 /\ q[j].kind = "CONFIG" /\ q[j].of = e
    BY <2>1 DEF Leads
  <2>3. j # 1
    BY <1>1, <1>3, <2>2
  <2>4. j \in Nat /\ j - 1 \in DOMAIN t /\ t[j - 1] = q[j]
    BY <1>1, <2>3
  <2>5. j - 1 < i
    BY <2>1, <2>2, <2>4
  <2> QED
    BY <2>2, <2>4, <2>5
<1> QED
  BY <1>2, <1>3 DEF t, m

\* A word at the head is followed by a frame that is left.
LEMMA FollowedTaken ==
  ASSUME NEW q \in Seq(Message), q # <<>>, NEW kind, NEW of, NEW F, Followed(q, kind, of, F)
  PROVE  /\ Followed(Tail(q), kind, of, F)
         /\ Head(q).kind = kind /\ Head(q).of = of => Frames(Tail(q)) \cap F # {}
<1> DEFINE t == Tail(q)
           m == Head(q)
<1>1. /\ m = q[1] /\ 1 \in DOMAIN q
      /\ \A i \in DOMAIN t : i \in Nat /\ i > 0 /\ i + 1 \in DOMAIN q /\ t[i] = q[i + 1]
      /\ \A i \in DOMAIN q : i \in Nat /\ (i = 1 \/ (i > 1 /\ i - 1 \in DOMAIN t /\ t[i - 1] = q[i]))
  BY Taken
<1> HIDE DEF t, m
<1>2. ASSUME NEW i \in DOMAIN q, NEW j \in DOMAIN q, j > i
      PROVE  j - 1 \in DOMAIN t /\ t[j - 1] = q[j]
  <2>1. i \in Nat /\ j \in Nat /\ (i = 1 \/ i > 1) /\ (j = 1 \/ (j > 1 /\ j - 1 \in DOMAIN t /\ t[j - 1] = q[j]))
    BY <1>1
  <2>2. j # 1
    BY <1>2, <2>1
  <2> QED
    BY <2>1, <2>2
<1>3. Followed(t, kind, of, F)
  <2> SUFFICES ASSUME NEW i \in DOMAIN t, t[i].kind = kind, t[i].of = of
               PROVE  \E j \in DOMAIN t : j > i /\ t[j].kind = "VIDEO" /\ t[j].frame \in F
    BY DEF Followed
  <2>1. i \in Nat /\ i + 1 \in DOMAIN q /\ t[i] = q[i + 1]
    BY <1>1
  <2>2. PICK j \in DOMAIN q : j > i + 1 /\ q[j].kind = "VIDEO" /\ q[j].frame \in F
    BY <2>1 DEF Followed
  <2>3. j \in Nat /\ j - 1 \in DOMAIN t /\ t[j - 1] = q[j]
    BY <1>1, <1>2, <2>1, <2>2
  <2>4. j - 1 > i
    BY <2>1, <2>2, <2>3
  <2> QED
    BY <2>2, <2>3, <2>4
<1>4. ASSUME m.kind = kind, m.of = of PROVE Frames(t) \cap F # {}
  <2>1. PICK j \in DOMAIN q : j > 1 /\ q[j].kind = "VIDEO" /\ q[j].frame \in F
    BY <1>1, <1>4 DEF Followed
  <2>2. j - 1 \in DOMAIN t /\ t[j - 1] = q[j]
    BY <1>1, <1>2, <2>1
  <2> QED
    BY <2>1, <2>2 DEF Frames
<1> QED
  BY <1>3, <1>4 DEF t, m

\* More frames count as following.
LEMMA FollowedGrows ==
  ASSUME NEW q, NEW kind, NEW of, NEW F, NEW G, Followed(q, kind, of, F), Frames(q) \cap F \subseteq G
  PROVE  Followed(q, kind, of, G)
BY DEF Followed, Frames

\* A word that was not said needs no frame.
LEMMA FollowedNobody ==
  ASSUME NEW q, NEW kind, NEW of, NEW F, ~Says(q, kind, of)
  PROVE  Followed(q, kind, of, F)
BY DEF Followed, Says

\* The frames of a queue are frames.
LEMMA FramesType ==
  ASSUME NEW q \in Seq(Message)
  PROVE  Frames(q) \subseteq Frame
<1>1. \A i \in DOMAIN q : q[i] \in Message
  BY ElementsType
<1>2. \A m \in Message : m.frame \in Frame
  BY DEF Message
<1> QED
  BY <1>1, <1>2 DEF Frames

\* An empty queue is in any order.
LEMMA NothingFollows ==
  /\ Frames(<<>>) = {} /\ Rising(<<>>)
  /\ \A e : Known(<<>>, e) /\ Leads(<<>>, e)
  /\ \A kind, of, F : Followed(<<>>, kind, of, F)
BY DEF Frames, Rising, Known, Leads, Followed

\* A queue that carries nothing of a stream waits for nothing of it.
LEMMA LeadsNobody ==
  ASSUME NEW q, NEW e, \A f \in Frames(q) : f.epoch # e
  PROVE  Leads(q, e)
BY DEF Leads, Frames

\* What the encoder of epoch e has sent when it counts n frames.
Sound(f, e, n) == f.epoch < e \/ (f.epoch = e /\ f.n < n)

\* A queue of what was sent, in its order.
Line(q, e, n) == Rising(q) /\ Known(q, e) /\ \A f \in Frames(q) : Sound(f, e, n)

\* What is under way was sent, in its order, and no later stream is known anywhere.
InOrder ==
  /\ encoder.epoch > 0 /\ (encoder.frames = 0 => encoder.wantKey)
  /\ page.stream <= encoder.epoch /\ page.told <= encoder.epoch
  /\ wsConfig <= encoder.epoch /\ peer.config <= encoder.epoch
  /\ Sound(dropped, encoder.epoch, encoder.frames)
  /\ Line(down, encoder.epoch, encoder.frames) /\ Line(channel, encoder.epoch, encoder.frames)
  /\ Line(peer.queue, encoder.epoch, encoder.frames) /\ Line(mailbox, encoder.epoch, encoder.frames)
  /\ Below(Frames(channel), Frames(peer.queue)) /\ Below(Frames(channel), Frames(mailbox))
  /\ Below(Frames(peer.queue), Frames(mailbox))

\* An empty queue is a line.
LEMMA LineNobody ==
  ASSUME NEW e, NEW n
  PROVE  Line(<<>>, e, n)
BY NothingFollows DEF Line

\* What is left of a line is one, and its head is before it.
LEMMA LineTaken ==
  ASSUME NEW q \in Seq(Message), q # <<>>, NEW e, NEW n, Line(q, e, n)
  PROVE  /\ Line(Tail(q), e, n) /\ Frames(Tail(q)) \subseteq Frames(q)
         /\ Head(q).kind \in {"CONFIG", "STREAM_STATE"} => Head(q).of <= e
         /\ Head(q).kind = "VIDEO" => /\ Sound(Head(q).frame, e, n) /\ Head(q).frame \in Frames(q)
                                      /\ Below({Head(q).frame}, Frames(Tail(q)))
BY FramesTaken, RisingTaken, KnownTaken DEF Line

\* A line grows by a newer frame, or by word of a stream that there is.
LEMMA LineAppended ==
  ASSUME NEW q \in Seq(Message), NEW m \in Message, NEW e, NEW n, Line(q, e, n),
         m.kind = "VIDEO" => Sound(m.frame, e, n) /\ Below(Frames(q), {m.frame}),
         m.kind \in {"CONFIG", "STREAM_STATE"} => m.of <= e
  PROVE  Line(Append(q, m), e, n)
<1>1. Rising(Append(q, m)) /\ Known(Append(q, m), e)
  BY RisingAppended, KnownAppended DEF Line
<1>2. \A f \in Frames(Append(q, m)) : Sound(f, e, n)
  BY FramesAppended DEF Line
<1> QED
  BY <1>1, <1>2 DEF Line

\* A word on a queue, which is no frame.
LEMMA LineSays ==
  ASSUME NEW q \in Seq(Message), NEW kind \in AllKinds \ {"VIDEO"}, NEW of \in Nat, NEW e, NEW n, Line(q, e, n),
         kind \in {"CONFIG", "STREAM_STATE"} => of <= e
  PROVE  /\ Append(q, Say(kind, of)) \in Seq(Message)
         /\ Line(Append(q, Say(kind, of)), e, n) /\ Frames(Append(q, Say(kind, of))) = Frames(q)
<1> DEFINE m == Say(kind, of)
<1>1. m \in Message /\ m.kind = kind /\ m.of = of
  BY SayType
<1> HIDE DEF m
<1>2. m.kind # "VIDEO"
  BY <1>1
<1>3. /\ Append(q, m) \in Seq(Message)
      /\ Line(Append(q, m), e, n) /\ Frames(Append(q, m)) = Frames(q)
  BY <1>1, <1>2, LineAppended, FramesAppended
<1> QED
  BY <1>3 DEF m

\* A line stays one when the encoder goes on.
LEMMA LineGrows ==
  ASSUME NEW q \in Seq(Message), NEW e \in Nat, NEW n \in Nat, NEW d \in Nat, NEW k \in Nat,
         Line(q, e, n), e < d \/ (e = d /\ n <= k)
  PROVE  Line(q, d, k)
<1>1. Known(q, d)
  <2>1. \A i \in DOMAIN q : q[i].of \in Nat
    BY ElementsType
  <2> QED
    BY <2>1 DEF Line, Known
<1>2. \A f \in Frame : Sound(f, e, n) => Sound(f, d, k)
  BY DEF Sound, Frame
<1> QED
  BY <1>1, <1>2, FramesType DEF Line

\* The numbers of the invariant.
LEMMA FrameFacts ==
  ASSUME Inv
  PROVE  /\ encoder \in Encoders /\ encoder.epoch \in Nat /\ encoder.frames \in Nat /\ encoder.wantKey \in BOOLEAN
         /\ peer \in Peers /\ peer.queue \in Seq(Message) /\ peer.config \in Nat /\ peer.open \in BOOLEAN
         /\ page \in Pages /\ page.stream \in Nat /\ page.told \in Nat /\ page.seq \in Int
         /\ page.awaiting \in BOOLEAN /\ page.last \in Frame
         /\ wsConfig \in Nat /\ dropped \in Frame /\ keyLost \in BOOLEAN
         /\ down \in Seq(Message) /\ up \in Seq(Message) /\ channel \in Seq(Message) /\ mailbox \in Seq(Message)
         /\ claim \in Claims /\ claim.g \in Nat /\ peer.g \in Nat /\ rtc.g \in Nat /\ rtcGen \in Nat
<1>1. encoder \in Encoders /\ peer \in Peers /\ wsConfig \in Nat /\ dropped \in Frame /\ keyLost \in BOOLEAN
  BY DEF Inv, TypeOK, Encoders, Peers
<1>2. encoder.epoch \in Nat /\ encoder.frames \in Nat /\ encoder.wantKey \in BOOLEAN
  BY <1>1 DEF Encoders
<1>3. peer.queue \in Seq(Message) /\ peer.config \in Nat /\ peer.open \in BOOLEAN
  BY <1>1 DEF Peers
<1>4. page \in Pages
  BY PageFacts
<1>5. /\ page.stream \in Nat /\ page.told \in Nat /\ page.seq \in Int
      /\ page.awaiting \in BOOLEAN /\ page.last \in Frame
  BY <1>4 DEF Pages
<1> QED
  BY <1>1, <1>2, <1>3, <1>4, <1>5, PageFacts, UnderWay

\* The encoder does not send, and nothing is put between what it has sent.
LEMMA OrderRests ==
  ASSUME InOrder, UNCHANGED <<wsConfig, dropped>>,
         encoder'.epoch = encoder.epoch, encoder'.frames = encoder.frames, encoder.wantKey => encoder'.wantKey,
         page'.stream <= encoder.epoch, page'.told <= encoder.epoch, peer'.config <= encoder.epoch,
         Line(down', encoder.epoch, encoder.frames), Line(channel', encoder.epoch, encoder.frames),
         Line(peer'.queue, encoder.epoch, encoder.frames), Line(mailbox', encoder.epoch, encoder.frames),
         Frames(channel') \subseteq Frames(channel), Frames(peer'.queue) \subseteq Frames(peer.queue),
         Frames(mailbox') \subseteq Frames(mailbox)
  PROVE  InOrder'
BY DEF InOrder, Below

\* What the page does with a frame.
Passed(f) ==
  /\ page' = page /\ up' = up /\ crossed' = crossed
  /\ page.stream = None \/ page.stream < page.told \/ Late(f)

Seen(f) ==
  /\ ~(page.stream = None \/ page.stream < page.told \/ Late(f))
  /\ crossed' = (crossed \/ f.epoch # page.stream)
  /\ page'.seq = f.n
  /\ \/ page'.awaiting /\ page'.last = page.last /\ ~f.key
        /\ up' = IF page.awaiting THEN up ELSE up \o KeyWanted
     \/ page'.awaiting /\ page'.last = NoFrame /\ up' = up \o KeyWanted
     \/ ~page'.awaiting /\ page'.last = f /\ up' = up /\ (page.awaiting => f.key)

\* OnVideo passes over a frame, or notes its number.
LEMMA VideoSeen ==
  ASSUME Inv, NEW m \in Message, Decoder(m)
  PROVE  /\ page'.stream = page.stream /\ page'.told = page.told
         /\ Passed(m.frame) \/ Seen(m.frame)
<1> DEFINE f == m.frame
<1>1. f \in Frame /\ NoFrame \in Frame
  BY DEF Message, NoFrame, Frame, None
<1> HIDE DEF f
<1>2. f.n \in Int /\ page \in Pages
  BY <1>1, PageFacts DEF Frame
<1>3. ASSUME NEW lagging \in BOOLEAN, NEW broken \in BOOLEAN, OnVideo(f, lagging, broken)
      PROVE  /\ page'.stream = page.stream /\ page'.told = page.told
             /\ Passed(f) \/ Seen(f)
  <2>1. CASE page.stream = None \/ page.stream < page.told \/ Late(f)
    BY <1>3, <2>1 DEF OnVideo, Passed
  <2>2. CASE ~(page.stream = None \/ page.stream < page.told \/ Late(f))
    <3>1. /\ crossed' = (crossed \/ f.epoch # page.stream)
          /\ \/ /\ Skips(f, lagging) /\ page' = [page EXCEPT !.seq = f.n, !.awaiting = TRUE]
                /\ up' = IF page.awaiting THEN up ELSE up \o KeyWanted
             \/ /\ page' = [page EXCEPT !.seq = f.n, !.awaiting = TRUE, !.last = NoFrame]
                /\ up' = up \o KeyWanted
             \/ /\ page' = [page EXCEPT !.seq = f.n, !.awaiting = FALSE, !.last = f]
                /\ up' = up /\ ~Skips(f, lagging)
      BY <1>3, <2>2 DEF OnVideo
    <3>2. /\ Skips(f, lagging) => ~f.key
          /\ ~Skips(f, lagging) => (page.awaiting => f.key)
      BY DEF Skips
    <3>3. CASE /\ Skips(f, lagging) /\ page' = [page EXCEPT !.seq = f.n, !.awaiting = TRUE]
               /\ up' = IF page.awaiting THEN up ELSE up \o KeyWanted
      <4>1. /\ page'.stream = page.stream /\ page'.told = page.told /\ page'.seq = f.n
            /\ page'.awaiting /\ page'.last = page.last
        BY <1>2, <3>3 DEF Pages
      <4> QED
        BY <2>2, <3>1, <3>2, <3>3, <4>1 DEF Seen
    <3>4. CASE /\ page' = [page EXCEPT !.seq = f.n, !.awaiting = TRUE, !.last = NoFrame]
               /\ up' = up \o KeyWanted
      <4>1. /\ page'.stream = page.stream /\ page'.told = page.told /\ page'.seq = f.n
            /\ page'.awaiting /\ page'.last = NoFrame
        BY <1>1, <1>2, <3>4 DEF Pages
      <4> QED
        BY <2>2, <3>1, <3>4, <4>1 DEF Seen
    <3>5. CASE /\ page' = [page EXCEPT !.seq = f.n, !.awaiting = FALSE, !.last = f]
               /\ up' = up /\ ~Skips(f, lagging)
      <4>1. /\ page'.stream = page.stream /\ page'.told = page.told /\ page'.seq = f.n
            /\ ~page'.awaiting /\ page'.last = f
        BY <1>1, <1>2, <3>5 DEF Pages
      <4> QED
        BY <2>2, <3>1, <3>2, <3>5, <4>1 DEF Seen
    <3> QED
      BY <3>1, <3>3, <3>4, <3>5
  <2> QED
    BY <2>1, <2>2
<1>4. \E lagging, broken \in BOOLEAN : OnVideo(f, lagging, broken)
  BY DEF Decoder, f
<1>5. /\ page'.stream = page.stream /\ page'.told = page.told
      /\ Passed(f) \/ Seen(f)
  BY <1>3, <1>4
<1> QED
  BY <1>5 DEF f

\* enqueue gives one of three queues, all of the frame's stream.
LEMMA Enqueued ==
  ASSUME NEW p \in Peers, NEW f \in Frame
  PROVE  /\ Enqueue(p, f).config = f.epoch
         /\ \/ /\ p.config # f.epoch \/ f.key
               /\ Enqueue(p, f).queue = Append(<<Say("CONFIG", f.epoch)>>, Video(f))
            \/ /\ p.config = f.epoch /\ ~f.key
               /\ Enqueue(p, f).queue = Append(p.queue, Video(f)) \/ Enqueue(p, f).queue = p.queue
<1> DEFINE boundary == p.config # f.epoch \/ f.key
           c == Say("CONFIG", f.epoch)
           waits == IF boundary THEN <<c>> ELSE p.queue
           full == Cardinality({i \in DOMAIN waits : waits[i].kind = "VIDEO"}) >= Queue
           config == IF boundary THEN f.epoch ELSE p.config
           queue == IF full THEN waits ELSE Append(waits, Video(f))
<1>1. c.kind = "CONFIG" /\ f.epoch \in Nat
  BY SayType DEF AllKinds, ToPage, Frame
<1> HIDE DEF c
<1>2. Enqueue(p, f) = [p EXCEPT !.config = config, !.queue = queue]
  BY DEF Enqueue, c
<1>3. config = f.epoch
  OBVIOUS
<1>4. ASSUME boundary PROVE ~full
  <2>1. {i \in DOMAIN waits : waits[i].kind = "VIDEO"} = {}
    BY <1>1, <1>4
  <2>2. Cardinality({i \in DOMAIN waits : waits[i].kind = "VIDEO"}) = 0
    BY <2>1, FS_EmptySet
  <2> QED
    BY <2>2, BoundAssumption
<1>5. boundary => queue = Append(<<c>>, Video(f))
  BY <1>4
<1>6. ~boundary => queue = Append(p.queue, Video(f)) \/ queue = p.queue
  OBVIOUS
<1> HIDE DEF queue, config
<1>7. Enqueue(p, f).config = config /\ Enqueue(p, f).queue = queue
  BY <1>2 DEF Peers
<1> QED
  BY <1>3, <1>5, <1>6, <1>7 DEF c

\* The word of a stream goes down.
LEMMA StateLine ==
  ASSUME NEW q \in Seq(Message), NEW e \in Nat, NEW n, Line(q, e, n)
  PROVE  /\ Append(q, Say("STREAM_STATE", e)) \in Seq(Message)
         /\ Line(Append(q, Say("STREAM_STATE", e)), e, n)
         /\ Frames(Append(q, Say("STREAM_STATE", e))) = Frames(q)
<1>1. "STREAM_STATE" \in AllKinds \ {"VIDEO"} /\ e <= e
  BY DEF AllKinds, ToPage
<1> QED
  BY <1>1, LineSays

\* The session's task.
LEMMA SessionOrder ==
  ASSUME Inv, InOrder, Restart \/ Info \/ Receive
  PROVE  InOrder'
<1> DEFINE e == encoder.epoch
           n == encoder.frames
<1>t. /\ encoder \in Encoders /\ e \in Nat /\ n \in Nat /\ peer.config \in Nat
      /\ down \in Seq(Message) /\ up \in Seq(Message) /\ channel \in Seq(Message)
      /\ mailbox \in Seq(Message) /\ peer.queue \in Seq(Message)
      /\ page.stream \in Nat /\ page.told \in Nat /\ wsConfig \in Nat /\ dropped \in Frame
  BY FrameFacts
<1>i. /\ Line(down, e, n) /\ Line(channel, e, n) /\ Line(peer.queue, e, n) /\ Line(mailbox, e, n)
      /\ page.stream <= e /\ page.told <= e /\ peer.config <= e /\ wsConfig <= e /\ e > 0
      /\ Sound(dropped, e, n)
  BY DEF InOrder
<1>1. CASE Restart
  <2>1. /\ encoder' = NewEncoder(e + 1)
        /\ down' = down \/ down' = Append(down, Say("STREAM_STATE", e + 1))
        /\ UNCHANGED <<wsConfig, mailbox, peer, channel, page, dropped>>
    BY <1>1 DEF Restart, NewEncoder, hub, pageSide, refused
  <2>2. encoder'.epoch = e + 1 /\ encoder'.frames = 0 /\ encoder'.wantKey
    BY <2>1 DEF NewEncoder
  <2>a. e + 1 \in Nat /\ e < e + 1
    BY <1>t
  <2>0. PICK d \in Nat : d = e + 1 /\ e < d
    BY <2>a
  <2>3. ASSUME NEW q \in Seq(Message), Line(q, e, n) PROVE Line(q, d, 0)
    <3> HIDE DEF e, n
    <3>1. e \in Nat /\ n \in Nat /\ 0 \in Nat
      BY <1>t
    <3> QED
      BY <2>0, <2>3, <3>1, LineGrows
  <2>4. Line(down', d, 0) /\ Frames(down') = Frames(down)
    <3>1. Line(down, d, 0)
      BY <1>t, <1>i, <2>3
    <3>2. /\ Line(Append(down, Say("STREAM_STATE", d)), d, 0)
          /\ Frames(Append(down, Say("STREAM_STATE", d))) = Frames(down)
      BY <1>t, <3>1, StateLine
    <3> QED
      BY <2>0, <2>1, <3>1, <3>2
  <2>5. Sound(dropped, e + 1, 0)
    BY <1>t, <1>i DEF Sound, Frame
  <2>6. page.stream <= e + 1 /\ page.told <= e + 1 /\ wsConfig <= e + 1 /\ peer.config <= e + 1 /\ e + 1 > 0
    BY <1>t, <1>i
  <2> QED
    BY <1>t, <1>i, <2>0, <2>1, <2>2, <2>3, <2>4, <2>5, <2>6 DEF InOrder
<1>2. CASE Info
  <2>1. /\ encoder' = [encoder EXCEPT !.announced = TRUE] /\ down' = Append(down, Say("STREAM_STATE", e))
        /\ UNCHANGED <<wsConfig, mailbox, peer, channel, page, dropped>>
    BY <1>2 DEF Info, hub, pageSide, refused
  <2>2. encoder'.epoch = e /\ encoder'.frames = n /\ encoder'.wantKey = encoder.wantKey
    BY <1>t, <2>1 DEF Encoders
  <2>4. Line(down', e, n) /\ Frames(down') = Frames(down)
    <3>1. /\ Line(Append(down, Say("STREAM_STATE", e)), e, n)
          /\ Frames(Append(down, Say("STREAM_STATE", e))) = Frames(down)
      BY <1>t, <1>i, StateLine
    <3> QED
      BY <2>1, <3>1
  <2> QED
    BY <1>i, <2>1, <2>2, <2>4, OrderRests
<1>3. CASE Receive
  <2> DEFINE m == Head(up)
  <2>1. /\ up # <<>>
        /\ mailbox' = mailbox \/ (m.kind # "REQUEST_KEYFRAME" /\ mailbox' = Append(mailbox, m))
        /\ encoder' = encoder \/ encoder' = [encoder EXCEPT !.wantKey = TRUE]
        /\ UNCHANGED <<wsConfig, down, peer, channel, page, dropped>>
    BY <1>3 DEF Receive, pageSide, refused
  <2>2. encoder'.epoch = e /\ encoder'.frames = n /\ (encoder.wantKey => encoder'.wantKey)
    BY <1>t, <2>1 DEF Encoders
  <2>3. m \in Message /\ m.kind \in ToSession
    BY <2>1, PageFacts, TailCarries
  <2> HIDE DEF m
  <2>4. m.kind # "VIDEO" /\ m.kind \notin {"CONFIG", "STREAM_STATE"}
    BY <2>3 DEF ToSession
  <2>5. Line(mailbox', e, n) /\ Frames(mailbox') = Frames(mailbox)
    <3>1. Line(Append(mailbox, m), e, n)
      BY <1>t, <1>i, <2>3, <2>4, LineAppended
    <3>2. Frames(Append(mailbox, m)) = Frames(mailbox)
      BY <1>t, <2>3, <2>4, FramesAppended
    <3> QED
      BY <1>i, <2>1, <3>1, <3>2
  <2> QED
    BY <1>i, <2>1, <2>2, <2>5, OrderRests
<1> QED
  BY <1>1, <1>2, <1>3

\* The encoder's next frame comes behind all of the others.
LEMMA SendOrder ==
  ASSUME Inv, InOrder, SendFrame
  PROVE  InOrder'
<1> DEFINE e == encoder.epoch
           n == encoder.frames
           f == [epoch |-> e, n |-> n, key |-> encoder.wantKey]
           c == Say("CONFIG", e)
<1>t. /\ encoder \in Encoders /\ e \in Nat /\ n \in Nat /\ n + 1 \in Nat /\ peer.config \in Nat
      /\ down \in Seq(Message) /\ channel \in Seq(Message)
      /\ mailbox \in Seq(Message) /\ peer.queue \in Seq(Message)
      /\ page.stream \in Nat /\ page.told \in Nat /\ wsConfig \in Nat /\ dropped \in Frame
  BY FrameFacts
<1>i. /\ Line(down, e, n) /\ Line(channel, e, n) /\ Line(peer.queue, e, n) /\ Line(mailbox, e, n)
      /\ page.stream <= e /\ page.told <= e /\ peer.config <= e /\ wsConfig <= e /\ e > 0
      /\ Sound(dropped, e, n)
  BY DEF InOrder
<1>1. /\ encoder'.epoch = e /\ encoder'.frames = n + 1
      /\ UNCHANGED <<peer, channel, page>>
      /\ \/ /\ down' = down /\ wsConfig' = wsConfig
            /\ \/ mailbox' = Append(mailbox, Video(f)) /\ dropped' = dropped
               \/ mailbox' = mailbox /\ dropped' = Lost(f)
         \/ /\ wsConfig' = e /\ mailbox' = mailbox /\ dropped' = dropped
            /\ \/ down' = down \o <<Video(f)>>
               \/ down' = Append(down, c) \o <<Video(f)>>
  <2>1. /\ encoder' = [encoder EXCEPT !.frames = n + 1, !.wantKey = FALSE]
        /\ UNCHANGED <<peer, channel, page>>
        /\ \/ /\ down' = down /\ wsConfig' = wsConfig
              /\ \/ mailbox' = Append(mailbox, Video(f)) /\ dropped' = dropped
                 \/ mailbox' = mailbox /\ dropped' = Lost(f)
           \/ /\ wsConfig' = e /\ mailbox' = mailbox /\ dropped' = dropped
              /\ down' = (IF wsConfig = e THEN down ELSE Append(down, c)) \o <<Video(f)>>
    BY DEF SendFrame, pageSide
  <2>2. encoder'.epoch = e /\ encoder'.frames = n + 1
    BY <1>t, <2>1 DEF Encoders
  <2> HIDE DEF f, c
  <2> QED
    BY <2>1, <2>2
<1>2. /\ f \in Frame /\ f.epoch = e /\ f.n = n
      /\ Video(f) \in Message /\ Video(f).kind = "VIDEO" /\ Video(f).frame = f
  <2>1. f \in Frame /\ f.epoch = e /\ f.n = n
    BY <1>t DEF Frame, Encoders
  <2>2. Video(f).kind = "VIDEO" /\ Video(f).frame = f
    BY DEF Video
  <2>3. Video(f) \in Message
    BY <2>1, VideoType
  <2> QED
    BY <2>1, <2>2, <2>3
<1>3. /\ c \in Message /\ c.kind = "CONFIG" /\ c.of = e
  BY <1>t, SayType DEF AllKinds, ToPage
<1> DEFINE v == Video(f)
<1> HIDE DEF f, c, v
<1>v. v \in Message /\ v.kind = "VIDEO" /\ v.frame = f
  BY <1>2 DEF v
<1>4. \A g \in Frame : Sound(g, e, n) => Before(g, f) /\ Sound(g, e, n + 1)
  BY <1>t, <1>2 DEF Sound, Before, Frame
<1>5. ASSUME NEW q \in Seq(Message), Line(q, e, n)
      PROVE  /\ Below(Frames(q), {f}) /\ Line(q, e, n + 1)
             /\ Line(Append(q, v), e, n + 1) /\ Frames(Append(q, v)) = Frames(q) \cup {f}
             /\ q \o <<v>> = Append(q, v)
  <2>1. Frames(q) \subseteq Frame
    BY FramesType
  <2>2. Below(Frames(q), {f})
    BY <1>4, <1>5, <2>1 DEF Below, Line
  <2>3. Line(q, e, n + 1)
    BY <1>t, <1>5, LineGrows
  <2>4. Sound(f, e, n + 1)
    BY <1>t, <1>2 DEF Sound
  <2>5. Line(Append(q, v), e, n + 1)
    BY <1>v, <2>2, <2>3, <2>4, LineAppended
  <2>6. Frames(Append(q, v)) = Frames(q) \cup {f}
    BY <1>v, FramesAppended
  <2>7. q \o <<v>> = Append(q, v)
    BY <1>v, OneMore
  <2> QED
    BY <2>2, <2>3, <2>5, <2>6, <2>7
<1>6. Sound(dropped, e, n + 1) /\ Sound(Lost(f), e, n + 1)
  <2>1. Sound(dropped, e, n + 1) /\ Sound(f, e, n + 1)
    BY <1>t, <1>2, <1>4, <1>i DEF Sound
  <2> QED
    BY <2>1 DEF Lost
<1>7. /\ Line(down', e, n + 1)
      /\ Line(mailbox', e, n + 1) /\ Frames(mailbox') \subseteq Frames(mailbox) \cup {f}
  <2>1. Line(down', e, n + 1)
    <3>1. Append(down, c) \in Seq(Message) /\ Line(Append(down, c), e, n)
      <4>1. c.kind # "VIDEO" /\ e <= e
        BY <1>t, <1>3
      <4>2. Line(Append(down, c), e, n)
        BY <1>t, <1>3, <1>i, <4>1, LineAppended
      <4> QED
        BY <1>t, <1>3, <4>2
    <3>2. Append(down, c) \o <<v>> = Append(Append(down, c), v) /\ Line(Append(Append(down, c), v), e, n + 1)
      BY <1>5, <3>1
    <3>3. down \o <<v>> = Append(down, v) /\ Line(Append(down, v), e, n + 1) /\ Line(down, e, n + 1)
      BY <1>t, <1>i, <1>5
    <3>4. down' = down \/ down' = down \o <<v>> \/ down' = Append(down, c) \o <<v>>
      BY <1>1 DEF v
    <3> QED
      BY <3>2, <3>3, <3>4
  <2>2. mailbox' = mailbox \/ mailbox' = Append(mailbox, v)
    BY <1>1 DEF v
  <2>3. Line(mailbox', e, n + 1) /\ Frames(mailbox') \subseteq Frames(mailbox) \cup {f}
    BY <1>t, <1>i, <1>5, <2>2
  <2> QED
    BY <2>1, <2>3
<1>8. Below(Frames(channel), {f}) /\ Below(Frames(peer.queue), {f})
  BY <1>t, <1>i, <1>5
<1>9. /\ Below(Frames(channel'), Frames(mailbox')) /\ Below(Frames(peer'.queue), Frames(mailbox'))
  BY <1>1, <1>7, <1>8 DEF InOrder, Below
<1>10. Line(channel, e, n + 1) /\ Line(peer.queue, e, n + 1)
  BY <1>t, <1>i, <1>5
<1>11. wsConfig' <= e /\ n + 1 # 0
  BY <1>1, <1>i, <1>t
<1>12. dropped' = dropped \/ dropped' = Lost(f)
  BY <1>1
<1> QED
  BY <1>1, <1>6, <1>7, <1>9, <1>10, <1>11, <1>12, <1>i DEF InOrder

\* What the invariant says of the encoder's numbers and of the queues.
LEMMA OrderFacts ==
  ASSUME Inv, InOrder
  PROVE  /\ Line(down, encoder.epoch, encoder.frames) /\ Line(channel, encoder.epoch, encoder.frames)
         /\ Line(peer.queue, encoder.epoch, encoder.frames) /\ Line(mailbox, encoder.epoch, encoder.frames)
         /\ page.stream <= encoder.epoch /\ page.told <= encoder.epoch /\ peer.config <= encoder.epoch
         /\ wsConfig <= encoder.epoch /\ encoder.epoch > 0 /\ encoder.epoch \in Nat /\ encoder.frames \in Nat
BY FrameFacts DEF InOrder

\* enqueue
LEMMA EnqueueOrder ==
  ASSUME NEW p \in Peers, NEW f \in Frame, NEW e \in Nat, NEW n, Line(p.queue, e, n), Sound(f, e, n),
         Below(Frames(p.queue), {f})
  PROVE  /\ Line(Enqueue(p, f).queue, e, n) /\ Frames(Enqueue(p, f).queue) \subseteq Frames(p.queue) \cup {f}
         /\ Enqueue(p, f).config <= e
<1> DEFINE c == Say("CONFIG", f.epoch)
           v == Video(f)
           one == <<c>>
<1>t. p.queue \in Seq(Message) /\ f.epoch \in Nat /\ f.epoch <= e
  BY DEF Peers, Frame, Sound
<1>1. c \in Message /\ c.kind = "CONFIG" /\ c.of = f.epoch
  BY <1>t, SayType DEF AllKinds, ToPage
<1>2. v \in Message /\ v.kind = "VIDEO" /\ v.frame = f
  <2>1. v \in Message
    BY VideoType
  <2> QED
    BY <2>1 DEF Video
<1>e. /\ Enqueue(p, f).config = f.epoch
      /\ \/ Enqueue(p, f).queue = Append(one, v)
         \/ Enqueue(p, f).queue = Append(p.queue, v) \/ Enqueue(p, f).queue = p.queue
  BY Enqueued
<1> HIDE DEF c, v
<1>3. one \in Seq(Message) /\ one = Append(<<>>, c) /\ <<>> \in Seq(Message)
  BY <1>1
<1>4. Line(one, e, n) /\ Frames(one) = {}
  <2>1. Line(<<>>, e, n) /\ c.kind # "VIDEO" /\ Frames(<<>>) = {}
    BY <1>1, LineNobody, NothingFollows
  <2>2. Line(Append(<<>>, c), e, n)
    BY <1>1, <1>3, <1>t, <2>1, LineAppended
  <2>3. Frames(Append(<<>>, c)) = {}
    BY <1>1, <1>3, <2>1, FramesAppended
  <2> QED
    BY <1>3, <2>2, <2>3
<1> HIDE DEF one
<1>5. Line(Append(one, v), e, n) /\ Frames(Append(one, v)) = {f}
  <2>1. Below(Frames(one), {f})
    BY <1>4 DEF Below
  <2>2. Line(Append(one, v), e, n)
    BY <1>2, <1>3, <1>4, <2>1, LineAppended
  <2>3. Frames(Append(one, v)) = Frames(one) \cup {f}
    BY <1>2, <1>3, FramesAppended
  <2> QED
    BY <1>4, <2>2, <2>3
<1>6. Line(Append(p.queue, v), e, n) /\ Frames(Append(p.queue, v)) = Frames(p.queue) \cup {f}
  <2>1. Line(Append(p.queue, v), e, n)
    BY <1>2, <1>t, LineAppended
  <2>2. Frames(Append(p.queue, v)) = Frames(p.queue) \cup {f}
    BY <1>2, <1>t, FramesAppended
  <2> QED
    BY <2>1, <2>2
<1> QED
  BY <1>e, <1>5, <1>6, <1>t

\* The hub takes a frame for its peer.
LEMMA FrameOrder ==
  ASSUME Inv, InOrder, mailbox # <<>>, mailbox' = Tail(mailbox),
         UNCHANGED <<wsConfig, channel, page, encoder, down>>,
         Head(mailbox).kind = "VIDEO", TakeFrame(Head(mailbox).frame)
  PROVE  InOrder'
<1> DEFINE e == encoder.epoch
           n == encoder.frames
           f == Head(mailbox).frame
<1>t. /\ peer \in Peers /\ peer.queue \in Seq(Message) /\ mailbox \in Seq(Message) /\ dropped \in Frame
  BY FrameFacts
<1>i. /\ Line(down, e, n) /\ Line(channel, e, n) /\ Line(peer.queue, e, n) /\ Line(mailbox, e, n)
      /\ page.stream <= e /\ page.told <= e /\ peer.config <= e /\ wsConfig <= e /\ e > 0
      /\ e \in Nat /\ n \in Nat
  BY OrderFacts
<1>1. /\ Line(mailbox', e, n) /\ Frames(mailbox') \subseteq Frames(mailbox)
      /\ f \in Frames(mailbox) /\ Sound(f, e, n) /\ Below({f}, Frames(mailbox'))
  BY <1>t, <1>i, LineTaken
<1>2. f \in Frame
  BY <1>1, <1>t, FramesType
<1>3. Below(Frames(channel), {f}) /\ Below(Frames(peer.queue), {f})
  BY <1>1 DEF InOrder, Below
<1>4. /\ Line(peer'.queue, e, n) /\ Frames(peer'.queue) \subseteq Frames(peer.queue) \cup {f}
      /\ peer'.config <= e
  <2>1. peer' = peer \/ peer' = Enqueue(peer, f)
    BY DEF TakeFrame
  <2> HIDE DEF e, n, f
  <2>2. CASE peer' = Enqueue(peer, f)
    BY <1>i, <1>t, <1>1, <1>2, <1>3, <2>2, EnqueueOrder
  <2>3. CASE peer' = peer
    BY <1>i, <2>3
  <2> QED
    BY <2>1, <2>2, <2>3
<1>5. Sound(dropped', e, n)
  <2>1. dropped' = dropped \/ dropped' = Lost(f)
    BY DEF TakeFrame
  <2>2. Sound(Lost(f), e, n) /\ Sound(dropped, e, n)
    BY <1>1 DEF Lost, InOrder
  <2> QED
    BY <2>1, <2>2
<1>6. /\ Below(Frames(channel'), Frames(peer'.queue)) /\ Below(Frames(channel'), Frames(mailbox'))
      /\ Below(Frames(peer'.queue), Frames(mailbox'))
  BY <1>1, <1>3, <1>4 DEF InOrder, Below
<1>7. encoder.frames = 0 => encoder.wantKey
  BY DEF InOrder
<1> QED
  BY <1>i, <1>1, <1>4, <1>5, <1>6, <1>7 DEF InOrder

\* The front of the peer's queue goes down the channel.
LEMMA FlushOrder ==
  ASSUME Inv, InOrder, Flush
  PROVE  InOrder'
<1> DEFINE e == encoder.epoch
           n == encoder.frames
           m == Head(peer.queue)
<1>t. /\ peer \in Peers /\ peer.queue \in Seq(Message) /\ channel \in Seq(Message)
  BY FrameFacts
<1>i. /\ Line(down, e, n) /\ Line(channel, e, n) /\ Line(peer.queue, e, n) /\ Line(mailbox, e, n)
      /\ page.stream <= e /\ page.told <= e /\ peer.config <= e /\ wsConfig <= e /\ e > 0
      /\ e \in Nat /\ n \in Nat /\ (n = 0 => encoder.wantKey) /\ Sound(dropped, e, n)
  BY OrderFacts DEF InOrder
<1>1. /\ peer.queue # <<>> /\ peer' = [peer EXCEPT !.queue = Tail(peer.queue)]
      /\ channel' = channel \/ channel' = Append(channel, m)
      /\ UNCHANGED <<encoder, wsConfig, mailbox, down, page, dropped>>
  BY DEF Flush, server, pageSide, refused
<1>2. peer'.queue = Tail(peer.queue) /\ peer'.config = peer.config
  BY <1>t, <1>1 DEF Peers
<1>3. m \in Message
  BY <1>t, <1>1, TailFacts
<1>4. /\ Line(Tail(peer.queue), e, n) /\ Frames(Tail(peer.queue)) \subseteq Frames(peer.queue)
      /\ m.kind \in {"CONFIG", "STREAM_STATE"} => m.of <= e
      /\ m.kind = "VIDEO" => /\ Sound(m.frame, e, n) /\ m.frame \in Frames(peer.queue)
                             /\ Below({m.frame}, Frames(Tail(peer.queue)))
  BY <1>t, <1>i, <1>1, LineTaken
<1> HIDE DEF m
<1>5. /\ Line(channel', e, n)
      /\ \/ Frames(channel') = Frames(channel)
         \/ m.kind = "VIDEO" /\ Frames(channel') = Frames(channel) \cup {m.frame}
  <2>1. m.kind = "VIDEO" => Below(Frames(channel), {m.frame})
    BY <1>4 DEF InOrder, Below
  <2>2. Line(Append(channel, m), e, n)
    BY <1>t, <1>i, <1>3, <1>4, <2>1, LineAppended
  <2>3. \/ Frames(Append(channel, m)) = Frames(channel)
        \/ m.kind = "VIDEO" /\ Frames(Append(channel, m)) = Frames(channel) \cup {m.frame}
    BY <1>t, <1>3, FramesAppended
  <2> QED
    BY <1>1, <1>i, <2>2, <2>3
<1>6. /\ Below(Frames(channel'), Frames(peer'.queue)) /\ Below(Frames(channel'), Frames(mailbox))
      /\ Below(Frames(peer'.queue), Frames(mailbox))
  BY <1>2, <1>4, <1>5 DEF InOrder, Below
<1> QED
  BY <1>i, <1>1, <1>2, <1>4, <1>5, <1>6 DEF InOrder

\* CONFIG on the socket: passed over, or it begins a stream.
Begins(a) ==
  /\ page.told <= a /\ page.stream < a
  /\ page'.stream = a /\ page'.told = page.told /\ page'.seq = -1 /\ page'.awaiting /\ page'.last = NoFrame

\* The page begins a stream.
LEMMA BeginsType ==
  ASSUME Inv, NEW a \in Nat, ~(a < page.told \/ a <= page.stream),
         page' = [page EXCEPT !.stream = a, !.seq = -1, !.awaiting = TRUE, !.last = NoFrame]
  PROVE  Begins(a)
<1>1. page \in Pages /\ page.stream \in Nat /\ page.told \in Nat
  BY FrameFacts
<1> QED
  BY <1>1 DEF Begins, Pages

\* A CONFIG on the socket: the page asks for a key unless it is the first stream's.
LEMMA ConfigSeen ==
  ASSUME Inv, Attempts, NEW a \in Nat, OnConfig(a, "websocket")
  PROVE  \/ (a < page.told \/ a <= page.stream) /\ UNCHANGED <<page, up, attempts, channel>>
         \/ /\ Begins(a)
            /\ (page.stream = None /\ rtcGen = 0) \/ Says(up', "REQUEST_KEYFRAME", None)
            /\ \/ rtc.at # "open" /\ MaybeRtc(FALSE) /\ UNCHANGED channel
               \/ rtc.at = "open" /\ FailRtc
<1>1. CASE a < page.told \/ a <= page.stream
  BY <1>1 DEF OnConfig
<1>2. CASE ~(a < page.told \/ a <= page.stream)
  <2> DEFINE resumed == videoVia = "webrtc"
             word == IF resumed THEN ClosingWord ELSE <<>>
             initial == page.stream = None /\ rtcGen = 0
  <2>1. /\ page' = [page EXCEPT !.stream = a, !.seq = -1, !.awaiting = TRUE, !.last = NoFrame]
        /\ up' = up \o word \o (IF initial THEN <<>> ELSE KeyWanted)
        /\ IF resumed THEN FailRtc ELSE MaybeRtc(FALSE) /\ UNCHANGED channel
    BY <1>2, Zenon DEF OnConfig
  <2>2. resumed <=> rtc.at = "open"
    BY DEF videoVia
  <2>3. Begins(a)
    BY <1>2, <2>1, BeginsType
  <2>4. initial \/ Says(up', "REQUEST_KEYFRAME", None)
    <3> SUFFICES ASSUME ~initial PROVE Says(up', "REQUEST_KEYFRAME", None)
      OBVIOUS
    <3>1. up' = (up \o word) \o KeyWanted /\ word \in {<<>>, ClosingWord}
      BY <2>1
    <3> HIDE DEF word
    <3> QED
      BY <3>1, WordsUp
  <2> HIDE DEF word
  <2> QED
    BY <2>1, <2>2, <2>3, <2>4
<1> QED
  BY <1>1, <1>2

\* CONFIG on the channel.
LEMMA ChannelConfig ==
  ASSUME Inv, Attempts, FromChannel, Head(channel).kind = "CONFIG"
  PROVE  /\ UNCHANGED <<attempts, crossed>>
         /\ \/ /\ Head(channel).of < page.told \/ Head(channel).of <= page.stream
               /\ UNCHANGED <<page, up>>
            \/ Begins(Head(channel).of) /\ Says(up', "REQUEST_KEYFRAME", None)
<1> DEFINE a == Head(channel).of
           asked == [page EXCEPT !.stream = a, !.seq = -1, !.awaiting = TRUE, !.last = NoFrame]
<1>1. /\ page' = IF a < page.told \/ a <= page.stream THEN page ELSE asked
      /\ up' = IF page' = page THEN up ELSE up \o KeyWanted
      /\ UNCHANGED <<attempts, crossed>> /\ channel # <<>>
  BY Zenon DEF FromChannel
<1>t. a \in Nat /\ page.stream \in Nat
  <2>1. Head(channel) \in Message
    BY <1>1, FrameFacts, TailFacts
  <2> QED
    BY <2>1, FrameFacts DEF Message
<1> HIDE DEF asked
<1>2. CASE a < page.told \/ a <= page.stream
  BY <1>1, <1>2
<1>3. CASE ~(a < page.told \/ a <= page.stream)
  <2>1. page' = asked
    BY <1>1, <1>3
  <2>2. Begins(a)
    BY <1>t, <1>3, <2>1, BeginsType DEF asked
  <2>3. page' # page
    BY <1>t, <1>3, <2>2 DEF Begins
  <2>4. up' = (up \o <<>>) \o KeyWanted
    <3>1. up \o <<>> = up
      BY FrameFacts, OneMore, SayType DEF AllKinds, ToSession, None
    <3> QED
      BY <1>1, <2>3, <3>1
  <2>5. Says(up', "REQUEST_KEYFRAME", None)
    BY <2>4, WordsUp
  <2> QED
    BY <1>1, <2>2, <2>5
<1> QED
  BY <1>2, <1>3

\* The hub's other steps.
LEMMA HubOrder ==
  ASSUME Inv, InOrder, Hub
  PROVE  InOrder'
<1> DEFINE e == encoder.epoch
           n == encoder.frames
<1>t. /\ peer \in Peers /\ encoder \in Encoders /\ peer.queue \in Seq(Message) /\ channel \in Seq(Message)
      /\ mailbox \in Seq(Message) /\ down \in Seq(Message) /\ notices \subseteq Nat
  BY FrameFacts, UnderWay
<1>i. /\ Line(down, e, n) /\ Line(channel, e, n) /\ Line(peer.queue, e, n) /\ Line(mailbox, e, n)
      /\ page.stream <= e /\ page.told <= e /\ peer.config <= e /\ wsConfig <= e /\ e > 0
      /\ e \in Nat /\ n \in Nat
  BY OrderFacts
<1>n. /\ Line(<<>>, e, n) /\ Frames(<<>>) = {}
  BY LineNobody, NothingFollows
<1>p. NoPeer.queue = <<>> /\ NoPeer.config = 0
  BY DEF NoPeer, None
<1>g. ASSUME NEW g PROVE [NoPeer EXCEPT !.g = g].queue = <<>> /\ [NoPeer EXCEPT !.g = g].config = 0
  BY DEF NoPeer, None
<1>w. \A kind \in {"answer", "close", "keyframe"}, of \in Nat : Line(Append(down, Say(kind, of)), e, n)
  <2>1. {"answer", "close", "keyframe"} \subseteq AllKinds \ {"VIDEO"}
    BY DEF AllKinds, ToPage
  <2> SUFFICES ASSUME NEW kind \in {"answer", "close", "keyframe"}, NEW of \in Nat
               PROVE  Line(Append(down, Say(kind, of)), e, n)
    OBVIOUS
  <2>2. kind \in AllKinds \ {"VIDEO"} /\ kind \notin {"CONFIG", "STREAM_STATE"}
    BY <2>1
  <2> HIDE DEF e, n
  <2> QED
    BY <1>t, <1>i, <2>2, LineSays
<1>1. ASSUME UNCHANGED <<wsConfig, dropped, page>>,
             encoder' = encoder \/ encoder' = [encoder EXCEPT !.wantKey = TRUE],
             \/ down' = down
             \/ \E kind \in {"answer", "close", "keyframe"}, of \in Nat : down' = Append(down, Say(kind, of)),
             peer' = peer \/ (peer'.queue = <<>> /\ peer'.config <= e) \/ (peer'.queue = peer.queue /\ peer'.config = peer.config),
             mailbox' = mailbox \/ (mailbox # <<>> /\ mailbox' = Tail(mailbox)),
             channel' \in {channel, <<>>}
      PROVE  InOrder'
  <2>1. encoder'.epoch = e /\ encoder'.frames = n /\ (encoder.wantKey => encoder'.wantKey)
    BY <1>1, <1>t DEF Encoders
  <2>2. Line(down', e, n)
    <3>1. CASE down' = down
      BY <1>i, <3>1
    <3>2. CASE \E kind \in {"answer", "close", "keyframe"}, of \in Nat : down' = Append(down, Say(kind, of))
      <4>1. PICK kind \in {"answer", "close", "keyframe"}, of \in Nat : down' = Append(down, Say(kind, of))
        BY <3>2
      <4>2. Line(Append(down, Say(kind, of)), e, n)
        BY <1>w
      <4> QED
        BY <4>1, <4>2
    <3> QED
      BY <1>1, <3>1, <3>2
  <2>3. Line(peer'.queue, e, n) /\ Frames(peer'.queue) \subseteq Frames(peer.queue) /\ peer'.config <= e
    BY <1>1, <1>i, <1>n
  <2>4. Line(mailbox', e, n) /\ Frames(mailbox') \subseteq Frames(mailbox)
    <3>1. mailbox # <<>> => Line(Tail(mailbox), e, n) /\ Frames(Tail(mailbox)) \subseteq Frames(mailbox)
      BY <1>i, <1>t, LineTaken
    <3> QED
      BY <1>1, <1>i, <3>1
  <2>5. Line(channel', e, n) /\ Frames(channel') \subseteq Frames(channel)
    BY <1>1, <1>i, <1>n
  <2> QED
    BY <1>1, <1>i, <2>1, <2>2, <2>3, <2>4, <2>5, OrderRests
<1>2. CASE TakeMail
  <2> DEFINE m == Head(mailbox)
             g == m.of
  <2>1. /\ mailbox # <<>> /\ mailbox' = Tail(mailbox) /\ m \in Message
        /\ UNCHANGED <<wsConfig, channel, page>>
        /\ \/ m.kind = "offer" /\ TakeOffer(g)
           \/ m.kind = "VIDEO" /\ TakeFrame(m.frame)
           \/ m.kind = "close" /\ TakeClose(g)
    BY <1>2, MailCases DEF pageSide
  <2>2. g \in Nat
    BY <2>1 DEF Message
  <2>3. CASE m.kind = "VIDEO" /\ TakeFrame(m.frame)
    <3>1. UNCHANGED <<encoder, down>>
      BY <2>3 DEF TakeFrame
    <3> QED
      BY <2>1, <2>3, <3>1, FrameOrder
  <2> HIDE DEF m, g
  <2>4. CASE TakeOffer(g)
    <3>1. /\ UNCHANGED <<encoder, dropped>>
          /\ down' = down \/ down' = Append(down, Say("answer", g)) \/ down' = Append(down, Say("close", g))
          /\ peer' = NoPeer \/ peer' = [NoPeer EXCEPT !.g = g]
      BY <2>4 DEF TakeOffer
    <3>2. peer'.queue = <<>> /\ peer'.config <= e
      <4>1. peer'.queue = <<>> /\ peer'.config = 0
        BY <1>p, <1>g, <3>1
      <4> QED
        BY <1>i, <4>1
    <3>3. \/ down' = down
          \/ \E kind \in {"answer", "close", "keyframe"}, of \in Nat : down' = Append(down, Say(kind, of))
      BY <2>2, <3>1
    <3> QED
      BY <1>1, <2>1, <3>1, <3>2, <3>3
  <2>5. CASE TakeClose(g)
    <3>1. /\ UNCHANGED dropped
          /\ peer' = NoPeer \/ peer' = peer
          /\ \/ UNCHANGED <<encoder, down>>
             \/ encoder' = [encoder EXCEPT !.wantKey = TRUE] /\ down' = Append(down, Say("keyframe", g))
      BY <2>5 DEF TakeClose, Reply
    <3>2. peer' = peer \/ (peer'.queue = <<>> /\ peer'.config <= e)
      BY <1>i, <1>p, <3>1
    <3>3. \/ down' = down
          \/ \E kind \in {"answer", "close", "keyframe"}, of \in Nat : down' = Append(down, Say(kind, of))
      BY <2>2, <3>1
    <3> QED
      BY <1>1, <2>1, <3>1, <3>2, <3>3
  <2> QED
    BY <2>1, <2>3, <2>4, <2>5 DEF m, g
<1>3. CASE ChannelOpen
  <2>1. /\ peer' = [peer EXCEPT !.opening = FALSE, !.open = TRUE]
        /\ UNCHANGED <<encoder, wsConfig, mailbox, down, channel, page, dropped>>
    BY <1>3 DEF ChannelOpen, server, pageSide, refused
  <2>2. peer'.queue = peer.queue /\ peer'.config = peer.config
    BY <1>t, <2>1 DEF Peers
  <2> QED
    BY <1>1, <2>1, <2>2
<1>4. CASE ChannelClose
  <2>1. /\ peer' = [peer EXCEPT !.open = FALSE, !.queue = <<>>]
        /\ UNCHANGED <<encoder, wsConfig, mailbox, down, channel, page, dropped>>
    BY <1>4 DEF ChannelClose, server, pageSide, refused
  <2>2. peer'.queue = <<>> /\ peer'.config = peer.config
    BY <1>t, <2>1 DEF Peers
  <2> QED
    BY <1>1, <1>i, <2>1, <2>2
<1>5. CASE PeerDies
  <2>1. /\ peer' = NoPeer /\ channel' \in {channel, <<>>}
        /\ UNCHANGED <<encoder, wsConfig, mailbox, down, page, dropped>>
    BY <1>5 DEF PeerDies, server, pageSide, refused
  <2>2. peer'.queue = <<>> /\ peer'.config <= e
    BY <1>i, <1>p, <2>1
  <2> QED
    BY <1>1, <2>1, <2>2
<1>6. CASE Notice
  <2>1. /\ \E g \in notices : down' = Append(down, Say("close", g))
        /\ UNCHANGED <<encoder, wsConfig, mailbox, peer, channel, page, dropped>>
    BY <1>6 DEF Notice, server, pageSide, refused
  <2> QED
    BY <1>1, <1>t, <2>1
<1> QED
  BY <1>2, <1>3, <1>4, <1>5, <1>6, FlushOrder DEF Hub

\* The page takes its frames in their order.
LEMMA PageOrder ==
  ASSUME Inv, Attempts, InOrder,
         \/ FromSocket \/ FromChannel \/ SendOffer \/ OnOpen \/ GiveUp \/ Retry
         \/ \E t \in {"websocket", "webrtc"} \ {picked} : SetTransport(t)
  PROVE  InOrder'
<1> DEFINE e == encoder.epoch
           n == encoder.frames
<1>t. /\ page \in Pages /\ page.stream \in Nat /\ page.told \in Nat
      /\ down \in Seq(Message) /\ channel \in Seq(Message)
  BY FrameFacts
<1>i. /\ Line(down, e, n) /\ Line(channel, e, n) /\ Line(peer.queue, e, n) /\ Line(mailbox, e, n)
      /\ page.stream <= e /\ page.told <= e /\ peer.config <= e /\ wsConfig <= e /\ e > 0
      /\ e \in Nat /\ n \in Nat
  BY OrderFacts
<1>n. /\ Line(<<>>, e, n) /\ Frames(<<>>) = {}
  BY LineNobody, NothingFollows
<1>1. ASSUME UNCHANGED <<wsConfig, dropped, encoder, peer, mailbox>>,
             page'.stream <= e, page'.told <= e,
             Line(down', e, n), Line(channel', e, n), Frames(channel') \subseteq Frames(channel)
      PROVE  InOrder'
  BY <1>1, <1>i, OrderRests
<1>2. CASE FromSocket
  <2> DEFINE m == Head(down)
  <2>1. /\ down # <<>> /\ down' = Tail(down)
        /\ UNCHANGED <<wsConfig, dropped, encoder, peer, mailbox>>
    BY <1>2, SocketCases DEF server, hub, refused
  <2>2. m \in Message /\ m.of \in Nat
    <3>1. m \in Message
      BY <1>t, <2>1, TailFacts
    <3> QED
      BY <3>1 DEF Message
  <2>3. Line(down', e, n) /\ (m.kind \in {"CONFIG", "STREAM_STATE"} => m.of <= e)
    BY <1>t, <1>i, <2>1, LineTaken
  <2>4. channel' \in {channel, <<>>} /\ page'.stream <= e /\ page'.told <= e
    <3>1. CASE UNCHANGED <<page, channel>>
      BY <1>i, <3>1
    <3>2. CASE m.kind = "STREAM_STATE" /\ page' = [page EXCEPT !.told = m.of] /\ UNCHANGED channel
      <4>1. page'.stream = page.stream /\ page'.told = m.of
        BY <1>t, <3>2 DEF Pages
      <4> QED
        BY <1>i, <2>3, <3>2, <4>1
    <3>3. CASE m.kind = "CONFIG" /\ OnConfig(m.of, "websocket")
      <4>1. \/ UNCHANGED <<page, channel>>
            \/ Begins(m.of) /\ channel' \in {channel, <<>>}
        BY <2>2, <3>3, ConfigSeen DEF FailRtc
      <4> QED
        BY <1>i, <2>3, <3>3, <4>1 DEF Begins
    <3>4. CASE Decoder(m) /\ UNCHANGED channel
      <4>1. page'.stream = page.stream /\ page'.told = page.told
        BY <2>2, <3>4, VideoSeen
      <4> QED
        BY <1>i, <3>4, <4>1
    <3>5. CASE page' = [page EXCEPT !.awaiting = TRUE] /\ UNCHANGED channel
      <4>1. page'.stream = page.stream /\ page'.told = page.told
        BY <1>t, <3>5 DEF Pages
      <4> QED
        BY <1>i, <3>5, <4>1
    <3>6. CASE UNCHANGED page /\ FailRtc
      BY <1>i, <3>6 DEF FailRtc
    <3> QED
      BY <1>2, <3>1, <3>2, <3>3, <3>4, <3>5, <3>6, SocketCases
  <2>5. Line(channel', e, n) /\ Frames(channel') \subseteq Frames(channel)
    BY <1>i, <1>n, <2>4
  <2> QED
    BY <1>1, <2>1, <2>3, <2>4, <2>5
<1>3. CASE FromChannel
  <2> DEFINE m == Head(channel)
  <2>1. /\ channel # <<>> /\ channel' = Tail(channel)
        /\ UNCHANGED <<wsConfig, dropped, encoder, peer, mailbox, down>>
        /\ m.kind # "CONFIG" => Decoder(m)
    BY <1>3, Zenon DEF FromChannel, server, hub, refused
  <2>2. m \in Message
    BY <1>t, <2>1, TailFacts
  <2>3. /\ Line(channel', e, n) /\ Frames(channel') \subseteq Frames(channel)
        /\ m.kind = "CONFIG" => m.of <= e
    BY <1>t, <1>i, <2>1, LineTaken
  <2>4. page'.stream <= e /\ page'.told <= e
    <3>1. CASE m.kind = "CONFIG"
      BY <1>3, <1>i, <2>3, <3>1, ChannelConfig DEF Begins
    <3>2. CASE m.kind # "CONFIG"
      <4>1. page'.stream = page.stream /\ page'.told = page.told
        BY <2>1, <2>2, <3>2, VideoSeen
      <4> QED
        BY <1>i, <4>1
    <3> QED
      BY <3>1, <3>2
  <2> QED
    BY <1>1, <1>i, <2>1, <2>3, <2>4
<1>4. CASE \/ SendOffer \/ OnOpen \/ GiveUp \/ Retry
           \/ \E t \in {"websocket", "webrtc"} \ {picked} : SetTransport(t)
  <2>1. UNCHANGED <<wsConfig, dropped, encoder, peer, mailbox, down>>
    BY <1>4 DEF SendOffer, OnOpen, GiveUp, Retry, SetTransport, server, hub, refused
  <2>2. page'.stream = page.stream /\ page'.told = page.told
    <3>1. page' = page \/ page' = [page EXCEPT !.awaiting = TRUE]
      BY <1>4 DEF SendOffer, OnOpen, GiveUp, Retry, SetTransport
    <3> QED
      BY <1>t, <3>1 DEF Pages
  <2>3. channel' \in {channel, <<>>}
    BY <1>4 DEF SendOffer, OnOpen, GiveUp, Retry, SetTransport, CloseRtc, FailRtc
  <2>4. Line(channel', e, n) /\ Frames(channel') \subseteq Frames(channel)
    BY <1>i, <1>n, <2>3
  <2> QED
    BY <1>1, <1>i, <2>1, <2>2, <2>4
<1> QED
  BY <1>2, <1>3, <1>4

\* What a session begins with.
LEMMA FirstWords ==
  LET q == <<Say("RTC_CONFIG", None), Say("STREAM_STATE", 1)>>
  IN  /\ Line(q, 1, 0) /\ Frames(q) = {}
      /\ \A k, h : Says(q, k, h) => k \in {"RTC_CONFIG", "STREAM_STATE"}
<1> DEFINE a == Say("RTC_CONFIG", None)
           b == Say("STREAM_STATE", 1)
<1>1. /\ a \in Message /\ a.kind = "RTC_CONFIG"
      /\ b \in Message /\ b.kind = "STREAM_STATE" /\ b.of = 1
  BY SayType DEF AllKinds, ToPage, None
<1> HIDE DEF a, b
<1>2. Frames(<<a, b>>) = {}
  BY <1>1 DEF Frames
<1>3. Rising(<<a, b>>) /\ Known(<<a, b>>, 1)
  BY <1>1 DEF Rising, Known
<1>4. \A k, h : Says(<<a, b>>, k, h) => k \in {"RTC_CONFIG", "STREAM_STATE"}
  BY <1>1 DEF Says
<1>5. Line(<<a, b>>, 1, 0)
  BY <1>2, <1>3 DEF Line
<1> QED
  BY <1>2, <1>4, <1>5 DEF a, b

\* Where everything starts.
LEMMA FirstNumbers ==
  /\ NewEncoder(1).epoch = 1 /\ NewEncoder(1).frames = 0 /\ NewEncoder(1).wantKey
  /\ FreshPage.stream = 0 /\ FreshPage.told = 0 /\ FreshPage.seq = -1 /\ FreshPage.last = NoFrame
  /\ NoPeer.queue = <<>> /\ NoPeer.config = 0 /\ ~NoPeer.open /\ NoPeer.g = None
  /\ NoClaim.g = None /\ ~NoClaim.active
  /\ Sound(NoFrame, 1, 0) /\ Line(<<>>, 1, 0) /\ Frames(<<>>) = {}
BY LineNobody, NothingFollows DEF NewEncoder, FreshPage, NoPeer, NoClaim, None, Sound, NoFrame

\* It holds initially.
LEMMA InitOrder == Init => InOrder
<1> SUFFICES ASSUME Init PROVE InOrder
  OBVIOUS
<1>1. /\ encoder = NewEncoder(1) /\ wsConfig = 0 /\ mailbox = <<>> /\ peer = NoPeer /\ channel = <<>>
      /\ down = <<Say("RTC_CONFIG", None), Say("STREAM_STATE", 1)>> /\ page = FreshPage /\ dropped = NoFrame
  BY DEF Init, None
<1>2. Line(down, 1, 0)
  BY <1>1, FirstWords
<1>3. /\ encoder.epoch = 1 /\ encoder.frames = 0 /\ encoder.wantKey /\ page.stream = 0 /\ page.told = 0
      /\ peer.config = 0 /\ Sound(dropped, 1, 0)
  BY <1>1, FirstNumbers
<1>4. /\ mailbox = <<>> /\ channel = <<>> /\ peer.queue = <<>> /\ Line(<<>>, 1, 0)
      /\ Below(Frames(<<>>), Frames(<<>>))
  BY <1>1, FirstNumbers DEF Below
<1> QED
  BY <1>1, <1>2, <1>3, <1>4 DEF InOrder

\* Every step keeps the order.
LEMMA NextOrder == Inv /\ Attempts /\ InOrder /\ [Next]_vars => InOrder'
<1> SUFFICES ASSUME Inv, Attempts, InOrder, [Next]_vars PROVE InOrder'
  OBVIOUS
<1>1. CASE Reconnect
  <2>1. /\ encoder' = NewEncoder(1) /\ wsConfig' = 0 /\ mailbox' = <<>> /\ peer' = NoPeer /\ channel' = <<>>
        /\ down' = <<Say("RTC_CONFIG", None), Say("STREAM_STATE", 1)>> /\ page' = FreshPage /\ dropped' = NoFrame
    BY <1>1 DEF Reconnect, CloseRtc, None
  <2>2. Line(down', 1, 0)
    BY <2>1, FirstWords
  <2>3. /\ encoder'.epoch = 1 /\ encoder'.frames = 0 /\ encoder'.wantKey
        /\ page'.stream = 0 /\ page'.told = 0 /\ peer'.config = 0 /\ Sound(dropped', 1, 0)
    BY <2>1, FirstNumbers
  <2>4. /\ mailbox' = <<>> /\ channel' = <<>> /\ peer'.queue = <<>> /\ Line(<<>>, 1, 0)
        /\ Below(Frames(<<>>), Frames(<<>>))
    BY <2>1, FirstNumbers DEF Below
  <2> QED
    BY <2>1, <2>2, <2>3, <2>4 DEF InOrder
<1>2. CASE UNCHANGED vars
  <2>1. UNCHANGED <<encoder, wsConfig, mailbox, peer, down, channel, page, dropped>>
    BY <1>2 DEF vars, server, hub, pageSide, refused
  <2> QED
    BY <2>1 DEF InOrder
<1>3. CASE Session
  BY <1>3, SessionOrder, SendOrder DEF Session
<1>4. CASE Hub
  BY <1>4, HubOrder
<1>5. CASE \/ FromSocket \/ FromChannel \/ SendOffer \/ OnOpen \/ GiveUp \/ Retry
           \/ \E t \in {"websocket", "webrtc"} \ {picked} : SetTransport(t)
  BY <1>5, PageOrder
<1>6. CASE Connect
  <2>1. /\ peer' = [peer EXCEPT !.opening = TRUE]
        /\ UNCHANGED <<encoder, wsConfig, mailbox, down, channel, page, dropped>>
    BY <1>6 DEF Connect, server, refused
  <2>2. peer'.queue = peer.queue /\ peer'.config = peer.config
    BY <2>1, UnderWay DEF Peers
  <2> QED
    BY <2>1, <2>2 DEF InOrder
<1> QED
  BY <1>1, <1>2, <1>3, <1>4, <1>5, <1>6 DEF Next, Page

\* Whatever path it takes, a frame is behind the ones the encoder sent before it, in
\* each queue and from the channel through the hub's queue to its mailbox, and nobody
\* knows of a stream the encoder has not begun.
THEOREM FramesKeepOrder == Spec => []InOrder
<1> QED
  BY InitInv, NextInv, InitAttempts, NextAttempts, InitOrder, NextOrder, PTL DEF Spec

-----------------------------------------------------------------------------
(* Nothing stays lost: the decoder's configuration. *)

\* The hub's queue is of one stream, and of none before the channel opens.
OfConfig ==
  /\ \A i \in DOMAIN peer.queue :
       \/ peer.queue[i].kind = "VIDEO" /\ peer.queue[i].frame.epoch = peer.config
       \/ peer.queue[i].kind = "CONFIG" /\ peer.queue[i].of = peer.config /\ peer.queue[i].frame = NoFrame
  /\ ~peer.open => peer.queue = <<>>
  /\ ~peer.open /\ peer.g # None /\ peer.g = rtc.g => peer.config = None
  /\ Carries(channel, {"CONFIG", "VIDEO"})

\* The page gets the CONFIG of stream e before its frames, from a hub whose queue is q,
\* which is of stream of, and whose channel is c.
Announced(c, q, of, e) ==
  /\ Leads(c, e) /\ (Leads(q, e) \/ Says(c, "CONFIG", e))
  /\ of = e => Says(c, "CONFIG", e) \/ Says(q, "CONFIG", e)

\* The page has the newest stream, or gets its CONFIG before its frames on either path.
Configured ==
  \/ page.stream = encoder.epoch
  \/ /\ Leads(down, encoder.epoch)
     /\ wsConfig = encoder.epoch => Says(down, "CONFIG", encoder.epoch)
     /\ peer.open /\ peer.g = rtc.g => Announced(channel, peer.queue, peer.config, encoder.epoch)

\* Before the first attempt, every frame went down the socket, and no key was lost there.
Beginning == rtcGen = 0 => ~keyLost /\ (encoder.frames = 0 \/ wsConfig = encoder.epoch)

Ready == OfConfig /\ Configured /\ Beginning

\* The peer's queue is left alone.
LEMMA OfConfigStays ==
  ASSUME OfConfig, peer' = peer, rtc'.g = rtc.g \/ rtc'.g # peer.g \/ peer.g = None, channel' = channel \/ channel' = <<>>
  PROVE  OfConfig'
BY DEF OfConfig, Carries

\* The decoder stays configured, or what configures it stays on its way.
LEMMA ConfiguredStays ==
  ASSUME Configured, encoder'.epoch = encoder.epoch, wsConfig' = wsConfig,
         page.stream = encoder.epoch => page'.stream = encoder.epoch,
         \/ page'.stream = encoder.epoch
         \/ /\ Leads(down, encoder.epoch) => Leads(down', encoder.epoch)
            /\ Says(down, "CONFIG", encoder.epoch) => Says(down', "CONFIG", encoder.epoch),
         peer'.open /\ peer'.g = rtc'.g =>
           \/ page'.stream = encoder.epoch
           \/ /\ peer.open /\ peer.g = rtc.g
              /\ peer'.config = peer.config /\ peer'.queue = peer.queue /\ channel' = channel
  PROVE  Configured'
BY DEF Configured

\* A page without attempts stays on the socket.
LEMMA BeginningStays ==
  ASSUME Beginning, encoder'.epoch = encoder.epoch, encoder'.frames = encoder.frames,
         UNCHANGED <<wsConfig, keyLost>>, rtcGen' = 0 => rtcGen = 0
  PROVE  Beginning'
BY DEF Beginning

\* A word behind the others.
LEMMA LeadsSays ==
  ASSUME NEW q \in Seq(Message), NEW kind \in AllKinds \ {"VIDEO"}, NEW of \in Nat, NEW e
  PROVE  /\ Leads(q, e) => Leads(Append(q, Say(kind, of)), e)
         /\ Says(q, "CONFIG", e) => Says(Append(q, Say(kind, of)), "CONFIG", e)
<1> DEFINE m == Say(kind, of)
<1>1. m \in Message /\ m.kind = kind /\ m.of = of
  BY SayType
<1> HIDE DEF m
<1>2. Says(Append(q, m), "CONFIG", e) <=> Says(q, "CONFIG", e) \/ (m.kind = "CONFIG" /\ m.of = e)
  BY <1>1, SaysAppended
<1>3. Leads(q, e) => Leads(Append(q, m), e)
  BY <1>1, LeadsAppended
<1> QED
  BY <1>2, <1>3 DEF m

\* enqueue
LEMMA EnqueueReady ==
  ASSUME NEW p \in Peers, NEW f \in Frame, NEW c, NEW e
  PROVE  /\ Announced(c, p.queue, p.config, e) =>
              Announced(c, Enqueue(p, f).queue, Enqueue(p, f).config, e)
         /\ (\A i \in DOMAIN p.queue :
               \/ p.queue[i].kind = "VIDEO" /\ p.queue[i].frame.epoch = p.config
               \/ p.queue[i].kind = "CONFIG" /\ p.queue[i].of = p.config /\ p.queue[i].frame = NoFrame) =>
            \A i \in DOMAIN Enqueue(p, f).queue :
               LET m == Enqueue(p, f).queue[i]
               IN  \/ m.kind = "VIDEO" /\ m.frame.epoch = Enqueue(p, f).config
                   \/ m.kind = "CONFIG" /\ m.of = Enqueue(p, f).config /\ m.frame = NoFrame
<1> DEFINE w == Say("CONFIG", f.epoch)
           v == Video(f)
           q == Enqueue(p, f).queue
           of == Enqueue(p, f).config
           Of(r, d) == \A i \in DOMAIN r :
                         \/ r[i].kind = "VIDEO" /\ r[i].frame.epoch = d
                         \/ r[i].kind = "CONFIG" /\ r[i].of = d /\ r[i].frame = NoFrame
<1>t. p.queue \in Seq(Message) /\ f.epoch \in Nat
  BY DEF Peers, Frame
<1>1. w \in Message /\ w.kind = "CONFIG" /\ w.of = f.epoch /\ w.frame = NoFrame
  <2>1. w \in Message /\ w.kind = "CONFIG" /\ w.of = f.epoch
    BY <1>t, SayType DEF AllKinds, ToPage
  <2> QED
    BY <2>1 DEF Say
<1>2. v \in Message /\ v.kind = "VIDEO" /\ v.frame = f
  <2>1. v \in Message
    BY VideoType
  <2> QED
    BY <2>1 DEF Video
<1>3. /\ of = f.epoch
      /\ \/ q = Append(<<w>>, v)
         \/ p.config = f.epoch /\ (q = Append(p.queue, v) \/ q = p.queue)
  BY Enqueued
<1> HIDE DEF w, v, q, of
<1>4. CASE q = Append(<<w>>, v)
  <2> DEFINE one == <<w>>
  <2>0. one \in Seq(Message) /\ DOMAIN one = {1} /\ one[1] = w
    BY <1>1
  <2> HIDE DEF one
  <2>1. PICK k \in Nat :
           /\ DOMAIN q = DOMAIN one \cup {k} /\ q[k] = v
           /\ \A i \in DOMAIN one : i < k /\ q[i] = one[i]
    <3>1. q = Append(one, v)
      BY <1>4 DEF one
    <3> QED
      BY <1>2, <2>0, <3>1, Appended
  <2>2. /\ DOMAIN q = {1, k} /\ 1 < k /\ q[1] = w /\ q[k] = v
    BY <2>0, <2>1
  <2>3. Leads(q, e)
    BY <1>1, <1>2, <2>2 DEF Leads
  <2>4. of = e => Says(q, "CONFIG", e)
    BY <1>1, <1>3, <2>2 DEF Says
  <2>5. Of(q, of)
    BY <1>1, <1>2, <1>3, <2>2
  <2>6. Announced(c, p.queue, p.config, e) => Announced(c, q, of, e)
    BY <2>3, <2>4 DEF Announced
  <2> QED
    BY <2>5, <2>6 DEF q, of
<1>5. CASE p.config = f.epoch /\ q = Append(p.queue, v)
  <2>1. PICK k \in Nat :
           /\ DOMAIN q = DOMAIN p.queue \cup {k} /\ q[k] = v
           /\ \A i \in DOMAIN p.queue : q[i] = p.queue[i]
    BY <1>2, <1>5, <1>t, Appended
  <2>2. Of(p.queue, p.config) => Of(q, of)
    BY <1>2, <1>3, <1>5, <2>1
  <2>3. Says(p.queue, "CONFIG", e) => Says(q, "CONFIG", e)
    BY <2>1 DEF Says
  <2>4. Leads(p.queue, e) /\ (f.epoch = e => Says(p.queue, "CONFIG", e)) => Leads(q, e)
    BY <1>2, <1>5, <1>t, LeadsAppended
  <2>5. Announced(c, p.queue, p.config, e) => Announced(c, q, of, e)
    BY <1>3, <1>5, <2>3, <2>4 DEF Announced
  <2> QED
    BY <2>2, <2>5 DEF q, of
<1>6. CASE p.config = f.epoch /\ q = p.queue
  BY <1>3, <1>6 DEF q, of
<1> QED
  BY <1>3, <1>4, <1>5, <1>6

\* flush
LEMMA FlushReady ==
  ASSUME NEW c \in Seq(Message), NEW q \in Seq(Message), q # <<>>, NEW of, NEW e, Announced(c, q, of, e)
  PROVE  Announced(Append(c, Head(q)), Tail(q), of, e)
<1> DEFINE m == Head(q)
<1>1. m \in Message
  BY TailFacts
<1>2. Says(q, "CONFIG", e) <=> Says(Tail(q), "CONFIG", e) \/ (m.kind = "CONFIG" /\ m.of = e)
  BY SaysTaken
<1>3. Leads(q, e) => /\ ~(m.kind = "VIDEO" /\ m.frame.epoch = e)
                     /\ ~(m.kind = "CONFIG" /\ m.of = e) => Leads(Tail(q), e)
  BY LeadsTaken
<1> HIDE DEF m
<1>4. Says(Append(c, m), "CONFIG", e) <=> Says(c, "CONFIG", e) \/ (m.kind = "CONFIG" /\ m.of = e)
  BY <1>1, SaysAppended
<1>5. Leads(c, e) /\ (m.kind = "VIDEO" /\ m.frame.epoch = e => Says(c, "CONFIG", e)) => Leads(Append(c, m), e)
  BY <1>1, LeadsAppended
<1>6. Announced(Append(c, m), Tail(q), of, e)
  BY <1>2, <1>3, <1>4, <1>5 DEF Announced
<1> QED
  BY <1>6 DEF m

\* The page takes from its channel.
LEMMA TakenReady ==
  ASSUME NEW c \in Seq(Message), NEW q, c # <<>>, NEW of, NEW e, Announced(c, q, of, e),
         ~(Head(c).kind = "CONFIG" /\ Head(c).of = e)
  PROVE  Announced(Tail(c), q, of, e) /\ ~(Head(c).kind = "VIDEO" /\ Head(c).frame.epoch = e)
<1>1. Says(c, "CONFIG", e) => Says(Tail(c), "CONFIG", e)
  BY SaysTaken
<1>2. Leads(Tail(c), e) /\ ~(Head(c).kind = "VIDEO" /\ Head(c).frame.epoch = e)
  BY LeadsTaken DEF Announced
<1> QED
  BY <1>1, <1>2 DEF Announced

\* A queue of what was sent carries nothing of a stream to come.
LEMMA LineLeads ==
  ASSUME NEW q \in Seq(Message), NEW e \in Nat, NEW n, NEW d \in Nat, e < d, Line(q, e, n)
  PROVE  Leads(q, d)
<1>1. \A f \in Frames(q) : f \in Frame /\ Sound(f, e, n)
  BY FramesType DEF Line
<1>2. \A f \in Frames(q) : f.epoch # d
  BY <1>1 DEF Sound, Frame
<1> QED
  BY <1>2, LeadsNobody

\* The session's task.
LEMMA SessionReady ==
  ASSUME Inv, InOrder, Ready, Restart \/ Info \/ Receive
  PROVE  Ready'
<1> DEFINE e == encoder.epoch
           n == encoder.frames
<1>0. /\ encoder \in Encoders /\ e \in Nat /\ n \in Nat
      /\ down \in Seq(Message) /\ channel \in Seq(Message) /\ peer.queue \in Seq(Message)
      /\ wsConfig <= e /\ peer.config <= e /\ wsConfig \in Nat /\ peer.config \in Nat
  BY FrameFacts, OrderFacts
<1>t. e + 1 \in Nat /\ e < e + 1
  BY <1>0
<1>i. /\ Line(down, e, n) /\ Line(channel, e, n) /\ Line(peer.queue, e, n)
  BY OrderFacts
<1>r. OfConfig /\ Configured /\ Beginning
  BY DEF Ready
<1>k. "STREAM_STATE" \in AllKinds \ {"VIDEO"}
  BY DEF AllKinds, ToPage
<1>1. CASE Restart
  <2>1. /\ encoder' = NewEncoder(e + 1)
        /\ down' = down \/ down' = Append(down, Say("STREAM_STATE", e + 1))
        /\ UNCHANGED <<wsConfig, peer, channel, rtc, rtcGen, keyLost>>
    BY <1>1 DEF Restart, NewEncoder, hub, pageSide, attempts, refused
  <2>2. encoder'.epoch = e + 1 /\ encoder'.frames = 0
    BY <2>1 DEF NewEncoder
  <2>3. PICK d \in Nat : d = e + 1 /\ e < d
    BY <1>0, <1>t
  <2>4. Leads(down, d) /\ Leads(channel, d) /\ Leads(peer.queue, d)
    <3> HIDE DEF e, n
    <3> QED
      BY <1>0, <1>t, <1>i, <2>3, LineLeads
  <2>5. Leads(down', d)
    <3>1. Leads(Append(down, Say("STREAM_STATE", d)), d)
      BY <1>0, <1>t, <1>k, <2>4, LeadsSays
    <3> QED
      BY <2>1, <2>3, <2>4, <3>1
  <2>6. wsConfig # d /\ peer.config # d
    BY <1>0, <1>t, <2>3
  <2>7. Configured'
    BY <2>1, <2>2, <2>3, <2>4, <2>5, <2>6 DEF Configured, Announced
  <2>8. OfConfig'
    BY <1>r, <2>1, OfConfigStays
  <2> QED
    BY <1>r, <2>1, <2>2, <2>7, <2>8 DEF Ready, Beginning
<1>2. CASE Info
  <2>1. /\ encoder' = [encoder EXCEPT !.announced = TRUE] /\ down' = Append(down, Say("STREAM_STATE", e))
        /\ UNCHANGED <<wsConfig, peer, channel, rtc, rtcGen, page, keyLost>>
    BY <1>2 DEF Info, hub, pageSide, attempts, refused
  <2>2. encoder'.epoch = e /\ encoder'.frames = n
    BY <1>0, <1>t, <2>1 DEF Encoders
  <2>3. /\ Leads(down, e) => Leads(down', e)
        /\ Says(down, "CONFIG", e) => Says(down', "CONFIG", e)
    <3> HIDE DEF e
    <3> QED
      BY <1>0, <1>t, <1>k, <2>1, LeadsSays
  <2>4. Configured'
    BY <1>r, <2>1, <2>2, <2>3, ConfiguredStays
  <2>5. OfConfig'
    BY <1>r, <2>1, OfConfigStays
  <2> QED
    BY <1>r, <2>1, <2>2, <2>4, <2>5, BeginningStays DEF Ready
<1>3. CASE Receive
  <2>1. /\ encoder' = encoder \/ encoder' = [encoder EXCEPT !.wantKey = TRUE]
        /\ UNCHANGED <<wsConfig, down, peer, channel, rtc, rtcGen, page, keyLost>>
    BY <1>3 DEF Receive, pageSide, attempts, refused
  <2>2. encoder'.epoch = e /\ encoder'.frames = n
    BY <1>0, <1>t, <2>1 DEF Encoders
  <2>4. Configured'
    BY <1>r, <2>1, <2>2, ConfiguredStays
  <2>5. OfConfig'
    BY <1>r, <2>1, OfConfigStays
  <2> QED
    BY <1>r, <2>1, <2>2, <2>4, <2>5, BeginningStays DEF Ready
<1> QED
  BY <1>1, <1>2, <1>3

\* A frame goes to the hub, or down the socket behind its CONFIG.
LEMMA FrameSent ==
  ASSUME Inv, SendFrame
  PROVE  LET f == [epoch |-> encoder.epoch, n |-> encoder.frames, key |-> encoder.wantKey]
             c == Say("CONFIG", encoder.epoch)
         IN  /\ f \in Frame /\ f.epoch = encoder.epoch /\ f.n = encoder.frames /\ f.key = encoder.wantKey
             /\ encoder'.epoch = encoder.epoch /\ encoder'.frames = encoder.frames + 1 /\ ~encoder'.wantKey
             /\ UNCHANGED <<claim, peer, notices, up, channel, page, rtc, rtcGen, crossed>>
             /\ \/ /\ claim.active /\ UNCHANGED <<down, wsConfig>>
                   /\ \/ /\ mailbox' = Append(mailbox, Video(f)) /\ dropped' = dropped
                         /\ keyLost' = IF f.key THEN FALSE ELSE keyLost
                      \/ /\ mailbox' = mailbox /\ dropped' = Lost(f)
                         /\ keyLost' = IF f.key THEN TRUE ELSE keyLost
                \/ /\ ~claim.active /\ wsConfig' = encoder.epoch /\ UNCHANGED <<mailbox, dropped>>
                   /\ keyLost' = IF f.key THEN Unheard ELSE keyLost
                   /\ \/ wsConfig = encoder.epoch /\ down' = Append(down, Video(f))
                      \/ /\ wsConfig # encoder.epoch
                         /\ down' = Append(Append(down, c), Video(f)) /\ Append(down, c) \in Seq(Message)
<1> DEFINE e == encoder.epoch
           n == encoder.frames
           f == [epoch |-> e, n |-> n, key |-> encoder.wantKey]
           c == Say("CONFIG", e)
           v == Video(f)
           room == Len(mailbox) < MaxMail
<1>t. encoder \in Encoders /\ e \in Nat /\ n \in Nat /\ encoder.wantKey \in BOOLEAN /\ down \in Seq(Message)
  BY FrameFacts
<1>1. f \in Frame /\ f.epoch = e /\ f.n = n /\ f.key = encoder.wantKey
  BY <1>t DEF Frame
<1>2. c \in Message /\ v \in Message
  BY <1>t, <1>1, SayType, VideoType DEF AllKinds, ToPage
<1>3. /\ encoder' = [encoder EXCEPT !.frames = n + 1, !.wantKey = FALSE]
      /\ UNCHANGED <<claim, peer, notices, up, channel, pageSide>>
      /\ \/ /\ claim.active /\ UNCHANGED <<down, wsConfig>>
            /\ mailbox' = IF room THEN Append(mailbox, v) ELSE mailbox
            /\ dropped' = IF room THEN dropped ELSE Lost(f)
            /\ keyLost' = IF f.key THEN ~room ELSE keyLost
         \/ /\ ~claim.active /\ wsConfig' = e /\ UNCHANGED <<mailbox, dropped>>
            /\ keyLost' = IF f.key THEN Unheard ELSE keyLost
            /\ down' = (IF wsConfig = e THEN down ELSE Append(down, c)) \o <<v>>
  BY Zenon DEF SendFrame
<1>4. encoder'.epoch = e /\ encoder'.frames = n + 1 /\ ~encoder'.wantKey
  BY <1>t, <1>3 DEF Encoders
<1>5. UNCHANGED <<page, rtc, rtcGen, crossed>>
  BY <1>3 DEF pageSide, attempts
<1> HIDE DEF f, c, v, room
<1>6. Append(down, c) \in Seq(Message) /\ down \o <<v>> = Append(down, v) /\ Append(down, c) \o <<v>> = Append(Append(down, c), v)
  <2>1. Append(down, c) \in Seq(Message)
    BY <1>t, <1>2
  <2> QED
    BY <1>t, <1>2, <2>1, OneMore
<1>7. /\ UNCHANGED <<claim, peer, notices, up, channel, page, rtc, rtcGen, crossed>>
      /\ \/ /\ claim.active /\ UNCHANGED <<down, wsConfig>>
            /\ \/ /\ mailbox' = Append(mailbox, v) /\ dropped' = dropped
                  /\ keyLost' = IF f.key THEN FALSE ELSE keyLost
               \/ /\ mailbox' = mailbox /\ dropped' = Lost(f)
                  /\ keyLost' = IF f.key THEN TRUE ELSE keyLost
         \/ /\ ~claim.active /\ wsConfig' = e /\ UNCHANGED <<mailbox, dropped>>
            /\ keyLost' = IF f.key THEN Unheard ELSE keyLost
            /\ \/ wsConfig = e /\ down' = Append(down, v)
               \/ /\ wsConfig # e
                  /\ down' = Append(Append(down, c), v) /\ Append(down, c) \in Seq(Message)
  BY <1>3, <1>5, <1>6
<1> QED
  BY <1>1, <1>4, <1>7 DEF f, c, v

\* A frame is sent behind its CONFIG.
LEMMA SendReady ==
  ASSUME Inv, Attempts, InOrder, Ready, SendFrame
  PROVE  Ready'
<1> DEFINE e == encoder.epoch
           f == [epoch |-> e, n |-> encoder.frames, key |-> encoder.wantKey]
           c == Say("CONFIG", e)
           v == Video(f)
<1>t. e \in Nat /\ down \in Seq(Message)
  BY FrameFacts
<1>r. OfConfig /\ Configured /\ Beginning
  BY DEF Ready
<1>1. /\ f \in Frame /\ f.epoch = e
      /\ encoder'.epoch = e
      /\ UNCHANGED <<peer, channel, page, rtc, rtcGen>>
      /\ \/ claim.active /\ UNCHANGED <<down, wsConfig>>
         \/ /\ wsConfig' = e /\ keyLost' \in {keyLost, Unheard}
            /\ \/ wsConfig = e /\ down' = Append(down, v)
               \/ down' = Append(Append(down, c), v) /\ Append(down, c) \in Seq(Message)
  BY FrameSent
<1>2. /\ v \in Message /\ v.kind = "VIDEO" /\ v.frame = f
      /\ c \in Message /\ c.kind = "CONFIG" /\ c.of = e
  <2>1. v \in Message /\ c \in Message /\ c.kind = "CONFIG" /\ c.of = e
    BY <1>t, <1>1, SayType, VideoType DEF AllKinds, ToPage
  <2> QED
    BY <2>1 DEF Video
<1> HIDE DEF f, c, v
<1>3. OfConfig'
  BY <1>1, <1>r, OfConfigStays
<1>4. Configured'
  <2>1. CASE UNCHANGED <<down, wsConfig>>
    BY <1>1, <1>r, <2>1, ConfiguredStays
  <2>2. CASE page.stream = e
    BY <1>1, <2>2 DEF Configured
  <2>3. CASE page.stream # e /\ wsConfig = e /\ down' = Append(down, v)
    <3>1. Leads(down, e) /\ Says(down, "CONFIG", e)
      BY <1>r, <2>3 DEF Configured
    <3>2. Leads(down', e)
      BY <1>2, <1>t, <2>3, <3>1, LeadsAppended
    <3>3. Says(down', "CONFIG", e)
      BY <1>2, <1>t, <2>3, <3>1, SaysAppended
    <3> QED
      BY <1>1, <1>r, <2>3, <3>2, <3>3 DEF Configured
  <2>4. CASE page.stream # e /\ down' = Append(Append(down, c), v) /\ Append(down, c) \in Seq(Message)
    <3>1. Leads(down, e)
      BY <1>r, <2>4 DEF Configured
    <3> DEFINE q == Append(down, c)
    <3>2. Leads(q, e)
      BY <1>2, <1>t, <3>1, LeadsAppended
    <3>3. Says(q, "CONFIG", e)
      BY <1>2, <1>t, SaysAppended
    <3>4. q \in Seq(Message) /\ down' = Append(q, v)
      BY <2>4
    <3> HIDE DEF q
    <3>5. Leads(down', e)
      BY <1>2, <3>2, <3>3, <3>4, LeadsAppended
    <3>6. Says(down', "CONFIG", e)
      BY <1>2, <3>3, <3>4, SaysAppended
    <3> QED
      BY <1>1, <1>r, <2>4, <3>5, <3>6 DEF Configured
  <2> QED
    BY <1>1, <2>1, <2>2, <2>3, <2>4
<1>5. Beginning'
  <2>1. claim.active => rtcGen # 0
    BY UnderWay DEF Attempts, Served, None
  <2>2. rtcGen = 0 => ~Unheard
    BY UnderWay DEF Unheard, videoVia
  <2> QED
    BY <1>1, <1>r, <2>1, <2>2 DEF Beginning
<1> QED
  BY <1>3, <1>4, <1>5 DEF Ready

\* The hub's steps keep a CONFIG before its frames.
LEMMA HubReady ==
  ASSUME Inv, Attempts, InOrder, Ready, Hub
  PROVE  Ready'
<1> DEFINE e == encoder.epoch
           n == encoder.frames
<1>t. /\ peer \in Peers /\ encoder \in Encoders /\ peer.queue \in Seq(Message) /\ channel \in Seq(Message)
      /\ mailbox \in Seq(Message) /\ down \in Seq(Message) /\ notices \subseteq Nat /\ e > 0
  BY FrameFacts, UnderWay, OrderFacts
<1>r. OfConfig /\ Configured /\ Beginning
  BY DEF Ready
<1>p. NoPeer.queue = <<>> /\ NoPeer.config = None /\ ~NoPeer.open /\ NoPeer.g = None
  BY DEF NoPeer
<1>g. ASSUME NEW g
      PROVE  LET p == [NoPeer EXCEPT !.g = g] IN p.queue = <<>> /\ p.config = None /\ ~p.open
  BY DEF NoPeer, None
<1>w. ASSUME NEW kind \in {"answer", "close", "keyframe"}, NEW of \in Nat,
             down' = down \/ down' = Append(down, Say(kind, of))
      PROVE  /\ Leads(down, e) => Leads(down', e)
             /\ Says(down, "CONFIG", e) => Says(down', "CONFIG", e)
  <2>1. kind \in AllKinds \ {"VIDEO"}
    BY DEF AllKinds, ToPage
  <2> HIDE DEF e
  <2> QED
    BY <1>t, <1>w, <2>1, LeadsSays
<1>1. ASSUME UNCHANGED <<wsConfig, page, rtc, rtcGen, keyLost>>,
             encoder' = encoder \/ encoder' = [encoder EXCEPT !.wantKey = TRUE],
             Leads(down, e) => Leads(down', e),
             Says(down, "CONFIG", e) => Says(down', "CONFIG", e),
             \/ peer' = peer /\ channel' = channel
             \/ /\ peer'.queue = <<>> /\ ~peer'.open /\ channel' \in {channel, <<>>}
                /\ peer'.g # None /\ peer'.g = rtc.g => peer'.config = None
      PROVE  Ready'
  <2>1. encoder'.epoch = e /\ encoder'.frames = n
    BY <1>1, <1>t DEF Encoders
  <2>2. OfConfig'
    BY <1>1, <1>r DEF OfConfig, Carries
  <2>3. Configured'
    BY <1>1, <1>r, <2>1, ConfiguredStays
  <2> QED
    BY <1>1, <1>r, <2>1, <2>2, <2>3, BeginningStays DEF Ready
<1>2. CASE TakeMail
  <2> DEFINE m == Head(mailbox)
             g == m.of
  <2>1. /\ mailbox # <<>> /\ mailbox' = Tail(mailbox) /\ m \in Message
        /\ UNCHANGED <<wsConfig, channel, page, rtc, rtcGen, keyLost>>
        /\ \/ m.kind = "offer" /\ TakeOffer(g)
           \/ m.kind = "VIDEO" /\ TakeFrame(m.frame)
           \/ m.kind = "close" /\ TakeClose(g)
    BY <1>2, MailCases DEF pageSide, attempts
  <2>2. g \in Nat /\ m.frame \in Frame
    BY <2>1 DEF Message
  <2> HIDE DEF m, g
  <2>3. CASE TakeFrame(m.frame)
    <3>1. /\ UNCHANGED <<encoder, down>>
          /\ peer' = peer \/ (peer.open /\ peer' = Enqueue(peer, m.frame))
      BY <2>3 DEF TakeFrame
    <3>2. CASE peer' = peer
      BY <1>1, <2>1, <3>1, <3>2
    <3>3. CASE peer.open /\ peer' = Enqueue(peer, m.frame)
      <4>1. peer'.open /\ peer'.g = peer.g
        BY <1>t, <2>2, <3>3, EnqueueType
      <4>2. OfConfig'
        BY <1>r, <1>t, <2>1, <2>2, <3>3, <4>1, EnqueueReady DEF OfConfig
      <4>3. Announced(channel, peer.queue, peer.config, e) =>
              Announced(channel, peer'.queue, peer'.config, e)
        BY <1>t, <2>2, <3>3, EnqueueReady
      <4>4. Configured'
        BY <1>r, <2>1, <3>1, <3>3, <4>1, <4>3 DEF Configured
      <4> QED
        BY <1>r, <2>1, <3>1, <4>2, <4>4, BeginningStays DEF Ready
    <3> QED
      BY <3>1, <3>2, <3>3
  <2>4. CASE TakeOffer(g)
    <3>1. /\ UNCHANGED encoder
          /\ down' = down \/ down' = Append(down, Say("answer", g)) \/ down' = Append(down, Say("close", g))
          /\ peer' = NoPeer \/ peer' = [NoPeer EXCEPT !.g = g]
      BY <2>4 DEF TakeOffer
    <3>2. peer'.queue = <<>> /\ peer'.config = None /\ ~peer'.open
      BY <1>p, <1>g, <3>1
    <3>3. /\ Leads(down, e) => Leads(down', e)
          /\ Says(down, "CONFIG", e) => Says(down', "CONFIG", e)
      BY <1>w, <2>2, <3>1
    <3> QED
      BY <1>1, <2>1, <3>1, <3>2, <3>3
  <2>5. CASE TakeClose(g)
    <3>1. /\ peer' = NoPeer \/ peer' = peer
          /\ \/ UNCHANGED <<encoder, down>>
             \/ encoder' = [encoder EXCEPT !.wantKey = TRUE] /\ down' = Append(down, Say("keyframe", g))
      BY <2>5 DEF TakeClose, Reply
    <3>2. peer' = peer \/ (peer'.queue = <<>> /\ peer'.config = None /\ ~peer'.open)
      BY <1>p, <3>1
    <3>3. /\ Leads(down, e) => Leads(down', e)
          /\ Says(down, "CONFIG", e) => Says(down', "CONFIG", e)
      BY <1>w, <2>2, <3>1
    <3> QED
      BY <1>1, <2>1, <3>1, <3>2, <3>3
  <2> QED
    BY <2>1, <2>3, <2>4, <2>5
<1>3. CASE ChannelOpen
  <2>1. /\ peer.opening /\ peer' = [peer EXCEPT !.opening = FALSE, !.open = TRUE]
        /\ UNCHANGED <<encoder, wsConfig, down, channel, page, rtc, rtcGen, keyLost>>
    BY <1>3 DEF ChannelOpen, server, pageSide, attempts, refused
  <2>2. peer'.queue = peer.queue /\ peer'.config = peer.config /\ peer'.g = peer.g /\ peer'.open
    BY <1>t, <2>1 DEF Peers
  <2>3. ~peer.open /\ peer.g # None /\ channel = <<>>
    BY <2>1 DEF Attempts, Served, ChannelIsCurrent
  <2>4. peer.queue = <<>> /\ (peer.g = rtc.g => peer.config = None)
    BY <1>r, <2>1, <2>3 DEF OfConfig
  <2>5. Announced(<<>>, <<>>, None, e)
    BY <1>t, NothingFollows DEF Announced, None
  <2>6. OfConfig'
    BY <1>r, <2>1, <2>2, <2>4 DEF OfConfig, Carries
  <2>7. Configured'
    BY <1>r, <2>1, <2>2, <2>3, <2>4, <2>5 DEF Configured
  <2> QED
    BY <1>r, <2>1, <2>6, <2>7, BeginningStays DEF Ready
<1>4. CASE ChannelClose
  <2>1. /\ peer' = [peer EXCEPT !.open = FALSE, !.queue = <<>>] /\ rtc.g # peer.g
        /\ UNCHANGED <<encoder, wsConfig, down, channel, page, rtc, rtcGen, keyLost>>
    BY <1>4 DEF ChannelClose, server, pageSide, attempts, refused
  <2>2. peer'.queue = <<>> /\ ~peer'.open /\ peer'.g # rtc.g
    BY <1>t, <2>1 DEF Peers
  <2> QED
    BY <1>1, <2>1, <2>2
<1>5. CASE PeerDies
  <2>1. /\ peer' = NoPeer /\ channel' \in {channel, <<>>}
        /\ UNCHANGED <<encoder, wsConfig, down, page, rtc, rtcGen, keyLost>>
    BY <1>5 DEF PeerDies, server, pageSide, attempts, refused
  <2> QED
    BY <1>1, <1>p, <2>1
<1>6. CASE Notice
  <2>1. /\ \E g \in notices : down' = Append(down, Say("close", g))
        /\ UNCHANGED <<encoder, wsConfig, peer, channel, page, rtc, rtcGen, keyLost>>
    BY <1>6 DEF Notice, server, pageSide, attempts, refused
  <2>2. PICK g \in Nat : down' = Append(down, Say("close", g))
    BY <1>t, <2>1
  <2>3. /\ Leads(down, e) => Leads(down', e)
        /\ Says(down, "CONFIG", e) => Says(down', "CONFIG", e)
    BY <1>w, <2>2
  <2> QED
    BY <1>1, <2>1, <2>3
<1>7. CASE Flush
  <2> DEFINE m == Head(peer.queue)
             t == Tail(peer.queue)
  <2>1. /\ peer.open /\ peer.queue # <<>> /\ peer' = [peer EXCEPT !.queue = t]
        /\ channel' = IF rtc.g = peer.g THEN Append(channel, m) ELSE channel
        /\ UNCHANGED <<encoder, wsConfig, down, page, rtc, rtcGen, keyLost>>
    BY <1>7 DEF Flush, server, pageSide, attempts, refused
  <2>2. peer'.queue = t /\ peer'.config = peer.config /\ peer'.g = peer.g /\ peer'.open
    BY <1>t, <2>1 DEF Peers
  <2>3. /\ m \in Message /\ m = peer.queue[1] /\ 1 \in DOMAIN peer.queue
        /\ \A i \in DOMAIN t : i + 1 \in DOMAIN peer.queue /\ t[i] = peer.queue[i + 1]
    BY <1>t, <2>1, TailFacts
  <2>4. Announced(channel, peer.queue, peer.config, e) => Announced(Append(channel, m), t, peer.config, e)
    BY <1>t, <2>1, FlushReady
  <2> HIDE DEF m, t
  <2>5. m.kind \in {"CONFIG", "VIDEO"}
    BY <1>r, <2>3 DEF OfConfig
  <2>6. Carries(channel', {"CONFIG", "VIDEO"})
    <3>1. Carries(channel, {"CONFIG", "VIDEO"})
      BY <1>r DEF OfConfig
    <3>2. Carries(Append(channel, m), {"CONFIG", "VIDEO"})
      BY <1>t, <2>3, <2>5, <3>1, AppendFacts
    <3> QED
      BY <2>1, <3>1, <3>2
  <2>7. OfConfig'
    BY <1>r, <2>1, <2>2, <2>3, <2>6 DEF OfConfig
  <2>8. Configured'
    BY <1>r, <2>1, <2>2, <2>4 DEF Configured
  <2> QED
    BY <1>r, <2>1, <2>7, <2>8, BeginningStays DEF Ready
<1> QED
  BY <1>2, <1>3, <1>4, <1>5, <1>6, <1>7 DEF Hub

\* Attempts of the page are numbered upwards.
LEMMA AttemptMoves ==
  ASSUME Inv, MaybeRtc(FALSE) \/ MaybeRtc(TRUE) \/ CloseRtc \/ FailRtc
  PROVE  /\ rtc' = rtc \/ rtc' = NoRtc \/ (rtc = NoRtc /\ rtcGen' = rtcGen + 1)
         /\ rtc'.g = rtc.g \/ rtc'.g # peer.g \/ peer.g = None
         /\ rtcGen' = rtcGen \/ (rtc = NoRtc /\ rtcGen' = rtcGen + 1)
         /\ rtcGen' = 0 => rtcGen = 0
<1>1. peer.g <= Sent /\ Sent <= rtcGen /\ peer.g \in Nat /\ Sent \in Nat /\ rtcGen \in Nat
  BY UnderWay
<1>2. CASE UNCHANGED attempts
  BY <1>2 DEF attempts
<1>3. CASE rtc = NoRtc /\ rtcGen' = rtcGen + 1 /\ rtc' = [g |-> rtcGen + 1, at |-> "offering"]
  <2>1. rtc'.g = rtcGen + 1
    BY <1>3
  <2> QED
    BY <1>1, <1>3, <2>1
<1>4. CASE rtc' = NoRtc /\ rtcGen' = rtcGen
  BY <1>1, <1>4, NoRtcType DEF None
<1> QED
  BY <1>2, <1>3, <1>4 DEF MaybeRtc, CloseRtc, FailRtc

\* The page's steps do, too.
LEMMA PageReady ==
  ASSUME Inv, Attempts, InOrder, Ready,
         \/ FromSocket \/ FromChannel \/ SendOffer \/ OnOpen \/ GiveUp \/ Retry
         \/ \E t \in {"websocket", "webrtc"} \ {picked} : SetTransport(t)
  PROVE  Ready'
<1> DEFINE e == encoder.epoch
           n == encoder.frames
<1>t. /\ page \in Pages /\ rtc \in Rtcs /\ down \in Seq(Message) /\ channel \in Seq(Message)
      /\ e \in Nat /\ page.stream <= e /\ page.told <= e /\ page.stream \in Nat /\ page.told \in Nat
  BY FrameFacts, UnderWay, OrderFacts
<1>r. OfConfig /\ Configured /\ Beginning
  BY DEF Ready
<1>s. peer.open => peer.g # None
  BY DEF Attempts, Served
<1>1. ASSUME UNCHANGED <<encoder, wsConfig, peer, keyLost>>,
             rtc'.g = rtc.g \/ rtc'.g # peer.g \/ peer.g = None, rtcGen' = 0 => rtcGen = 0,
             page.stream = e => page'.stream = e,
             \/ page'.stream = e
             \/ /\ Leads(down, e) => Leads(down', e)
                /\ Says(down, "CONFIG", e) => Says(down', "CONFIG", e),
             channel' = channel \/ channel' = <<>>,
             rtc'.g = rtc.g => page'.stream = e \/ channel' = channel
      PROVE  Ready'
  <2>1. OfConfig'
    BY <1>1, <1>r, OfConfigStays
  <2>2. Configured'
    BY <1>1, <1>r, <1>s, ConfiguredStays
  <2> QED
    BY <1>1, <1>r, <2>1, <2>2, BeginningStays DEF Ready
<1>2. CASE FromSocket
  <2> DEFINE m == Head(down)
  <2>1. /\ down # <<>> /\ down' = Tail(down)
        /\ UNCHANGED <<wsConfig, encoder, peer, keyLost>>
    BY <1>2, SocketCases DEF server, hub, refused
  <2>2. m \in Message /\ m.of \in Nat
    <3>1. m \in Message
      BY <1>t, <2>1, TailFacts
    <3> QED
      BY <3>1 DEF Message
  <2>3. ~(m.kind = "CONFIG" /\ m.of = e) =>
          /\ Leads(down, e) => Leads(down', e)
          /\ Says(down, "CONFIG", e) => Says(down', "CONFIG", e)
    <3>1. Leads(down, e) /\ ~(m.kind = "CONFIG" /\ m.of = e) => Leads(down', e)
      BY <1>t, <2>1, LeadsTaken
    <3>2. Says(down, "CONFIG", e) <=> Says(down', "CONFIG", e) \/ (m.kind = "CONFIG" /\ m.of = e)
      BY <1>t, <2>1, SaysTaken
    <3> QED
      BY <3>1, <3>2
  <2>4. m.kind = "CONFIG" => m.of <= e
    BY <1>t, <2>1, OrderFacts, LineTaken
  <2>5. CASE m.kind = "CONFIG" /\ OnConfig(m.of, "websocket")
    <3>1. \/ (m.of < page.told \/ m.of <= page.stream) /\ UNCHANGED <<page, attempts, channel>>
          \/ /\ page.stream < m.of /\ page'.stream = m.of
             /\ \/ MaybeRtc(FALSE) /\ channel' = channel
                \/ rtc.at = "open" /\ FailRtc
      BY <2>2, <2>5, ConfigSeen DEF Begins
    <3>2. CASE (m.of < page.told \/ m.of <= page.stream) /\ UNCHANGED <<page, attempts, channel>>
      <4>1. m.of = e => page.stream = e
        BY <1>t, <2>2, <3>2
      <4>2. /\ rtc' = rtc /\ rtcGen' = rtcGen
        BY <3>2 DEF attempts
      <4> QED
        BY <1>1, <2>1, <2>3, <3>2, <4>1, <4>2
    <3>3. CASE page.stream < m.of /\ page'.stream = m.of /\ MaybeRtc(FALSE) /\ channel' = channel
      <4>1. page.stream = e => page'.stream = e
        BY <1>t, <2>2, <2>4, <2>5, <3>3
      <4>2. m.of = e => page'.stream = e
        BY <3>3
      <4> QED
        BY <1>1, <2>1, <2>3, <3>3, <4>1, <4>2, AttemptMoves
    <3>4. CASE page.stream < m.of /\ page'.stream = m.of /\ rtc.at = "open" /\ FailRtc
      <4>1. page.stream = e => page'.stream = e
        BY <1>t, <2>2, <2>4, <2>5, <3>4
      <4>2. m.of = e => page'.stream = e
        BY <3>4
      <4>3. rtc'.g # rtc.g /\ channel' = <<>>
        BY <3>4, UnderWay, NoRtcType DEF FailRtc
      <4> QED
        BY <1>1, <2>1, <2>3, <3>4, <4>1, <4>2, <4>3, AttemptMoves
    <3> QED
      BY <3>1, <3>2, <3>3, <3>4
  <2>6. CASE m.kind # "CONFIG"
    <3>1. page'.stream = page.stream
      <4>1. \/ page' = page \/ page' = [page EXCEPT !.told = m.of] \/ page' = [page EXCEPT !.awaiting = TRUE]
            \/ Decoder(m)
        BY <1>2, <2>6, SocketCases
      <4>2. Decoder(m) => page'.stream = page.stream
        BY <2>2, VideoSeen
      <4> QED
        BY <1>t, <4>1, <4>2 DEF Pages
    <3>2. \/ UNCHANGED <<attempts, channel>>
          \/ MaybeRtc(FALSE) /\ channel' = channel
          \/ rtc' = [rtc EXCEPT !.at = IF rtc.at = "offered" THEN "answered" ELSE rtc.at] /\ UNCHANGED <<rtcGen, channel>>
          \/ rtc # NoRtc /\ FailRtc
          \/ rtc = NoRtc /\ UNCHANGED <<attempts, channel>>
          \/ FailRtc
      BY <1>2, <2>6, SocketCases
    <3>3. CASE UNCHANGED <<attempts, channel>>
      <4>1. rtc' = rtc /\ rtcGen' = rtcGen
        BY <3>3 DEF attempts
      <4> QED
        BY <1>1, <2>1, <2>3, <2>6, <3>1, <3>3, <4>1
    <3>4. CASE MaybeRtc(FALSE) /\ channel' = channel
      BY <1>1, <2>1, <2>3, <2>6, <3>1, <3>4, AttemptMoves
    <3>5. CASE rtc' = [rtc EXCEPT !.at = IF rtc.at = "offered" THEN "answered" ELSE rtc.at] /\ UNCHANGED <<rtcGen, channel>>
      <4>1. rtc'.g = rtc.g
        BY <1>t, <3>5 DEF Rtcs
      <4> QED
        BY <1>1, <2>1, <2>3, <2>6, <3>1, <3>5, <4>1
    <3>6. CASE FailRtc
      <4>1. channel' = <<>> /\ (rtc'.g = rtc.g => channel = <<>>)
        <5>1. rtc'.g = 0 /\ channel' = <<>>
          BY <3>6, NoRtcType DEF FailRtc
        <5>2. rtc.g = 0 => channel = <<>>
          BY UnderWay DEF Attempts, ChannelIsCurrent, None
        <5> QED
          BY <5>1, <5>2
      <4> QED
        BY <1>1, <2>1, <2>3, <2>6, <3>1, <3>6, <4>1, AttemptMoves
    <3> QED
      BY <3>2, <3>3, <3>4, <3>5, <3>6
  <2> QED
    BY <1>2, <2>5, <2>6, SocketCases
<1>3. CASE FromChannel
  <2> DEFINE m == Head(channel)
  <2>1. /\ channel # <<>> /\ channel' = Tail(channel)
        /\ UNCHANGED <<wsConfig, encoder, peer, down, rtc, rtcGen, keyLost>>
        /\ m.kind # "CONFIG" => Decoder(m)
    BY <1>3, Zenon DEF FromChannel, server, hub, attempts, refused
  <2>2. m \in Message /\ Carries(channel', {"CONFIG", "VIDEO"})
    BY <1>t, <1>r, <2>1, TailFacts, TailCarries DEF OfConfig
  <2>3. m.of \in Nat
    BY <2>2 DEF Message
  <2>4. m.kind = "CONFIG" => m.of <= e
    BY <1>t, <2>1, OrderFacts, LineTaken
  <2>5. /\ page.stream = e => page'.stream = e
        /\ m.kind = "CONFIG" /\ m.of = e => page'.stream = e
    <3>1. CASE m.kind = "CONFIG"
      <4>1. \/ (m.of < page.told \/ m.of <= page.stream) /\ page' = page
            \/ page.stream < m.of /\ page'.stream = m.of
        BY <1>3, <3>1, ChannelConfig DEF Begins
      <4> QED
        BY <1>t, <2>3, <2>4, <3>1, <4>1
    <3>2. CASE m.kind # "CONFIG"
      BY <2>1, <2>2, <3>2, VideoSeen
    <3> QED
      BY <3>1, <3>2
  <2>6. OfConfig'
    BY <1>r, <2>1, <2>2 DEF OfConfig
  <2>7. Configured'
    <3>1. Announced(channel, peer.queue, peer.config, e) /\ ~(m.kind = "CONFIG" /\ m.of = e) =>
            Announced(channel', peer.queue, peer.config, e)
      BY <1>t, <2>1, TakenReady
    <3> QED
      BY <1>r, <2>1, <2>5, <3>1 DEF Configured
  <2> QED
    BY <1>r, <2>1, <2>6, <2>7, BeginningStays DEF Ready
<1>4. CASE \/ SendOffer \/ OnOpen \/ GiveUp \/ Retry
           \/ \E t \in {"websocket", "webrtc"} \ {picked} : SetTransport(t)
  <2>1. UNCHANGED <<wsConfig, encoder, peer, down, keyLost>>
    BY <1>4 DEF SendOffer, OnOpen, GiveUp, Retry, SetTransport, server, hub, refused
  <2>2. page'.stream = page.stream
    <3>1. page' = page \/ page' = [page EXCEPT !.awaiting = TRUE]
      BY <1>4 DEF SendOffer, OnOpen, GiveUp, Retry, SetTransport
    <3> QED
      BY <1>t, <3>1 DEF Pages
  <2>3. \/ /\ rtc' = [rtc EXCEPT !.at = "offered"] \/ rtc' = [rtc EXCEPT !.at = "open"]
           /\ UNCHANGED <<rtcGen, channel>>
        \/ (MaybeRtc(FALSE) \/ MaybeRtc(TRUE)) /\ channel' = channel
        \/ (CloseRtc \/ FailRtc) /\ channel' = <<>>
    BY <1>4 DEF SendOffer, OnOpen, GiveUp, Retry, SetTransport, CloseRtc, FailRtc
  <2>4. CASE /\ rtc' = [rtc EXCEPT !.at = "offered"] \/ rtc' = [rtc EXCEPT !.at = "open"]
             /\ UNCHANGED <<rtcGen, channel>>
    <3>1. rtc'.g = rtc.g
      BY <1>t, <2>4 DEF Rtcs
    <3> QED
      BY <1>1, <2>1, <2>2, <2>4, <3>1
  <2>5. CASE (MaybeRtc(FALSE) \/ MaybeRtc(TRUE)) /\ channel' = channel
    BY <1>1, <2>1, <2>2, <2>5, AttemptMoves
  <2>6. CASE (CloseRtc \/ FailRtc) /\ channel' = <<>>
    <3>1. rtc'.g = rtc.g => channel = <<>>
      <4>1. rtc'.g = 0
        BY <2>6, NoRtcType DEF FailRtc, CloseRtc
      <4>2. rtc.g = 0 => channel = <<>>
        BY UnderWay DEF Attempts, ChannelIsCurrent, None
      <4> QED
        BY <4>1, <4>2
    <3> QED
      BY <1>1, <2>1, <2>2, <2>6, <3>1, AttemptMoves
  <2> QED
    BY <2>3, <2>4, <2>5, <2>6
<1> QED
  BY <1>2, <1>3, <1>4

\* It holds initially.
LEMMA InitReady == Init => Ready
<1> SUFFICES ASSUME Init PROVE Ready
  OBVIOUS
<1>1. /\ encoder = NewEncoder(1) /\ wsConfig = 0 /\ peer = NoPeer /\ channel = <<>> /\ ~keyLost
      /\ down = <<Say("RTC_CONFIG", None), Say("STREAM_STATE", 1)>>
  BY DEF Init, None
<1>2. encoder.epoch = 1 /\ encoder.frames = 0 /\ peer.queue = <<>> /\ peer.g = None /\ ~peer.open
  BY <1>1, FirstNumbers
<1>3. Leads(down, 1)
  BY <1>1, FirstWords, LeadsNobody
<1> QED
  BY <1>1, <1>2, <1>3 DEF Ready, OfConfig, Configured, Beginning, Carries

\* Every step keeps the CONFIG first.
LEMMA NextReady == Inv /\ Attempts /\ InOrder /\ Ready /\ [Next]_vars => Ready'
<1> SUFFICES ASSUME Inv, Attempts, InOrder, Ready, [Next]_vars PROVE Ready'
  OBVIOUS
<1>1. CASE Reconnect
  <2>1. /\ encoder' = NewEncoder(1) /\ wsConfig' = 0 /\ peer' = NoPeer /\ channel' = <<>> /\ ~keyLost'
        /\ down' = <<Say("RTC_CONFIG", None), Say("STREAM_STATE", 1)>>
    BY <1>1 DEF Reconnect, CloseRtc, None
  <2>2. encoder'.epoch = 1 /\ encoder'.frames = 0 /\ peer'.queue = <<>> /\ peer'.g = None /\ ~peer'.open
    BY <2>1, FirstNumbers
  <2>3. Leads(down', 1)
    BY <2>1, FirstWords, LeadsNobody
  <2> QED
    BY <2>1, <2>2, <2>3 DEF Ready, OfConfig, Configured, Beginning, Carries
<1>2. CASE UNCHANGED vars
  <2>1. UNCHANGED <<encoder, wsConfig, peer, down, channel, page, rtc, rtcGen, keyLost>>
    BY <1>2 DEF vars, server, hub, pageSide, attempts, refused
  <2> QED
    BY <2>1 DEF Ready, OfConfig, Configured, Beginning, Carries
<1>3. CASE Session
  BY <1>3, SessionReady, SendReady DEF Session
<1>4. CASE Hub
  BY <1>4, HubReady
<1>5. CASE \/ FromSocket \/ FromChannel \/ SendOffer \/ OnOpen \/ GiveUp \/ Retry
           \/ \E t \in {"websocket", "webrtc"} \ {picked} : SetTransport(t)
  BY <1>5, PageReady
<1>6. CASE Connect
  <2>1. /\ rtc.at = "answered" /\ peer.g = rtc.g
        /\ rtc' = [rtc EXCEPT !.at = "connected"] /\ peer' = [peer EXCEPT !.opening = TRUE]
        /\ UNCHANGED <<encoder, wsConfig, down, channel, page, rtcGen, keyLost>>
    BY <1>6 DEF Connect, server, refused
  <2>2. /\ peer'.queue = peer.queue /\ peer'.config = peer.config /\ peer'.g = peer.g
        /\ peer'.open = peer.open /\ rtc'.g = rtc.g
    BY <2>1, UnderWay DEF Peers, Rtcs
  <2> QED
    BY <2>1, <2>2 DEF Ready, OfConfig, Configured, Beginning, Carries
<1> QED
  BY <1>1, <1>2, <1>3, <1>4, <1>5, <1>6 DEF Next, Page

-----------------------------------------------------------------------------
(* Nothing stays lost: what the page lacks is under way, or the encoder owes *)
(* it a key.                                                                *)

\* What the decoder counts was sent, and its last frame is of its stream.
PageBounds ==
  /\ page.stream = encoder.epoch => page.seq < encoder.frames
  /\ page.last # NoFrame => page.last.epoch = page.stream /\ page.last.n <= page.seq

Bounded == ~crossed => PageBounds

\* The page goes on with what it has.
LEMMA BoundsStay ==
  ASSUME Inv, Bounded, crossed => crossed', page'.stream = page.stream, page'.seq = page.seq, page'.last = page.last,
         encoder'.epoch = encoder.epoch, encoder'.frames = encoder.frames \/ encoder'.frames = encoder.frames + 1
  PROVE  Bounded'
<1>1. page.seq \in Int /\ encoder.frames \in Nat
  BY FrameFacts
<1> QED
  BY <1>1 DEF Bounded, PageBounds

\* A new stream counts from before its first frame.
LEMMA BoundsBegin ==
  ASSUME Inv, NEW a, Begins(a), encoder' = encoder
  PROVE  Bounded'
<1>1. encoder.frames \in Nat
  BY FrameFacts
<1> QED
  BY <1>1 DEF Begins, Bounded, PageBounds

\* A frame that was sent is within the bounds.
LEMMA BoundsSeen ==
  ASSUME Inv, Bounded, NEW m \in Message, Decoder(m), Sound(m.frame, encoder.epoch, encoder.frames),
         encoder' = encoder
  PROVE  Bounded'
<1> DEFINE f == m.frame
<1>1. f \in Frame /\ f.n \in Nat /\ page.seq \in Int /\ page.last \in Frame /\ f.epoch \in Nat
  BY FrameFacts DEF Message, Frame
<1>2. page'.stream = page.stream /\ (Passed(f) \/ Seen(f))
  BY VideoSeen
<1>3. CASE Passed(f)
  BY <1>3, BoundsStay DEF Passed
<1>4. CASE Seen(f)
  <2> SUFFICES ASSUME ~crossed' PROVE PageBounds'
    BY DEF Bounded
  <2>1. ~crossed /\ f.epoch = page.stream /\ page'.seq = f.n /\ ~Late(f)
        /\ page'.last \in {page.last, NoFrame, f}
    BY <1>4 DEF Seen
  <2>2. page.seq < f.n
    BY <1>1, <2>1 DEF Late
  <2>3. page'.stream = encoder.epoch => f.n < encoder.frames
    <3>1. encoder.epoch \in Nat
      BY FrameFacts
    <3> QED
      BY <1>1, <1>2, <2>1, <3>1 DEF Sound
  <2>4. page'.last # NoFrame => page'.last.epoch = page.stream /\ page'.last.n <= f.n
    <3>1. PageBounds
      BY <2>1 DEF Bounded
    <3>2. page.last.n \in Nat
      BY <1>1 DEF Frame
    <3> QED
      BY <1>1, <2>1, <2>2, <3>1, <3>2 DEF PageBounds
  <2> QED
    BY <1>2, <2>1, <2>3, <2>4 DEF PageBounds
<1> QED
  BY <1>2, <1>3, <1>4

\* What a step may do to the decoder, and to what it is told by.
LEMMA PageSees ==
  ASSUME Inv, Attempts, InOrder, Ready, [Next]_vars
  PROVE  \/ Reconnect
         \/ /\ encoder'.epoch = encoder.epoch + 1 /\ page' = page /\ crossed' = crossed
         \/ /\ encoder'.epoch = encoder.epoch
            /\ encoder'.frames = encoder.frames \/ encoder'.frames = encoder.frames + 1
            /\ page'.stream = page.stream /\ page'.seq = page.seq /\ page'.last = page.last /\ crossed' = crossed
         \/ /\ encoder' = encoder /\ crossed' = crossed /\ \E a \in Nat : Begins(a)
         \/ /\ encoder' = encoder
            /\ \E m \in Message : Decoder(m) /\ Sound(m.frame, encoder.epoch, encoder.frames)
<1>t. /\ page \in Pages /\ down \in Seq(Message) /\ channel \in Seq(Message)
      /\ encoder \in Encoders /\ encoder.epoch \in Nat /\ encoder.frames \in Nat
      /\ Line(down, encoder.epoch, encoder.frames) /\ Line(channel, encoder.epoch, encoder.frames)
  BY FrameFacts, OrderFacts
<1>1. CASE Restart
  <2>1. encoder' = NewEncoder(encoder.epoch + 1) /\ UNCHANGED <<page, crossed>>
    BY <1>1 DEF Restart, pageSide, NewEncoder
  <2> QED
    BY <2>1 DEF NewEncoder
<1>2. CASE Info \/ Receive \/ Hub
  <2>1. /\ \/ encoder' = encoder \/ encoder' = [encoder EXCEPT !.wantKey = TRUE]
           \/ encoder' = [encoder EXCEPT !.announced = TRUE]
        /\ UNCHANGED <<page, crossed>>
    <3>1. CASE Info \/ Receive
      BY <3>1 DEF Info, Receive, pageSide
    <3>2. CASE TakeMail
      BY <3>2, MailCases DEF TakeOffer, TakeFrame, TakeClose, Reply, pageSide
    <3>3. CASE ChannelOpen \/ ChannelClose \/ Flush \/ PeerDies \/ Notice
      BY <3>3 DEF ChannelOpen, ChannelClose, Flush, PeerDies, Notice, server, pageSide
    <3> QED
      BY <1>2, <3>1, <3>2, <3>3 DEF Hub
  <2>2. encoder'.epoch = encoder.epoch /\ encoder'.frames = encoder.frames
    BY <1>t, <2>1 DEF Encoders
  <2> QED
    BY <2>1, <2>2
<1>3. CASE SendFrame
  <2>1. /\ encoder'.epoch = encoder.epoch /\ encoder'.frames = encoder.frames + 1 /\ UNCHANGED <<page, crossed>>
    BY <1>3, FrameSent
  <2> QED
    BY <2>1
<1>4. CASE \/ SendOffer \/ OnOpen \/ GiveUp \/ Retry
           \/ \E t \in {"websocket", "webrtc"} \ {picked} : SetTransport(t)
  <2>1. encoder' = encoder /\ crossed' = crossed /\ (page' = page \/ page' = [page EXCEPT !.awaiting = TRUE])
    BY <1>4 DEF SendOffer, OnOpen, GiveUp, Retry, SetTransport, server
  <2> QED
    BY <1>t, <2>1 DEF Pages
<1>5. CASE FromSocket
  <2> DEFINE m == Head(down)
  <2>1. down # <<>> /\ encoder' = encoder
    BY <1>5, SocketCases DEF server
  <2>2. m \in Message
    BY <1>t, <2>1, TailFacts
  <2>3. m.of \in Nat
    BY <2>2 DEF Message
  <2>4. m.kind = "VIDEO" => Sound(m.frame, encoder.epoch, encoder.frames)
    BY <1>t, <2>1, LineTaken
  <2>5. CASE m.kind = "VIDEO" /\ Decoder(m)
    BY <2>1, <2>2, <2>4, <2>5
  <2>6. CASE OnConfig(m.of, "websocket") /\ crossed' = crossed
    <3>1. page' = page \/ Begins(m.of)
      BY <2>3, <2>6, ConfigSeen
    <3> QED
      BY <2>1, <2>3, <2>6, <3>1
  <2>7. CASE /\ page' = page \/ page' = [page EXCEPT !.told = m.of] \/ page' = [page EXCEPT !.awaiting = TRUE]
             /\ crossed' = crossed
    BY <1>t, <2>1, <2>7 DEF Pages
  <2> QED
    BY <1>5, <2>5, <2>6, <2>7, SocketCases
<1>6. CASE FromChannel
  <2> DEFINE m == Head(channel)
  <2>1. channel # <<>> /\ encoder' = encoder /\ (m.kind # "CONFIG" => Decoder(m))
    BY <1>6, Zenon DEF FromChannel, server
  <2>2. m \in Message /\ m.kind \in {"CONFIG", "VIDEO"}
    BY <1>t, <2>1, TailCarries DEF Ready, OfConfig
  <2>3. m.of \in Nat
    BY <2>2 DEF Message
  <2>4. m.kind = "VIDEO" => Sound(m.frame, encoder.epoch, encoder.frames)
    BY <1>t, <2>1, LineTaken
  <2>5. CASE m.kind = "CONFIG"
    <3>1. crossed' = crossed /\ (page' = page \/ Begins(m.of))
      BY <1>6, <2>5, ChannelConfig
    <3> QED
      BY <2>1, <2>3, <3>1
  <2>6. CASE m.kind = "VIDEO"
    BY <2>1, <2>2, <2>4, <2>6
  <2> QED
    BY <2>2, <2>5, <2>6
<1>7. CASE UNCHANGED vars
  BY <1>7 DEF vars, server, pageSide
<1>8. CASE Connect
  BY <1>8 DEF Connect, server
<1> QED
  BY <1>1, <1>2, <1>3, <1>4, <1>5, <1>6, <1>7, <1>8 DEF Next, Session, Page

\* The bounds hold initially.
LEMMA InitBounds == Init => Bounded
BY FirstNumbers DEF Init, Bounded, PageBounds

\* Every step keeps the bounds.
LEMMA NextBounds == Inv /\ Attempts /\ InOrder /\ Ready /\ Bounded /\ [Next]_vars => Bounded'
<1> SUFFICES ASSUME Inv, Attempts, InOrder, Ready, Bounded, [Next]_vars PROVE Bounded'
  OBVIOUS
<1>1. CASE Reconnect
  <2>1. encoder' = NewEncoder(1) /\ page' = FreshPage
    BY <1>1 DEF Reconnect
  <2> QED
    BY <2>1, FirstNumbers DEF Bounded, PageBounds
<1>2. CASE encoder'.epoch = encoder.epoch + 1 /\ page' = page /\ crossed' = crossed
  <2>1. page.stream # encoder.epoch + 1
    BY OrderFacts, FrameFacts
  <2> QED
    BY <1>2, <2>1 DEF Bounded, PageBounds
<1>3. CASE encoder' = encoder /\ \E a \in Nat : Begins(a)
  BY <1>3, BoundsBegin
<1>4. CASE encoder' = encoder /\ \E m \in Message : Decoder(m) /\ Sound(m.frame, encoder.epoch, encoder.frames)
  BY <1>4, BoundsSeen
<1> QED
  BY <1>1, <1>2, <1>3, <1>4, BoundsStay, PageSees

-----------------------------------------------------------------------------
(* What waits. *)

\* The session sends the hub nothing behind a close before it is acknowledged.
CloseIsLast == \A i \in DOMAIN mailbox : mailbox[i].kind = "close" => waiting /\ i = Len(mailbox)

\* With no claim no frame is on its way to the hub, and a page that takes no more video
\* from the socket while the hub knows of no channel has asked for a key.
Waits ==
  /\ CloseIsLast
  /\ claim.g = None => Frames(mailbox) = {}
  /\ Unheard => page.awaiting

\* An open attempt is the present one, and not yet closed.
LEMMA OpenNumbers ==
  ASSUME Inv
  PROVE  rtc.at = "open" => rtc.g # None /\ rtc.g \in Nat /\ Closed < rtc.g
BY UnderWay DEF Closed, None

\* Unheard, of a claim that keeps its number.
LEMMA UnheardStays ==
  ASSUME claim'.g = claim.g, rtc' = rtc \/ rtc'.at # "open"
  PROVE  Unheard' => Unheard
<1>1. CASE rtc' = rtc
  BY <1>1 DEF Unheard, videoVia
<1>2. CASE rtc'.at # "open"
  BY <1>2 DEF Unheard, videoVia
<1> QED
  BY <1>1, <1>2

\* Neither the hub's mail nor its claim changes.
LEMMA WaitsOn ==
  ASSUME Waits, UNCHANGED <<mailbox, waiting>>, claim'.g = claim.g,
         \/ page'.awaiting
         \/ rtc'.at # "open"
         \/ rtc' = rtc /\ (page.awaiting => page'.awaiting)
         \/ rtc' = rtc /\ ~Unheard
  PROVE  Waits'
<1>1. CloseIsLast' /\ (claim'.g = None => Frames(mailbox') = {})
  BY DEF Waits, CloseIsLast
<1>2. Unheard' => page'.awaiting
  <2> SUFFICES ASSUME Unheard', ~page'.awaiting PROVE FALSE
    OBVIOUS
  <2>1. rtc' = rtc /\ (Unheard => FALSE)
    <3>1. rtc'.at = "open"
      BY DEF Unheard, videoVia
    <3> QED
      BY <3>1 DEF Waits
  <2>2. Unheard
    BY <2>1, UnheardStays
  <2> QED
    BY <2>1, <2>2
<1> QED
  BY <1>1, <1>2 DEF Waits

\* The session's steps.
LEMMA SessionWaits ==
  ASSUME Inv, Attempts, Waits, Session
  PROVE  Waits'
<1>t. mailbox \in Seq(Message) /\ up \in Seq(Message)
  BY FrameFacts
<1>c. UNCHANGED <<claim, page, rtc>>
  BY DEF Session, Restart, Info, SendFrame, Receive, hub, pageSide, attempts
<1>u. Unheard' => page'.awaiting
  <2>1. Unheard' => Unheard
    BY <1>c, UnheardStays
  <2> QED
    BY <1>c, <2>1 DEF Waits
<1>n. ~waiting /\ \A i \in DOMAIN mailbox : mailbox[i].kind # "close"
  <2>1. ~waiting
    BY DEF Session, Restart, Info, SendFrame, Receive
  <2> QED
    BY <2>1 DEF Waits, CloseIsLast
<1>1. CASE Restart \/ Info
  <2>1. UNCHANGED <<mailbox, waiting>>
    BY <1>1 DEF Restart, Info, hub
  <2> QED
    BY <1>c, <2>1, WaitsOn
<1>a. ASSUME NEW m \in Message, mailbox' = Append(mailbox, m), waiting' = (m.kind = "close"),
             m.kind = "VIDEO" => claim.g # None
      PROVE  Waits'
  <2>1. CloseIsLast'
    <3>1. /\ DOMAIN Append(mailbox, m) = 1..(Len(mailbox) + 1) /\ DOMAIN mailbox = 1..Len(mailbox)
          /\ \A i \in DOMAIN mailbox : Append(mailbox, m)[i] = mailbox[i]
          /\ Append(mailbox, m)[Len(mailbox) + 1] = m /\ Len(Append(mailbox, m)) = Len(mailbox) + 1
          /\ Len(mailbox) \in Nat
      BY <1>t
    <3>2. \A i \in DOMAIN mailbox' : i \in DOMAIN mailbox \/ i = Len(mailbox) + 1
      BY <1>a, <3>1
    <3> QED
      BY <1>a, <1>n, <3>1, <3>2 DEF CloseIsLast
  <2>2. claim'.g = None => Frames(mailbox') = {}
    <3>1. m.kind # "VIDEO" => Frames(Append(mailbox, m)) = Frames(mailbox)
      BY <1>t, FramesAppended
    <3> QED
      BY <1>a, <1>c, <3>1 DEF Waits
  <2> QED
    BY <1>u, <2>1, <2>2 DEF Waits
<1>2. CASE SendFrame
  <2> DEFINE f == [epoch |-> encoder.epoch, n |-> encoder.frames, key |-> encoder.wantKey]
  <2>0. waiting' = waiting
    BY <1>2 DEF SendFrame
  <2>1. PICK v \in Message : v = Video(f) /\ v.kind = "VIDEO"
    BY <1>2, FrameSent, VideoType DEF Video
  <2>2. mailbox' = mailbox \/ (claim.active /\ mailbox' = Append(mailbox, v))
    BY <1>2, <2>1, FrameSent
  <2>3. CASE mailbox' = mailbox
    BY <1>c, <2>0, <2>3, WaitsOn
  <2>4. CASE claim.active /\ mailbox' = Append(mailbox, v)
    <3>1. claim.g # None
      BY <2>4 DEF Attempts, Served
    <3>2. waiting' = (v.kind = "close")
      <4>1. v.kind # "close" /\ waiting \in BOOLEAN
        BY <2>1 DEF Inv, TypeOK
      <4> QED
        BY <1>n, <2>0, <4>1, Zenon
    <3> QED
      BY <1>a, <2>4, <3>1, <3>2
  <2> QED
    BY <2>2, <2>3, <2>4
<1>3. CASE Receive
  <2>1. /\ up # <<>>
        /\ \/ UNCHANGED <<mailbox, waiting>>
           \/ mailbox' = Append(mailbox, Head(up)) /\ waiting' = (Head(up).kind = "close")
    BY <1>3 DEF Receive
  <2>2. Head(up) \in Message /\ Head(up).kind # "VIDEO"
    <3>1. Carries(up, ToSession)
      BY PageFacts
    <3>2. Head(up) \in Message /\ Head(up).kind \in ToSession
      BY <1>t, <2>1, <3>1, TailCarries
    <3> QED
      BY <3>2 DEF ToSession
  <2>3. CASE UNCHANGED <<mailbox, waiting>>
    BY <1>c, <2>3, WaitsOn
  <2>4. CASE mailbox' = Append(mailbox, Head(up)) /\ waiting' = (Head(up).kind = "close")
    <3>1. PICK m \in Message : m = Head(up)
      BY <2>2
    <3> QED
      BY <1>a, <2>2, <2>4, <3>1
  <2> QED
    BY <2>1, <2>3, <2>4
<1> QED
  BY <1>1, <1>2, <1>3 DEF Session

\* The hub holds no attempt when it takes an offer.
LEMMA OfferFindsNone ==
  ASSUME Inv, Attempts, mailbox # <<>>, Head(mailbox).kind = "offer"
  PROVE  claim.g = None /\ ~peer.opening
<1>1. mailbox \in Seq(Message) /\ up \in Seq(Message)
  BY FrameFacts
<1>2. Holds # None => ClosesFirst(mailbox, up, Holds)
  BY DEF Attempts
<1>3. Holds = None
  BY <1>1, <1>2, FirstTakes
<1> QED
  BY <1>3 DEF Attempts, Served, Holds

\* The hub's steps.
LEMMA HubWaits ==
  ASSUME Inv, Attempts, Waits, Hub
  PROVE  Waits'
<1>t. mailbox \in Seq(Message) /\ claim \in Claims /\ claim.g \in Nat
  BY FrameFacts
<1>c. UNCHANGED <<page, rtc>>
  BY MailCases DEF Hub, ChannelOpen, ChannelClose, Flush, PeerDies, Notice, pageSide, attempts
<1>1. CASE TakeMail
  <2> DEFINE m == Head(mailbox)
             t == Tail(mailbox)
  <2>0. mailbox # <<>> /\ mailbox' = t /\ m \in Message
    BY <1>1, MailCases
  <2>1. /\ t \in Seq(Message) /\ m = mailbox[1] /\ 1 \in DOMAIN mailbox
        /\ Len(mailbox) = Len(t) + 1 /\ Len(t) \in Nat
        /\ \A i \in DOMAIN t : i \in Nat /\ i + 1 \in DOMAIN mailbox /\ t[i] = mailbox[i + 1]
    BY <1>t, <2>0, Taken
  <2>2. m.kind = "VIDEO" \/ Frames(t) = Frames(mailbox)
    BY <1>t, <2>0, FramesTaken
  <2>3. Frames(mailbox) = {} => Frames(t) = {}
    BY <1>t, <2>0, FramesTaken
  <2> HIDE DEF m, t
  <2>4. waiting' = waiting => CloseIsLast'
    BY <2>0, <2>1 DEF Waits, CloseIsLast
  <2>5. CASE m.kind = "offer" /\ TakeOffer(m.of)
    <3>1. claim.g = None
      BY <2>0, <2>5, OfferFindsNone DEF m
    <3>2. claim'.g = None /\ waiting' = waiting
      BY <2>5, FirstNumbers DEF TakeOffer
    <3>3. Unheard' => page'.awaiting
      <4>1. Unheard' => Unheard
        BY <1>c, <3>1, <3>2, UnheardStays
      <4> QED
        BY <1>c, <4>1 DEF Waits
    <3> QED
      BY <2>0, <2>3, <2>4, <3>1, <3>2, <3>3 DEF Waits
  <2>6. CASE m.kind = "VIDEO" /\ TakeFrame(m.frame)
    <3>1. claim' = claim /\ waiting' = waiting
      BY <2>6 DEF TakeFrame
    <3>2. Unheard' => page'.awaiting
      <4>1. Unheard' => Unheard
        BY <1>c, <3>1, UnheardStays
      <4> QED
        BY <1>c, <4>1 DEF Waits
    <3> QED
      BY <2>0, <2>3, <2>4, <3>1, <3>2 DEF Waits
  <2>7. CASE m.kind = "close" /\ TakeClose(m.of)
    <3>1. t = <<>>
      <4>1. 1 = Len(mailbox)
        BY <2>1, <2>7 DEF Waits, CloseIsLast
      <4> QED
        BY <2>1, <4>1
    <3>2. CloseIsLast' /\ Frames(mailbox') = {}
      BY <2>0, <3>1, NothingFollows DEF CloseIsLast
    <3>3. Unheard' => page'.awaiting
      <4>1. CASE Closes(claim.g, m.of)
        <5>1. m.of <= Closed
          <6>1. Says(mailbox, "close", m.of) /\ m.of \in Nat
            BY <2>0, <2>1, <2>7 DEF Says, Message
          <6> QED
            BY <6>1, UnderWay
        <5>2. m.of = claim.g
          BY <4>1 DEF Closes
        <5>3. rtc.at = "open" => claim.g # rtc.g
          BY <1>t, <5>1, <5>2, OpenNumbers, UnderWay
        <5>4. Unheard' => Unheard
          BY <1>c, <5>3 DEF Unheard, videoVia
        <5> QED
          BY <1>c, <5>4 DEF Waits
      <4>2. CASE ~Closes(claim.g, m.of)
        <5>1. claim' = claim
          BY <2>7, <4>2 DEF TakeClose
        <5>2. Unheard' => Unheard
          BY <1>c, <5>1, UnheardStays
        <5> QED
          BY <1>c, <5>2 DEF Waits
      <4> QED
        BY <4>1, <4>2
    <3> QED
      BY <3>2, <3>3 DEF Waits
  <2> QED
    BY <1>1, <2>5, <2>6, <2>7, MailCases DEF m
<1>2. CASE ChannelOpen
  <2>1. claim.g = None /\ claim'.g # None /\ UNCHANGED <<mailbox, waiting>>
    BY <1>2 DEF ChannelOpen, Attempts, Served, server
  <2>2. rtc.at = "open" => claim.g # rtc.g
    BY <2>1, OpenNumbers
  <2>3. Unheard' => Unheard
    BY <1>c, <2>2 DEF Unheard, videoVia
  <2> QED
    BY <1>c, <2>1, <2>3 DEF Waits, CloseIsLast
<1>3. CASE ChannelClose \/ PeerDies
  <2>1. claim' = [claim EXCEPT !.active = FALSE] /\ UNCHANGED <<mailbox, waiting>>
    BY <1>3 DEF ChannelClose, PeerDies, ClaimAfterDeath, server
  <2>2. claim'.g = claim.g
    BY <1>t, <2>1 DEF Claims
  <2> QED
    BY <1>c, <2>1, <2>2, WaitsOn
<1>4. CASE Flush \/ Notice
  BY <1>c, <1>4, WaitsOn DEF Flush, Notice, server
<1> QED
  BY <1>1, <1>2, <1>3, <1>4 DEF Hub

\* The page's steps: it asks for a key as it leaves the socket, and waits for it.
LEMMA PageWaits ==
  ASSUME Inv, Attempts, Waits,
         \/ FromSocket \/ FromChannel \/ SendOffer \/ OnOpen \/ GiveUp \/ Retry
         \/ \E t \in {"websocket", "webrtc"} \ {picked} : SetTransport(t)
  PROVE  Waits'
<1>t. rtc \in Rtcs /\ page \in Pages /\ NoRtc.at = "none"
  BY FrameFacts, UnderWay, NoRtcType
<1>c. UNCHANGED <<mailbox, waiting, claim>>
  BY DEF FromSocket, FromChannel, SendOffer, OnOpen, GiveUp, Retry, SetTransport, server, hub
<1>m. ASSUME MaybeRtc(FALSE) \/ MaybeRtc(TRUE) PROVE rtc' = rtc \/ rtc'.at # "open"
  BY <1>m DEF MaybeRtc, attempts
<1>1. CASE SendOffer \/ GiveUp \/ Retry \/ \E t \in {"websocket", "webrtc"} \ {picked} : SetTransport(t)
  <2>1. page' = page /\ (rtc' = rtc \/ rtc'.at # "open")
    BY <1>1, <1>t, <1>m DEF SendOffer, GiveUp, FailRtc, Retry, SetTransport, CloseRtc, Rtcs
  <2> QED
    BY <1>c, <2>1, WaitsOn
<1>2. CASE OnOpen
  <2>1. page'.awaiting
    BY <1>2, <1>t DEF OnOpen, Pages
  <2> QED
    BY <1>c, <2>1, WaitsOn
<1>3. CASE FromChannel
  <2>1. ~Unheard
    BY <1>3 DEF FromChannel, Attempts, ChannelIsCurrent, Unheard
  <2>2. rtc' = rtc
    <3>1. Head(channel).kind = "CONFIG" => UNCHANGED attempts
      BY <1>3, ChannelConfig
    <3>2. Head(channel).kind # "CONFIG" => UNCHANGED attempts
      BY <1>3, Zenon DEF FromChannel
    <3> QED
      BY <3>1, <3>2 DEF attempts
  <2> QED
    BY <1>c, <2>1, <2>2, WaitsOn
<1>4. CASE FromSocket
  <2> DEFINE m == Head(down)
  <2>0. m.of \in Nat
    BY <1>4, SocketCases, FrameFacts, TailFacts DEF Message
  <2>1. CASE OnConfig(m.of, "websocket")
    <3>1. CASE UNCHANGED <<page, attempts>>
      BY <1>c, <3>1, WaitsOn DEF attempts
    <3>2. CASE Begins(m.of)
      <4>1. page'.awaiting
        BY <3>2 DEF Begins
      <4> QED
        BY <1>c, <4>1, WaitsOn
    <3> QED
      BY <2>0, <2>1, <3>1, <3>2, ConfigSeen
  <2>2. CASE /\ page' = page \/ page' = [page EXCEPT !.told = m.of] \/ page' = [page EXCEPT !.awaiting = TRUE]
             /\ rtc' = rtc \/ rtc'.at # "open"
    <3>1. page.awaiting => page'.awaiting
      BY <1>t, <2>2 DEF Pages
    <3> QED
      BY <1>c, <2>2, <3>1, WaitsOn
  <2>3. CASE rtc.at # "open" /\ UNCHANGED attempts
    <3>1. rtc'.at # "open"
      BY <2>3 DEF attempts
    <3> QED
      BY <1>c, <3>1, WaitsOn
  <2>4. MaybeRtc(FALSE) => rtc' = rtc \/ rtc'.at # "open"
    BY <1>m
  <2>5. rtc' = [rtc EXCEPT !.at = IF rtc.at = "offered" THEN "answered" ELSE rtc.at] => rtc' = rtc \/ rtc'.at # "open"
    BY <1>t DEF Rtcs
  <2>6. FailRtc => rtc'.at # "open"
    BY <1>t DEF FailRtc
  <2>7. UNCHANGED attempts => rtc' = rtc
    BY DEF attempts
  <2> HIDE DEF m
  <2> QED
    BY <1>4, <2>1, <2>2, <2>3, <2>4, <2>5, <2>6, <2>7, SocketCases DEF m
<1> QED
  BY <1>1, <1>2, <1>3, <1>4

\* Nothing waits initially, nor on a new socket.
LEMMA WaitsBegin ==
  ASSUME mailbox' = <<>>, rtc' = NoRtc
  PROVE  Waits'
<1>1. ~Unheard'
  BY NoRtcType DEF Unheard, videoVia
<1> QED
  BY <1>1, NothingFollows DEF Waits, CloseIsLast

LEMMA InitWaits == Init => Waits
BY NothingFollows, NoRtcType DEF Init, Waits, CloseIsLast, Unheard, videoVia

\* Every step keeps it.
LEMMA NextWaits == Inv /\ Attempts /\ Waits /\ [Next]_vars => Waits'
<1> SUFFICES ASSUME Inv, Attempts, Waits, [Next]_vars PROVE Waits'
  OBVIOUS
<1>1. CASE Reconnect
  BY <1>1, WaitsBegin DEF Reconnect, CloseRtc
<1>2. CASE UNCHANGED vars
  BY <1>2, WaitsOn DEF vars, server, hub, pageSide, attempts
<1>3. CASE Connect
  <2>1. rtc'.at = "connected" /\ UNCHANGED <<mailbox, waiting, claim>>
    BY <1>3, UnderWay DEF Connect, Rtcs, server
  <2> QED
    BY <2>1, WaitsOn
<1> QED
  BY <1>1, <1>2, <1>3, SessionWaits, HubWaits, PageWaits DEF Next, Page

-----------------------------------------------------------------------------
(* What the page lacks is under way, or the encoder owes it a key. *)

\* The encoder owes a key: it knows, or the page's request or the end of a claim
\* is on its way to tell it.
Due ==
  \/ encoder.wantKey
  \/ Says(up, "REQUEST_KEYFRAME", None)
  \/ claim.g # None /\ (~claim.active \/ rtc # [g |-> claim.g, at |-> "open"])

\* The frames the page would not call late, were they to come now: the keys of the
\* encoder's stream, and its newest frame.
Ahead(f) == page.stream = f.epoch => page.seq < f.n
Keys == {f \in Frame : f.epoch = encoder.epoch /\ f.key /\ Ahead(f)}
IsLatest(f) == f.epoch = encoder.epoch /\ f.n = encoder.frames - 1
Lates == {f \in Frame : IsLatest(f) /\ Ahead(f)}

\* What is under way on the path that the video takes.
OnWay == IF claim.g = None THEN Frames(down) ELSE Frames(channel) \cup Frames(peer.queue) \cup Frames(mailbox)

\* Word that makes the page wait for a key is followed by one.
Refreshes ==
  /\ Followed(down, "keyframe", rtcGen, Keys)
  /\ rtcGen = 0 => Followed(down, "CONFIG", encoder.epoch, Keys)

KeyComes == page.stream = encoder.epoch /\ page.awaiting => keyLost \/ OnWay \cap Keys # {}

\* No key under way would help the page.
NoKeyComes == \A f \in OnWay : f.key /\ f.epoch = page.stream => f.n <= page.seq

LatestComes ==
  encoder.frames > 0 =>
    \/ IsLatest(page.last) \/ IsLatest(dropped) \/ OnWay \cap Lates # {}
    \/ page.awaiting /\ keyLost /\ NoKeyComes

\* The key that an unheard page waits for went down the socket.
PassedOver == Unheard => keyLost

Comes == Refreshes /\ KeyComes /\ LatestComes /\ PassedOver
Owed == ~crossed /\ ~Due => Comes

\* With no key due, either the claimed channel is open at both ends, or there is
\* no channel.
LEMMA Flowing ==
  ASSUME Inv, Attempts, ~Due
  PROVE  /\ ~encoder.wantKey /\ ~Says(up, "REQUEST_KEYFRAME", None)
         /\ claim.g # None => /\ claim.active /\ rtc.at = "open" /\ rtc.g = claim.g
                              /\ peer.open /\ peer.g = claim.g
                              /\ rtcGen = claim.g /\ Closed = rtcGen - 1 /\ rtcGen > 0
         /\ claim.g = None => ~claim.active /\ ~peer.open
<1>1. rtc.at # "none" => rtc.g = rtcGen /\ rtcGen > 0 /\ rtc # NoRtc
  BY UnderWay
<1>2. Served
  BY DEF Attempts
<1>3. claim.g # None => claim.active /\ rtc = [g |-> claim.g, at |-> "open"]
  BY DEF Due
<1>4. claim.g # None => rtc.at = "open" /\ rtc.g = claim.g
  BY <1>3
<1> QED
  BY <1>1, <1>2, <1>3, <1>4 DEF Due, Served, Closed, None

\* A step that changes nothing the page's video depends on.
LEMMA CalmOwed ==
  ASSUME Owed, crossed => crossed', Due => Due',
         encoder'.epoch = encoder.epoch, encoder'.frames = encoder.frames,
         page'.stream = page.stream, page'.seq = page.seq, page'.last = page.last,
         page'.awaiting = page.awaiting, dropped' = dropped, keyLost' = keyLost,
         Unheard' => Unheard,
         ~Due' => OnWay' = OnWay /\ (Refreshes => Refreshes')
  PROVE  Owed'
<1> SUFFICES ASSUME ~crossed', ~Due' PROVE Comes'
  BY DEF Owed
<1>1. Comes /\ OnWay' = OnWay /\ (Refreshes => Refreshes')
  BY DEF Owed
<1>2. Keys' = Keys /\ Lates' = Lates
  BY DEF Keys, Lates, IsLatest, Ahead
<1>3. KeyComes'
  BY <1>1, <1>2 DEF Comes, KeyComes
<1>4. LatestComes'
  BY <1>1, <1>2 DEF Comes, LatestComes, NoKeyComes, IsLatest
<1>5. PassedOver'
  BY <1>1 DEF Comes, PassedOver
<1> QED
  BY <1>1, <1>3, <1>4, <1>5 DEF Comes

\* The words on the socket still lead to the same keys.
LEMMA RefreshesStay ==
  ASSUME Refreshes, rtcGen' = rtcGen, encoder'.epoch = encoder.epoch, Keys' = Keys,
         \A F : Followed(down, "keyframe", rtcGen, F) => Followed(down', "keyframe", rtcGen, F),
         \A F : Followed(down, "CONFIG", encoder.epoch, F) => Followed(down', "CONFIG", encoder.epoch, F)
  PROVE  Refreshes'
<1>1. Followed(down, "keyframe", rtcGen, Keys) => Followed(down', "keyframe", rtcGen, Keys)
  OBVIOUS
<1>2. Followed(down, "CONFIG", encoder.epoch, Keys) => Followed(down', "CONFIG", encoder.epoch, Keys)
  OBVIOUS
<1> QED
  BY <1>1, <1>2 DEF Refreshes

\* A word that is none of those, behind them on the socket.
LEMMA FollowedSays ==
  ASSUME NEW q \in Seq(Message), NEW kind \in AllKinds \ {"VIDEO"}, NEW of \in Nat, NEW k, NEW g,
         kind # k \/ of # g
  PROVE  \A F : Followed(q, k, g, F) => Followed(Append(q, Say(kind, of)), k, g, F)
<1>1. PICK m \in Message : m = Say(kind, of) /\ m.kind = kind /\ m.of = of
  BY SayType
<1> SUFFICES ASSUME NEW F, Followed(q, k, g, F) PROVE Followed(Append(q, m), k, g, F)
  BY <1>1
<1>2. ~(m.kind = k /\ m.of = g)
  BY <1>1
<1> QED
  BY <1>2, FollowedAppended

\* A message taken from the socket.
LEMMA RefreshesTaken ==
  ASSUME NEW q \in Seq(Message), q # <<>>, NEW kind, NEW of
  PROVE  \A F : Followed(q, kind, of, F) => Followed(Tail(q), kind, of, F)
BY FollowedTaken

\* A due key stays due until it is sent.
LEMMA DueRests ==
  ASSUME Due, encoder.wantKey => encoder'.wantKey, claim' = claim,
         Says(up, "REQUEST_KEYFRAME", None) => Says(up', "REQUEST_KEYFRAME", None) \/ encoder'.wantKey,
         rtc' = rtc \/ rtc'.at # "open" \/ rtc'.g # claim.g
  PROVE  Due'
<1> USE DEF Due
<1>1. claim.g # None /\ ~claim.active => Due'
  OBVIOUS
<1>2. claim.g # None /\ rtc # [g |-> claim.g, at |-> "open"] => rtc' # [g |-> claim.g, at |-> "open"]
  <2>1. rtc'.at # "open" \/ rtc'.g # claim.g => rtc' # [g |-> claim.g, at |-> "open"]
    OBVIOUS
  <2> QED
    BY <2>1
<1> QED
  BY <1>1, <1>2

\* The session's steps but SendFrame keep a due key due.
LEMMA SessionDue ==
  ASSUME Inv, Due, Restart \/ Info \/ Receive
  PROVE  Due'
<1>t. encoder \in Encoders /\ up \in Seq(Message)
  BY FrameFacts
<1>1. CASE Restart
  BY <1>1 DEF Restart, NewEncoder, Due
<1>2. CASE Info
  <2>1. UNCHANGED <<claim, up, rtc>> /\ encoder'.wantKey = encoder.wantKey
    BY <1>2, <1>t DEF Info, hub, pageSide, attempts, Encoders
  <2> QED
    BY <2>1, DueRests
<1>3. CASE Receive
  <2>1. /\ up # <<>> /\ up' = Tail(up) /\ UNCHANGED <<claim, rtc>>
        /\ IF Head(up).kind = "REQUEST_KEYFRAME" THEN encoder' = [encoder EXCEPT !.wantKey = TRUE]
           ELSE encoder' = encoder
    BY <1>3 DEF Receive, pageSide, attempts
  <2>2. Says(up, "REQUEST_KEYFRAME", None) => Says(up', "REQUEST_KEYFRAME", None) \/ Head(up).kind = "REQUEST_KEYFRAME"
    BY <1>t, <2>1, SaysTaken
  <2>3. /\ Head(up).kind = "REQUEST_KEYFRAME" => encoder'.wantKey
        /\ encoder.wantKey => encoder'.wantKey
    BY <1>t, <2>1 DEF Encoders
  <2> QED
    BY <2>1, <2>2, <2>3, DueRests
<1> QED
  BY <1>1, <1>2, <1>3

\* The hub's steps do: a claim ends with its close, which asks for a key.
LEMMA HubDue ==
  ASSUME Inv, Attempts, Due, Hub
  PROVE  Due'
<1>t. encoder \in Encoders /\ claim \in Claims /\ claim.g \in Nat /\ peer.g \in Nat
  BY FrameFacts
<1>1. CASE TakeMail
  <2> DEFINE m == Head(mailbox)
  <2>0. /\ mailbox # <<>> /\ UNCHANGED <<up, rtc>>
    BY <1>1, MailCases DEF pageSide, attempts
  <2>1. CASE m.kind = "offer" /\ TakeOffer(m.of)
    <3>1. claim.g = None
      BY <2>0, <2>1, OfferFindsNone
    <3>2. encoder' = encoder
      BY <2>1 DEF TakeOffer
    <3> QED
      BY <2>0, <3>1, <3>2 DEF Due
  <2>2. CASE m.kind = "VIDEO" /\ TakeFrame(m.frame)
    BY <2>0, <2>2, DueRests DEF TakeFrame
  <2>3. CASE m.kind = "close" /\ TakeClose(m.of)
    <3>1. CASE Closes(claim.g, m.of)
      <4>1. encoder' = [encoder EXCEPT !.wantKey = TRUE]
        BY <2>3, <3>1 DEF TakeClose, Reply
      <4> QED
        BY <1>t, <4>1 DEF Due, Encoders
    <3>2. CASE ~Closes(claim.g, m.of)
      <4>1. encoder' = encoder /\ claim' = claim
        BY <2>3, <3>2 DEF TakeClose, Reply
      <4> QED
        BY <2>0, <4>1, DueRests
    <3> QED
      BY <3>1, <3>2
  <2> QED
    BY <1>1, <2>1, <2>2, <2>3, MailCases
<1>2. CASE ChannelOpen
  <2>1. claim.g = None /\ UNCHANGED <<encoder, up>>
    BY <1>2 DEF ChannelOpen, server, Attempts, Served
  <2> QED
    BY <2>1 DEF Due
<1>3. CASE ChannelClose \/ PeerDies
  <2>1. /\ claim' = [claim EXCEPT !.active = FALSE] /\ UNCHANGED <<encoder, up, rtc>>
    BY <1>3 DEF ChannelClose, PeerDies, ClaimAfterDeath, server, pageSide, attempts
  <2>2. claim'.g = claim.g /\ ~claim'.active
    BY <1>t, <2>1 DEF Claims
  <2> QED
    BY <2>1, <2>2 DEF Due
<1>4. CASE Flush \/ Notice
  BY <1>4, DueRests DEF Flush, Notice, server, pageSide, attempts
<1> QED
  BY <1>1, <1>2, <1>3, <1>4 DEF Hub

\* The page's own steps do: an attempt that opens asks for a key.
LEMMA PageDue ==
  ASSUME Inv, Attempts, Due, SendOffer \/ OnOpen \/ GiveUp \/ Retry \/ \E t \in {"websocket", "webrtc"} \ {picked} : SetTransport(t)
  PROVE  Due'
<1>t. rtc \in Rtcs /\ up \in Seq(Message)
  BY FrameFacts, UnderWay
<1>1. UNCHANGED <<encoder, claim>>
  BY DEF SendOffer, OnOpen, GiveUp, Retry, SetTransport, server, hub
<1>2. CASE OnOpen
  <2>1. up' = Append(up, Say("REQUEST_KEYFRAME", None))
    BY <1>2 DEF OnOpen
  <2>2. Says(up', "REQUEST_KEYFRAME", None)
    BY <1>t, <2>1, WordSays DEF AllKinds, ToSession, None
  <2> QED
    BY <2>2 DEF Due
<1>3. CASE SendOffer
  <2>1. rtc' = [rtc EXCEPT !.at = "offered"] /\ up' = Append(up, Say("offer", rtc.g))
    BY <1>3 DEF SendOffer
  <2>2. rtc'.at # "open"
    BY <1>t, <2>1 DEF Rtcs
  <2>3. rtc.g \in Nat
    BY UnderWay
  <2>4. Says(up, "REQUEST_KEYFRAME", None) => Says(up', "REQUEST_KEYFRAME", None)
    BY <1>t, <2>1, <2>3, WordSays DEF AllKinds, ToSession
  <2> QED
    BY <1>1, <2>2, <2>4, DueRests
<1>4. CASE GiveUp \/ Retry \/ \E t \in {"websocket", "webrtc"} \ {picked} : SetTransport(t)
  <2>1. rtc' = rtc \/ rtc'.at # "open"
    BY <1>4, NoRtcType DEF GiveUp, FailRtc, Retry, SetTransport, MaybeRtc, CloseRtc, attempts
  <2>2. up' = up \/ up' = up \o ClosingWord
    BY <1>4 DEF GiveUp, Retry, SetTransport
  <2>3. Says(up, "REQUEST_KEYFRAME", None) => Says(up', "REQUEST_KEYFRAME", None)
    BY <2>2, WordsUp
  <2> QED
    BY <1>1, <2>1, <2>3, DueRests
<1> QED
  BY <1>2, <1>3, <1>4

\* And so do the messages it takes.
LEMMA SocketDue ==
  ASSUME Inv, Attempts, Due, FromSocket \/ FromChannel
  PROVE  Due'
<1>t. /\ rtc \in Rtcs /\ up \in Seq(Message) /\ down \in Seq(Message) /\ channel \in Seq(Message)
      /\ Carries(down, ToPage)
  BY FrameFacts, UnderWay, PageFacts
<1>1. UNCHANGED <<encoder, claim>>
  BY DEF FromSocket, FromChannel, server, hub
<1> SUFFICES /\ rtc' = rtc \/ rtc'.at # "open"
             /\ Says(up, "REQUEST_KEYFRAME", None) => Says(up', "REQUEST_KEYFRAME", None)
  BY <1>1, DueRests
<1>w. ASSUME NEW word \in {<<>>, ClosingWord}, up' = up \o word \/ up' = (up \o word) \o KeyWanted
      PROVE  Says(up, "REQUEST_KEYFRAME", None) => Says(up', "REQUEST_KEYFRAME", None)
  BY <1>w, WordsUp
<1>k. ASSUME up' = up \/ up' = up \o KeyWanted
      PROVE  Says(up, "REQUEST_KEYFRAME", None) => Says(up', "REQUEST_KEYFRAME", None)
  <2>1. up \o <<>> = up
    BY <1>t
  <2> QED
    BY <1>k, <1>w, <2>1
<1>2. CASE FromSocket
  <2> DEFINE m == Head(down)
  <2>0. m \in Message /\ m.of \in Nat
    <3>1. down # <<>>
      BY <1>2, SocketCases
    <3>2. m \in Message
      BY <1>t, <3>1, TailFacts
    <3> QED
      BY <3>2 DEF Message
  <2>1. CASE m.kind = "CONFIG" /\ OnConfig(m.of, "websocket")
    <3>1. \/ UNCHANGED <<up, rtc>>
          \/ \E word \in {<<>>, ClosingWord} :
               /\ up' = (up \o word) \o <<>> \/ up' = (up \o word) \o KeyWanted
               /\ MaybeRtc(FALSE) \/ FailRtc
      BY <2>1 DEF OnConfig, attempts
    <3>2. MaybeRtc(FALSE) \/ FailRtc => rtc' = rtc \/ rtc'.at # "open"
      BY NoRtcType DEF MaybeRtc, FailRtc, attempts
    <3>3. ASSUME NEW word \in {<<>>, ClosingWord} PROVE (up \o word) \o <<>> = up \o word
      BY <1>t, <3>3, WordIsOrdered
    <3> QED
      BY <3>1, <3>2, <3>3, <1>w
  <2>2. CASE m.kind = "VIDEO" /\ Decoder(m) /\ UNCHANGED attempts
    BY <2>0, <2>2, <1>k, DecoderFacts DEF attempts
  <2>3. CASE /\ rtc' = [rtc EXCEPT !.at = IF rtc.at = "offered" THEN "answered" ELSE rtc.at] /\ up' = up
    BY <1>t, <2>3 DEF Rtcs
  <2>4. CASE FailRtc /\ up' = up \o ClosingWord
    BY <2>4, <1>w, NoRtcType DEF FailRtc
  <2>5. CASE MaybeRtc(FALSE) /\ up' = up
    BY <2>5 DEF MaybeRtc, attempts
  <2>6. CASE UNCHANGED <<up, attempts>>
    BY <2>6 DEF attempts
  <2> QED
    BY <1>2, <2>1, <2>2, <2>3, <2>4, <2>5, <2>6, SocketCases
<1>3. CASE FromChannel
  <2> DEFINE m == Head(channel)
  <2>1. channel # <<>> /\ (m.kind # "CONFIG" => Decoder(m) /\ UNCHANGED attempts)
    BY <1>3, Zenon DEF FromChannel
  <2>2. m \in Message
    BY <1>t, <2>1, TailFacts
  <2>3. CASE m.kind = "CONFIG"
    BY <1>3, <2>3, ChannelConfig DEF attempts
  <2>4. CASE m.kind # "CONFIG"
    BY <2>1, <2>2, <2>4, <1>k, DecoderFacts DEF attempts
  <2> QED
    BY <2>3, <2>4
<1> QED
  BY <1>2, <1>3

\* The session's steps but SendFrame lose nothing.
LEMMA SessionOwed ==
  ASSUME Inv, Attempts, Owed, Restart \/ Info \/ Receive
  PROVE  Owed'
<1>t. /\ encoder \in Encoders /\ encoder.epoch \in Nat /\ down \in Seq(Message) /\ mailbox \in Seq(Message)
      /\ up \in Seq(Message)
  BY FrameFacts
<1>1. CASE Restart
  BY <1>1 DEF Restart, NewEncoder, Due, Owed
<1>2. CASE Info
  <2>1. /\ UNCHANGED <<claim, mailbox, peer, channel, page, rtc, rtcGen, dropped, keyLost, crossed>>
        /\ encoder' = [encoder EXCEPT !.announced = TRUE]
        /\ down' = Append(down, Say("STREAM_STATE", encoder.epoch))
    BY <1>2 DEF Info, hub, pageSide, attempts, refused
  <2>2. encoder'.epoch = encoder.epoch /\ encoder'.frames = encoder.frames
    BY <1>t, <2>1 DEF Encoders
  <2>3. Frames(down') = Frames(down)
    <3>1. PICK m \in Message : m = Say("STREAM_STATE", encoder.epoch) /\ m.kind = "STREAM_STATE"
      BY <1>t, SayType DEF AllKinds, ToPage
    <3> QED
      BY <1>t, <2>1, <3>1, FramesAppended
  <2>4. OnWay' = OnWay
    BY <2>1, <2>3 DEF OnWay
  <2>5. Keys' = Keys
    BY <2>1, <2>2 DEF Keys, Ahead
  <2>6. Refreshes => Refreshes'
    <3>1. \A F : Followed(down, "keyframe", rtcGen, F) => Followed(down', "keyframe", rtcGen, F)
      BY <1>t, <2>1, FollowedSays DEF AllKinds, ToPage
    <3>2. \A F : Followed(down, "CONFIG", encoder.epoch, F) => Followed(down', "CONFIG", encoder.epoch, F)
      BY <1>t, <2>1, FollowedSays DEF AllKinds, ToPage
    <3> QED
      BY <2>1, <2>2, <2>5, <3>1, <3>2, RefreshesStay
  <2> QED
    BY <1>2, <2>1, <2>2, <2>4, <2>6, CalmOwed, UnheardStays, SessionDue
<1>3. CASE Receive
  <2>1. /\ UNCHANGED <<claim, down, peer, channel, page, rtc, rtcGen, dropped, keyLost, crossed>>
        /\ encoder' = encoder \/ encoder' = [encoder EXCEPT !.wantKey = TRUE]
        /\ up # <<>>
        /\ mailbox' = mailbox \/ mailbox' = Append(mailbox, Head(up))
    BY <1>3 DEF Receive, pageSide, attempts, refused
  <2>2. encoder'.epoch = encoder.epoch /\ encoder'.frames = encoder.frames
    BY <1>t, <2>1 DEF Encoders
  <2>3. Frames(mailbox') = Frames(mailbox)
    <3>1. Head(up) \in Message /\ Head(up).kind # "VIDEO"
      <4>1. Carries(up, ToSession)
        BY PageFacts
      <4> QED
        BY <1>t, <2>1, <4>1, TailCarries DEF ToSession
    <3>2. PICK m \in Message : m = Head(up) /\ m.kind # "VIDEO"
      BY <3>1
    <3>3. Frames(Append(mailbox, m)) = Frames(mailbox)
      BY <1>t, <3>2, FramesAppended
    <3> QED
      BY <2>1, <3>2, <3>3
  <2>4. OnWay' = OnWay
    BY <2>1, <2>3 DEF OnWay
  <2>5. Refreshes => Refreshes'
    BY <2>1, <2>2 DEF Refreshes, Keys, Ahead
  <2> QED
    BY <1>3, <2>1, <2>2, <2>4, <2>5, CalmOwed, UnheardStays, SessionDue
<1> QED
  BY <1>1, <1>2, <1>3

\* The page's own steps keep what is under way.
LEMMA TransportOwed ==
  ASSUME Inv, Attempts, Owed,
         SendOffer \/ OnOpen \/ GiveUp \/ Retry \/ \E t \in {"websocket", "webrtc"} \ {picked} : SetTransport(t)
  PROVE  Owed'
<1>1. /\ UNCHANGED <<encoder, claim, mailbox, peer, down, dropped, keyLost, crossed>>
  BY DEF SendOffer, OnOpen, GiveUp, Retry, SetTransport, server, hub, refused
<1>t. up \in Seq(Message) /\ rtcGen \in Nat /\ rtc \in Rtcs
  BY FrameFacts, UnderWay
<1>2. CASE OnOpen
  <2>1. up' = Append(up, Say("REQUEST_KEYFRAME", None))
    BY <1>2 DEF OnOpen
  <2>2. Says(up', "REQUEST_KEYFRAME", None)
    BY <1>t, <2>1, WordSays DEF AllKinds, ToSession, None
  <2> QED
    BY <2>2 DEF Due, Owed
<1>3. CASE SendOffer \/ GiveUp \/ Retry \/ \E t \in {"websocket", "webrtc"} \ {picked} : SetTransport(t)
  <2>1. page' = page
    BY <1>3 DEF SendOffer, GiveUp, Retry, SetTransport
  <2>2. Due => Due'
    BY <1>3, PageDue
  <2>3. \/ rtcGen' = rtcGen
        \/ rtcGen' = rtcGen + 1
    BY <1>3, AttemptMoves DEF SendOffer, GiveUp, Retry, SetTransport
  <2>4. channel' = channel \/ (rtc'.at # "open" /\ channel' = <<>>)
    BY <1>3, NoRtcType DEF SendOffer, GiveUp, Retry, SetTransport, FailRtc, CloseRtc
  <2>8. rtc' = rtc \/ rtc'.at # "open"
    BY <1>3, <1>t, NoRtcType
       DEF SendOffer, GiveUp, FailRtc, Retry, SetTransport, MaybeRtc, CloseRtc, attempts, Rtcs
  <2>5. Keys' = Keys
    BY <1>1, <2>1 DEF Keys, Ahead
  <2>6. Refreshes => Refreshes'
    <3>1. CASE rtcGen' = rtcGen
      BY <1>1, <2>5, <3>1 DEF Refreshes
    <3>2. CASE rtcGen' = rtcGen + 1
      <4>1. PICK d \in Nat : d = rtcGen + 1 /\ d > rtcGen /\ d # 0
        BY <1>t
      <4>2. ~Says(down, "keyframe", d)
        BY <1>t, <4>1, UnderWay DEF Attempts, Answers
      <4>3. Followed(down, "keyframe", d, Keys)
        BY <4>2, FollowedNobody
      <4> QED
        BY <1>1, <2>5, <3>2, <4>1, <4>3 DEF Refreshes
    <3> QED
      BY <2>3, <3>1, <3>2
  <2>7. ~Due' => OnWay' = OnWay
    <3>1. CASE channel' = channel
      BY <1>1, <3>1 DEF OnWay
    <3>2. CASE rtc'.at # "open"
      BY <1>1, <3>2 DEF OnWay, Due
    <3> QED
      BY <2>4, <3>1, <3>2
  <2> QED
    BY <1>1, <2>1, <2>2, <2>6, <2>7, <2>8, CalmOwed, UnheardStays
<1> QED
  BY <1>2, <1>3

\* Nothing moves when the browser connects.
LEMMA ConnectOwed ==
  ASSUME Inv, Attempts, Owed, Connect
  PROVE  Owed'
<1>1. /\ rtc'.at = "connected" /\ peer'.queue = peer.queue
      /\ UNCHANGED <<encoder, claim, mailbox, down, up, channel, rtcGen, page, dropped, keyLost, crossed>>
  BY UnderWay DEF Connect, Rtcs, Peers, server, refused
<1>2. Due => Due'
  BY <1>1, DueRests
<1>3. OnWay' = OnWay /\ (Refreshes => Refreshes')
  BY <1>1 DEF OnWay, Refreshes, Keys, Ahead
<1> QED
  BY <1>1, <1>2, <1>3, CalmOwed, UnheardStays

\* The hub answers or refuses an offer when no attempt has the video.
LEMMA OfferOwed ==
  ASSUME Inv, Attempts, Owed, TakeMail, Head(mailbox).kind = "offer", TakeOffer(Head(mailbox).of)
  PROVE  Owed'
<1>t. /\ mailbox \in Seq(Message) /\ up \in Seq(Message) /\ down \in Seq(Message)
  BY FrameFacts
<1>1. /\ mailbox # <<>> /\ mailbox' = Tail(mailbox)
      /\ UNCHANGED <<up, page, rtc, rtcGen, crossed, keyLost, dropped, encoder>>
  BY MailCases DEF pageSide, attempts, TakeOffer
<1>2. claim.g = None /\ claim'.g = None
  <2>1. claim' = NoClaim
    BY DEF TakeOffer
  <2> QED
    BY <1>1, <2>1, OfferFindsNone, FirstNumbers
<1>3. \/ down' = down
      \/ \E kind \in {"answer", "close"}, g \in Nat : down' = Append(down, Say(kind, g))
  <2>1. Head(mailbox).of \in Nat
    BY MailCases DEF Message
  <2> QED
    BY <2>1 DEF TakeOffer
<1>4. Frames(down') = Frames(down) /\ (Refreshes => Refreshes')
  <2>1. CASE down' = down
    BY <1>1, <2>1 DEF Refreshes, Keys, Ahead
  <2>2. CASE \E kind \in {"answer", "close"}, g \in Nat : down' = Append(down, Say(kind, g))
    <3>1. PICK kind \in {"answer", "close"}, g \in Nat : down' = Append(down, Say(kind, g))
      BY <2>2
    <3>2. PICK m \in Message : m = Say(kind, g) /\ m.kind = kind
      BY SayType DEF AllKinds, ToPage
    <3>3. Frames(Append(down, m)) = Frames(down)
      BY <1>t, <3>2, FramesAppended
    <3>4. kind \in AllKinds \ {"VIDEO"} /\ kind # "keyframe" /\ kind # "CONFIG"
      BY DEF AllKinds, ToPage
    <3>5. \A F : Followed(down, "keyframe", rtcGen, F) => Followed(down', "keyframe", rtcGen, F)
      BY <1>t, <3>1, <3>4, FollowedSays
    <3>6. \A F : Followed(down, "CONFIG", encoder.epoch, F) => Followed(down', "CONFIG", encoder.epoch, F)
      BY <1>t, <3>1, <3>4, FollowedSays
    <3>7. Refreshes => Refreshes'
      BY <1>1, <3>5, <3>6, RefreshesStay DEF Keys, Ahead
    <3> QED
      BY <3>1, <3>2, <3>3, <3>7
  <2> QED
    BY <1>3, <2>1, <2>2
<1>5. OnWay' = OnWay
  BY <1>2, <1>4 DEF OnWay
<1> QED
  BY <1>1, <1>2, <1>4, <1>5, HubDue, CalmOwed, UnheardStays DEF Hub

\* A close that names the claim makes the encoder owe a key; another leaves the
\* claim's peer alone.
LEMMA CloseOwed ==
  ASSUME Inv, Attempts, Owed, TakeMail, Head(mailbox).kind = "close", TakeClose(Head(mailbox).of)
  PROVE  Owed'
<1> DEFINE g == Head(mailbox).of
<1>t. /\ mailbox \in Seq(Message) /\ encoder \in Encoders
  BY FrameFacts
<1>1. /\ mailbox # <<>> /\ mailbox' = Tail(mailbox)
      /\ UNCHANGED <<up, page, rtc, rtcGen, crossed, keyLost, dropped, channel>>
  BY MailCases DEF pageSide, attempts, TakeClose
<1>2. CASE Closes(claim.g, g)
  <2>1. encoder' = [encoder EXCEPT !.wantKey = TRUE]
    BY <1>2 DEF TakeClose, Reply
  <2>2. Due'
    BY <1>t, <2>1 DEF Due, Encoders
  <2> QED
    BY <2>2 DEF Owed
<1>3. CASE ~Closes(claim.g, g)
  <2>1. claim' = claim /\ UNCHANGED <<encoder, down>>
    BY <1>3 DEF TakeClose, Reply
  <2>2. Frames(mailbox') = Frames(mailbox)
    BY <1>t, <1>1, FramesTaken
  <2>3. ~Due' => OnWay' = OnWay
    <3> SUFFICES ASSUME ~Due' PROVE OnWay' = OnWay
      OBVIOUS
    <3>1. ~Due
      BY HubDue DEF Hub
    <3>2. CASE claim.g = None
      BY <2>1, <3>2 DEF OnWay
    <3>3. CASE claim.g # None
      <4>1. peer.g = claim.g
        BY <3>1, <3>3, Flowing
      <4>2. peer' = peer
        BY <1>3, <4>1 DEF TakeClose, Closes
      <4> QED
        BY <1>1, <2>1, <2>2, <4>2 DEF OnWay
    <3> QED
      BY <3>2, <3>3
  <2>4. Refreshes => Refreshes'
    BY <1>1, <2>1 DEF Refreshes, Keys, Ahead
  <2> QED
    BY <1>1, <2>1, <2>3, <2>4, HubDue, CalmOwed, UnheardStays DEF Hub
<1> QED
  BY <1>2, <1>3

\* A claim that ends makes a key due, and one that flows moves its frames on.  One that
\* begins makes a key due, unless the page has its channel open already and asked for the
\* key before: that one went down the socket, and no other is under way.
LEMMA ChannelOwed ==
  ASSUME Inv, Attempts, Ready, Waits, Owed, ChannelOpen \/ ChannelClose \/ PeerDies \/ Flush \/ Notice
  PROVE  Owed'
<1>t. /\ claim \in Claims /\ claim.g \in Nat /\ channel \in Seq(Message) /\ down \in Seq(Message)
      /\ peer \in Peers /\ peer.queue \in Seq(Message) /\ notices \subseteq Nat
  BY FrameFacts, UnderWay
<1>d. Due => Due'
  BY HubDue DEF Hub
<1>1. CASE ChannelOpen
  <2> SUFFICES ASSUME ~crossed', ~Due' PROVE Comes'
    BY DEF Owed
  <2>1. /\ claim'.g = peer.g /\ peer.g # None /\ claim.g = None /\ ~peer.open /\ peer'.queue = peer.queue
        /\ UNCHANGED <<encoder, mailbox, channel, page, rtc, rtcGen, crossed, keyLost, dropped, down, up>>
    BY <1>1, <1>t DEF ChannelOpen, server, pageSide, attempts, refused, Attempts, Served, Peers
  <2>2. Comes
    BY <1>d, <2>1 DEF Owed
  <2>3. rtc = [g |-> peer.g, at |-> "open"]
    BY <2>1 DEF Due
  <2>4. rtc.g = peer.g /\ rtc.at = "open"
    BY <2>3
  <2>5. Unheard /\ ~Unheard'
    BY <2>1, <2>4 DEF Unheard, videoVia
  <2>6. page'.awaiting /\ keyLost'
    BY <2>1, <2>2, <2>5 DEF Waits, Comes, PassedOver
  <2>7. channel = <<>> /\ peer.queue = <<>> /\ Frames(mailbox) = {}
    BY <2>1 DEF Attempts, ChannelIsCurrent, Ready, OfConfig, Waits
  <2>8. OnWay' = {}
    BY <2>1, <2>7, NothingFollows DEF OnWay
  <2>9. Refreshes'
    BY <2>1, <2>2 DEF Comes, Refreshes, Keys, Ahead
  <2>10. KeyComes' /\ LatestComes' /\ PassedOver'
    BY <2>5, <2>6, <2>8 DEF KeyComes, LatestComes, NoKeyComes, PassedOver
  <2> QED
    BY <2>9, <2>10 DEF Comes
<1>2. CASE ChannelClose
  <2>1. peer.open /\ claim' = [claim EXCEPT !.active = FALSE]
    BY <1>2 DEF ChannelClose
  <2>2. claim.g # None
    BY <2>1 DEF Attempts, Served
  <2>3. Due'
    BY <1>t, <2>1, <2>2 DEF Due, Claims
  <2> QED
    BY <2>3 DEF Owed
<1>3. CASE PeerDies
  <2>1. /\ claim' = [claim EXCEPT !.active = FALSE]
        /\ UNCHANGED <<encoder, page, rtc, rtcGen, crossed, keyLost, dropped, down>>
    BY <1>3 DEF PeerDies, ClaimAfterDeath, server, pageSide, attempts, refused
  <2>2. claim'.g = claim.g /\ ~claim'.active
    BY <1>t, <2>1 DEF Claims
  <2>3. ~Due' => OnWay' = OnWay
    BY <2>1, <2>2 DEF Due, OnWay
  <2>4. Refreshes => Refreshes'
    BY <2>1 DEF Refreshes, Keys, Ahead
  <2> QED
    BY <1>d, <2>1, <2>2, <2>3, <2>4, CalmOwed, UnheardStays
<1>4. CASE Flush
  <2>1. /\ peer.open /\ peer.queue # <<>> /\ peer' = [peer EXCEPT !.queue = Tail(peer.queue)]
        /\ channel' = IF rtc.g = peer.g THEN Append(channel, Head(peer.queue)) ELSE channel
        /\ UNCHANGED <<encoder, claim, mailbox, page, rtc, rtcGen, crossed, keyLost, dropped, down>>
    BY <1>4 DEF Flush, server, pageSide, attempts, refused
  <2>2. peer'.queue = Tail(peer.queue)
    BY <1>t, <2>1 DEF Peers
  <2>3. ~Due' => OnWay' = OnWay
    <3> SUFFICES ASSUME ~Due' PROVE OnWay' = OnWay
      OBVIOUS
    <3>1. claim.g # None /\ rtc.g = peer.g
      BY <1>d, <2>1, Flowing DEF Attempts, Served
    <3>2. PICK m \in Message : m = Head(peer.queue)
      BY <1>t, <2>1, TailFacts
    <3>3. channel' = Append(channel, m)
      BY <2>1, <3>1, <3>2
    <3>4. Frames(Append(channel, m)) \cup Frames(Tail(peer.queue)) = Frames(channel) \cup Frames(peer.queue)
      <4>1. /\ m.kind = "VIDEO" => Frames(peer.queue) = Frames(Tail(peer.queue)) \cup {m.frame}
            /\ m.kind # "VIDEO" => Frames(peer.queue) = Frames(Tail(peer.queue))
        BY <1>t, <2>1, <3>2, FramesTaken
      <4>2. /\ m.kind = "VIDEO" => Frames(Append(channel, m)) = Frames(channel) \cup {m.frame}
            /\ m.kind # "VIDEO" => Frames(Append(channel, m)) = Frames(channel)
        BY <1>t, FramesAppended
      <4> QED
        BY <4>1, <4>2
    <3>5. Frames(channel') \cup Frames(peer'.queue) = Frames(channel) \cup Frames(peer.queue)
      BY <2>2, <3>3, <3>4
    <3> QED
      BY <2>1, <3>1, <3>5 DEF OnWay
  <2>4. Refreshes => Refreshes'
    BY <2>1 DEF Refreshes, Keys, Ahead
  <2> QED
    BY <1>d, <2>1, <2>3, <2>4, CalmOwed, UnheardStays
<1>5. CASE Notice
  <2>1. PICK g \in Nat : down' = Append(down, Say("close", g))
    BY <1>5, <1>t DEF Notice
  <2>2. UNCHANGED <<encoder, claim, mailbox, peer, channel, page, rtc, rtcGen, crossed, keyLost, dropped>>
    BY <1>5 DEF Notice, server, pageSide, attempts, refused
  <2>3. Frames(down') = Frames(down)
    <3>1. PICK m \in Message : m = Say("close", g) /\ m.kind = "close"
      BY SayType DEF AllKinds, ToPage
    <3>2. Frames(Append(down, m)) = Frames(down)
      BY <1>t, <3>1, FramesAppended
    <3> QED
      BY <2>1, <3>1, <3>2
  <2>4. OnWay' = OnWay
    BY <2>2, <2>3 DEF OnWay
  <2>5. Refreshes => Refreshes'
    <3>1. \A F : Followed(down, "keyframe", rtcGen, F) => Followed(down', "keyframe", rtcGen, F)
      BY <1>t, <2>1, FollowedSays DEF AllKinds, ToPage
    <3>2. \A F : Followed(down, "CONFIG", encoder.epoch, F) => Followed(down', "CONFIG", encoder.epoch, F)
      BY <1>t, <2>1, FollowedSays DEF AllKinds, ToPage
    <3> QED
      BY <2>2, <3>1, <3>2, RefreshesStay DEF Keys, Ahead
  <2> QED
    BY <1>d, <2>2, <2>4, <2>5, CalmOwed, UnheardStays
<1> QED
  BY <1>1, <1>2, <1>3, <1>4, <1>5

\* Of two frames that were sent, the newest one stays the dropped one.
LEMMA LostLatest ==
  ASSUME NEW f \in Frame, dropped \in Frame, encoder.epoch \in Nat, encoder.frames \in Nat,
         Sound(f, encoder.epoch, encoder.frames), Sound(dropped, encoder.epoch, encoder.frames),
         IsLatest(f) \/ IsLatest(dropped)
  PROVE  IsLatest(Lost(f))
<1>1. f.epoch \in Nat /\ f.n \in Nat /\ dropped.epoch \in Nat /\ dropped.n \in Nat
  BY DEF Frame
<1>2. PICK e \in Nat, n \in Nat : e = encoder.epoch /\ n = encoder.frames
  OBVIOUS
<1>3. /\ f.epoch < e \/ (f.epoch = e /\ f.n < n)
      /\ dropped.epoch < e \/ (dropped.epoch = e /\ dropped.n < n)
  BY <1>2 DEF Sound
<1>4. \/ f.epoch = e /\ f.n = n - 1
      \/ dropped.epoch = e /\ dropped.n = n - 1
  BY <1>2 DEF IsLatest
<1>5. CASE f.epoch > dropped.epoch \/ (f.epoch = dropped.epoch /\ f.n > dropped.n)
  <2>1. f.epoch = e /\ f.n = n - 1
    BY <1>1, <1>2, <1>3, <1>4, <1>5
  <2>2. Lost(f) = f
    BY <1>5 DEF Lost
  <2> QED
    BY <1>2, <2>1, <2>2 DEF IsLatest
<1>6. CASE ~(f.epoch > dropped.epoch \/ (f.epoch = dropped.epoch /\ f.n > dropped.n))
  <2>1. dropped.epoch = e /\ dropped.n = n - 1
    BY <1>1, <1>2, <1>3, <1>4, <1>6
  <2>2. Lost(f) = dropped
    BY <1>6 DEF Lost
  <2> QED
    BY <1>2, <2>1, <2>2 DEF IsLatest
<1> QED
  BY <1>5, <1>6

\* The hub takes a frame: what it throws away is superseded.
LEMMA FrameOwed ==
  ASSUME Inv, Attempts, InOrder, Ready, Owed, TakeMail,
         Head(mailbox).kind = "VIDEO", TakeFrame(Head(mailbox).frame)
  PROVE  Owed'
<1>t. /\ mailbox \in Seq(Message) /\ encoder.epoch \in Nat /\ encoder.frames \in Nat /\ peer \in Peers
      /\ peer.queue \in Seq(Message) /\ dropped \in Frame /\ page.seq \in Int
  BY FrameFacts
<1>d. Due => Due'
  BY HubDue DEF Hub
<1>0. /\ mailbox # <<>> /\ mailbox' = Tail(mailbox) /\ Head(mailbox) \in Message
      /\ UNCHANGED <<encoder, claim, channel, down, page, rtc, rtcGen, crossed, keyLost>>
  BY MailCases DEF pageSide, attempts, TakeFrame
<1>f. PICK f \in Frame : f = Head(mailbox).frame /\ f.epoch \in Nat /\ f.n \in Nat
  BY <1>0 DEF Message, Frame
<1>1. Keys' = Keys /\ Lates' = Lates /\ (Refreshes => Refreshes')
  BY <1>0 DEF Keys, Lates, IsLatest, Ahead, Refreshes
<1>2. CASE claim.g = None
  <2>1. (peer' = peer /\ dropped' = dropped) \/ Due'
    BY <1>2, <1>d, Flowing DEF TakeFrame
  <2>2. OnWay' = OnWay
    BY <1>0, <1>2 DEF OnWay
  <2>3. CASE Due'
    BY <2>3 DEF Owed
  <2> QED
    BY <1>0, <1>1, <1>d, <2>1, <2>2, <2>3, CalmOwed, UnheardStays
<1>3. CASE claim.g # None
  <2> SUFFICES ASSUME ~crossed', ~Due' PROVE Comes'
    BY DEF Owed
  <2>1. Comes /\ peer.open
    BY <1>0, <1>3, <1>d, Flowing DEF Owed
  <2>2. peer' = Enqueue(peer, f)
    BY <1>f, <2>1 DEF TakeFrame
  <2>3. dropped' = IF \E i \in DOMAIN peer'.queue : peer'.queue[i].frame = f THEN dropped ELSE Lost(f)
    BY <1>f, <2>1 DEF TakeFrame
  <2>4. /\ Frames(mailbox) = Frames(mailbox') \cup {f} /\ f \in Frames(mailbox)
        /\ Sound(f, encoder.epoch, encoder.frames) /\ Sound(dropped, encoder.epoch, encoder.frames)
    <3>1. Line(mailbox, encoder.epoch, encoder.frames)
      BY OrderFacts
    <3> QED
      BY <1>t, <1>0, <1>f, <3>1, LineTaken, FramesTaken DEF InOrder
  <2>5. \A k \in Frames(peer.queue) : k \in Frame /\ k.epoch = peer.config /\ Before(k, f)
    <3>1. Frames(peer.queue) \subseteq Frame
      BY <1>t, FramesType
    <3>2. Below(Frames(peer.queue), Frames(mailbox))
      BY DEF InOrder
    <3>3. \A k \in Frames(peer.queue) : Before(k, f)
      BY <2>4, <3>2 DEF Below
    <3>4. \A k \in Frames(peer.queue) : k.epoch = peer.config
      BY DEF Frames, Ready, OfConfig
    <3> QED
      BY <3>1, <3>3, <3>4
  <2>6. OnWay = Frames(channel) \cup Frames(peer.queue) \cup Frames(mailbox)
    BY <1>3 DEF OnWay
  <2>7. OnWay' = Frames(channel) \cup Frames(peer'.queue) \cup Frames(mailbox')
    BY <1>0, <1>3 DEF OnWay
  <2>8. SUFFICES /\ OnWay' \subseteq OnWay
                 /\ OnWay \cap Keys # {} => OnWay' \cap Keys # {}
                 /\ IsLatest(dropped) \/ OnWay \cap Lates # {} => IsLatest(dropped') \/ OnWay' \cap Lates # {}
    <3>1. KeyComes'
      BY <1>0, <1>1, <2>1, <2>8 DEF Comes, KeyComes
    <3>2. LatestComes'
      BY <1>0, <1>1, <2>1, <2>8 DEF Comes, LatestComes, NoKeyComes, IsLatest
    <3>3. PassedOver'
      BY <1>0, <2>1, UnheardStays DEF Comes, PassedOver
    <3> QED
      BY <1>1, <2>1, <3>1, <3>2, <3>3 DEF Comes
  <2>m. PICK v \in Message : v = Video(f) /\ v.kind = "VIDEO" /\ v.frame = f
    BY VideoType DEF Video
  <2>a. CASE /\ peer.config # f.epoch \/ f.key
             /\ Enqueue(peer, f).queue = Append(<<Say("CONFIG", f.epoch)>>, Video(f))
    <3>1. PICK c \in Message : c = Say("CONFIG", f.epoch) /\ c.kind = "CONFIG"
      BY <1>f, SayType DEF AllKinds, ToPage
    <3>2. Frames(peer'.queue) = {f}
      <4>1. <<c>> \in Seq(Message)
        OBVIOUS
      <4>2. PICK q \in Seq(Message) : q = <<c>>
        BY <4>1
      <4>3. Frames(Append(q, v)) = Frames(q) \cup {f}
        BY <2>m, FramesAppended
      <4>4. Frames(q) = {}
        <5>1. \A i \in DOMAIN q : q[i].kind # "VIDEO"
          BY <3>1, <4>2
        <5> QED
          BY <5>1 DEF Frames
      <4> QED
        BY <2>2, <2>a, <2>m, <3>1, <4>2, <4>3, <4>4
    <3>8. OnWay' \subseteq OnWay
      BY <2>4, <2>6, <2>7, <3>2
    <3>3. dropped' = dropped
      <4>1. \E i \in DOMAIN peer'.queue : peer'.queue[i].frame = f
        BY <3>2 DEF Frames
      <4> QED
        BY <2>3, <4>1
    <3>4. ASSUME NEW k \in Frames(peer.queue), k \in Keys PROVE f \in Keys
      <4>1. k \in Frame /\ k.epoch = peer.config /\ k.epoch \in Nat /\ k.n \in Nat
        BY <2>5, <3>4 DEF Frame
      <4>2. k.epoch < f.epoch \/ (k.epoch = f.epoch /\ k.n < f.n)
        BY <2>5, <3>4 DEF Before
      <4>3. k.epoch = encoder.epoch /\ (page.stream = k.epoch => page.seq < k.n)
        BY <3>4 DEF Keys, Ahead
      <4>4. f.epoch < encoder.epoch \/ (f.epoch = encoder.epoch /\ f.n < encoder.frames)
        BY <2>4 DEF Sound
      <4>5. f.epoch = encoder.epoch /\ k.n < f.n
        BY <1>t, <1>f, <4>1, <4>2, <4>3, <4>4
      <4>6. f.key
        BY <2>a, <4>1, <4>3, <4>5
      <4>7. page.stream = f.epoch => page.seq < f.n
        BY <1>t, <1>f, <4>1, <4>3, <4>5
      <4> QED
        BY <4>5, <4>6, <4>7 DEF Keys, Ahead
    <3>5. ASSUME NEW l \in Frames(peer.queue), l \in Lates PROVE FALSE
      <4>1. l \in Frame /\ l.epoch \in Nat /\ l.n \in Nat
        BY <2>5, <3>5 DEF Frame
      <4>2. l.epoch < f.epoch \/ (l.epoch = f.epoch /\ l.n < f.n)
        BY <2>5, <3>5 DEF Before
      <4>3. l.epoch = encoder.epoch /\ l.n = encoder.frames - 1
        BY <3>5 DEF Lates, IsLatest
      <4>4. f.epoch < encoder.epoch \/ (f.epoch = encoder.epoch /\ f.n < encoder.frames)
        BY <2>4 DEF Sound
      <4> QED
        BY <1>t, <1>f, <4>1, <4>2, <4>3, <4>4
    <3>6. OnWay \cap Keys # {} => OnWay' \cap Keys # {}
      BY <2>4, <2>6, <2>7, <3>2, <3>4
    <3>7. OnWay \cap Lates # {} => OnWay' \cap Lates # {}
      BY <2>4, <2>6, <2>7, <3>2, <3>5
    <3> QED
      BY <3>3, <3>6, <3>7, <3>8
  <2>b. CASE Enqueue(peer, f).queue = Append(peer.queue, Video(f))
    <3>1. Frames(peer'.queue) = Frames(peer.queue) \cup {f}
      <4>1. Frames(Append(peer.queue, v)) = Frames(peer.queue) \cup {f}
        BY <1>t, <2>m, FramesAppended
      <4> QED
        BY <2>2, <2>b, <2>m, <4>1
    <3>2. OnWay' = OnWay
      BY <2>4, <2>6, <2>7, <3>1
    <3>3. dropped' = dropped
      <4>1. \E i \in DOMAIN peer'.queue : peer'.queue[i].frame = f
        BY <3>1 DEF Frames
      <4> QED
        BY <2>3, <4>1
    <3> QED
      BY <3>2, <3>3
  <2>c. CASE peer.config = f.epoch /\ ~f.key /\ Enqueue(peer, f).queue = peer.queue
    <3>1. peer'.queue = peer.queue
      BY <2>2, <2>c
    <3>2. OnWay \ {f} \subseteq OnWay'
      BY <2>4, <2>6, <2>7, <3>1
    <3>8. OnWay' \subseteq OnWay
      BY <2>4, <2>6, <2>7, <3>1
    <3>3. f \notin Keys
      BY <2>c DEF Keys
    <3>4. IsLatest(dropped) => IsLatest(dropped')
      BY <1>t, <1>f, <2>3, <2>4, LostLatest
    <3>5. f \in Lates => IsLatest(dropped')
      <4> SUFFICES ASSUME f \in Lates PROVE IsLatest(dropped')
        OBVIOUS
      <4>1. IsLatest(f) /\ f.epoch = encoder.epoch
        BY DEF Lates, IsLatest
      <4>2. f.epoch # 0
        BY <1>t, <4>1, OrderFacts
      <4>3. ~ \E i \in DOMAIN peer.queue : peer.queue[i].frame = f
        <5> SUFFICES ASSUME NEW i \in DOMAIN peer.queue, peer.queue[i].frame = f PROVE FALSE
          OBVIOUS
        <5>1. CASE peer.queue[i].kind = "VIDEO"
          <6>1. f \in Frames(peer.queue)
            BY <5>1 DEF Frames
          <6>2. f.epoch < f.epoch \/ f.n < f.n
            BY <2>5, <6>1 DEF Before
          <6> QED
            BY <1>f, <6>2
        <5>2. CASE peer.queue[i].frame = NoFrame
          BY <4>2, <5>2 DEF NoFrame, None
        <5> QED
          BY <5>1, <5>2 DEF Ready, OfConfig
      <4>4. dropped' = Lost(f)
        BY <2>3, <3>1, <4>3
      <4> QED
        BY <1>t, <2>4, <4>1, <4>4, LostLatest
    <3>6. OnWay \cap Keys # {} => OnWay' \cap Keys # {}
      BY <3>2, <3>3
    <3>7. OnWay \cap Lates # {} => IsLatest(dropped') \/ OnWay' \cap Lates # {}
      BY <3>2, <3>5
    <3> QED
      BY <3>4, <3>6, <3>7, <3>8
  <2> QED
    BY <1>t, <2>a, <2>b, <2>c, Enqueued
<1> QED
  BY <1>2, <1>3

\* The session sends a frame: it is the newest, and a key if one was due.
LEMMA SendOwed ==
  ASSUME Inv, Attempts, InOrder, Ready, Bounded, Owed, SendFrame
  PROVE  Owed'
<1> DEFINE e == encoder.epoch
           n == encoder.frames
<1>t. /\ e \in Nat /\ n \in Nat /\ dropped \in Frame /\ page.seq \in Int /\ down \in Seq(Message)
      /\ mailbox \in Seq(Message) /\ rtcGen \in Nat
  BY FrameFacts
<1>f. PICK f \in Frame : f = [epoch |-> encoder.epoch, n |-> encoder.frames, key |-> encoder.wantKey]
  BY FrameSent
<1>0. /\ f.epoch = e /\ f.n = n /\ f.key = encoder.wantKey
      /\ encoder'.epoch = e /\ encoder'.frames = n + 1 /\ ~encoder'.wantKey
      /\ UNCHANGED <<claim, peer, notices, up, channel, page, rtc, rtcGen, crossed>>
  BY <1>f, FrameSent
<1>1. \/ /\ claim.active /\ UNCHANGED <<down, wsConfig>>
         /\ \/ /\ mailbox' = Append(mailbox, Video(f)) /\ dropped' = dropped
               /\ keyLost' = IF f.key THEN FALSE ELSE keyLost
            \/ /\ mailbox' = mailbox /\ dropped' = Lost(f)
               /\ keyLost' = IF f.key THEN TRUE ELSE keyLost
      \/ /\ ~claim.active /\ wsConfig' = e /\ UNCHANGED <<mailbox, dropped>>
         /\ keyLost' = IF f.key THEN Unheard ELSE keyLost
         /\ \/ wsConfig = e /\ down' = Append(down, Video(f))
            \/ /\ wsConfig # e
               /\ down' = Append(Append(down, Say("CONFIG", e)), Video(f))
               /\ Append(down, Say("CONFIG", e)) \in Seq(Message)
  BY <1>f, FrameSent
<1>m. PICK v \in Message : v = Video(f) /\ v.kind = "VIDEO" /\ v.frame = f
  BY VideoType DEF Video
<1> SUFFICES ASSUME ~crossed', ~Due' PROVE Comes'
  BY DEF Owed
<1>2. ~encoder.wantKey => Comes
  <2>1. ~encoder.wantKey => ~Due
    BY <1>0 DEF Due
  <2> QED
    BY <1>0, <2>1 DEF Owed
<1>3. Ahead(f)
  BY <1>0 DEF Bounded, PageBounds, Ahead
<1>4. Keys' = Keys
  BY <1>0 DEF Keys, Ahead
<1>5. f \in Lates'
  <2>1. IsLatest(f)'
    BY <1>t, <1>0 DEF IsLatest
  <2> QED
    BY <1>0, <1>3, <2>1 DEF Lates, Ahead
<1>6. f.key => f \in Keys
  BY <1>0, <1>3 DEF Keys
<1>7. claim.g # None => claim.active /\ rtc.at = "open" /\ rtc.g = claim.g
  BY <1>0 DEF Due
<1>8. Unheard' <=> Unheard
  BY <1>0 DEF Unheard, videoVia
<1>a. CASE claim.active
  <2>1. claim.g # None
    BY <1>a DEF Attempts, Served
  <2>2. OnWay = Frames(channel) \cup Frames(peer.queue) \cup Frames(mailbox)
    BY <2>1 DEF OnWay
  <2>3. OnWay' = Frames(channel) \cup Frames(peer.queue) \cup Frames(mailbox')
    BY <1>0, <2>1 DEF OnWay
  <2>4. Refreshes'
    <3>1. Closed = rtcGen - 1 /\ rtcGen # 0
      BY <1>7, <2>1, UnderWay DEF Closed
    <3>2. ~Says(down, "keyframe", rtcGen)
      BY <1>t, <3>1 DEF Attempts, Answers
    <3>3. Followed(down, "keyframe", rtcGen, Keys)
      BY <3>2, FollowedNobody
    <3> QED
      BY <1>0, <1>1, <1>a, <1>4, <3>1, <3>3 DEF Refreshes
  <2>5. PassedOver'
    BY <1>0, <1>7, <1>8, <2>1 DEF PassedOver, Unheard
  <2>b. CASE mailbox' = Append(mailbox, Video(f)) /\ keyLost' = IF f.key THEN FALSE ELSE keyLost
    <3>1. Frames(mailbox') = Frames(mailbox) \cup {f}
      <4>1. Frames(Append(mailbox, v)) = Frames(mailbox) \cup {f}
        BY <1>t, <1>m, FramesAppended
      <4> QED
        BY <1>m, <2>b, <4>1
    <3>2. OnWay' = OnWay \cup {f}
      BY <2>2, <2>3, <3>1
    <3>3. KeyComes'
      <4>1. CASE f.key
        BY <1>4, <1>6, <3>2, <4>1 DEF KeyComes
      <4>2. CASE ~f.key
        BY <1>0, <1>2, <1>4, <2>b, <3>2, <4>2 DEF KeyComes, Comes
      <4> QED
        BY <4>1, <4>2
    <3>4. LatestComes'
      BY <1>5, <3>2 DEF LatestComes
    <3> QED
      BY <2>4, <2>5, <3>3, <3>4 DEF Comes
  <2>c. CASE mailbox' = mailbox /\ dropped' = Lost(f) /\ keyLost' = IF f.key THEN TRUE ELSE keyLost
    <3>1. OnWay' = OnWay
      BY <2>2, <2>3, <2>c
    <3>2. KeyComes'
      <4>1. CASE f.key
        BY <2>c, <4>1 DEF KeyComes
      <4>2. CASE ~f.key
        BY <1>0, <1>2, <1>4, <2>c, <3>1, <4>2 DEF KeyComes, Comes
      <4> QED
        BY <4>1, <4>2
    <3>3. dropped' = f
      <4>1. dropped.epoch \in Nat /\ dropped.n \in Nat
        BY <1>t DEF Frame
      <4>2. dropped.epoch < e \/ (dropped.epoch = e /\ dropped.n < n)
        BY DEF InOrder, Sound
      <4>3. f.epoch > dropped.epoch \/ (f.epoch = dropped.epoch /\ f.n > dropped.n)
        BY <1>t, <1>0, <4>1, <4>2
      <4> QED
        BY <2>c, <4>3 DEF Lost
    <3>4. LatestComes'
      <4>1. dropped'.epoch = encoder'.epoch /\ dropped'.n = encoder'.frames - 1
        BY <1>t, <1>0, <3>3
      <4> QED
        BY <4>1 DEF LatestComes, IsLatest
    <3> QED
      BY <2>4, <2>5, <3>2, <3>4 DEF Comes
  <2> QED
    BY <1>1, <1>a, <2>b, <2>c
<1>b. CASE ~claim.active
  <2>1. claim.g = None
    BY <1>7, <1>b
  <2>2. OnWay = Frames(down) /\ OnWay' = Frames(down')
    BY <1>0, <2>1 DEF OnWay
  <2>q. PICK q \in Seq(Message) :
          /\ down' = Append(q, v)
          /\ \/ q = down
             \/ q = Append(down, Say("CONFIG", e)) /\ wsConfig # e
    BY <1>t, <1>1, <1>b, <1>m
  <2>3. Frames(q) = Frames(down)
    <3>1. PICK c \in Message : c = Say("CONFIG", e) /\ c.kind = "CONFIG"
      BY <1>t, SayType DEF AllKinds, ToPage
    <3>2. Frames(Append(down, c)) = Frames(down)
      BY <1>t, <3>1, FramesAppended
    <3> QED
      BY <2>q, <3>1, <3>2
  <2>4. OnWay' = OnWay \cup {f}
    <3>1. Frames(Append(q, v)) = Frames(q) \cup {f}
      BY <1>m, FramesAppended
    <3> QED
      BY <2>2, <2>3, <2>q, <3>1
  <2>5. KeyComes'
    <3>1. CASE f.key
      BY <1>4, <1>6, <2>4, <3>1 DEF KeyComes
    <3>2. CASE ~f.key
      <4>1. keyLost' = keyLost
        BY <1>1, <1>b, <3>2
      <4> QED
        BY <1>0, <1>2, <1>4, <2>4, <3>2, <4>1 DEF KeyComes, Comes
    <3> QED
      BY <3>1, <3>2
  <2>6. LatestComes'
    BY <1>5, <2>4 DEF LatestComes
  <2>10. PassedOver'
    <3>1. CASE f.key
      BY <1>1, <1>8, <1>b, <3>1 DEF PassedOver
    <3>2. CASE ~f.key
      BY <1>0, <1>1, <1>2, <1>8, <1>b, <3>2 DEF PassedOver, Comes
    <3> QED
      BY <3>1, <3>2
  <2>7. ASSUME NEW kind \in {"keyframe", "CONFIG"}, NEW of, f.key \/ Followed(q, kind, of, Keys)
        PROVE  Followed(down', kind, of, Keys)
    <3>1. v.kind # kind
      BY <1>m
    <3>2. \/ v.kind = "VIDEO" /\ v.frame \in Keys /\ kind # "VIDEO"
          \/ Followed(q, kind, of, Keys) /\ ~(v.kind = kind /\ v.of = of)
      BY <1>m, <1>6, <2>7, <3>1
    <3>3. Followed(Append(q, v), kind, of, Keys)
      BY <3>2, FollowedAppended
    <3> QED
      BY <2>q, <3>3
  <2>8. f.key \/ (Followed(q, "keyframe", rtcGen, Keys) /\ (rtcGen = 0 => Followed(q, "CONFIG", e, Keys)))
    <3> SUFFICES ASSUME ~f.key
                 PROVE  Followed(q, "keyframe", rtcGen, Keys) /\ (rtcGen = 0 => Followed(q, "CONFIG", e, Keys))
      OBVIOUS
    <3>1. Refreshes
      BY <1>0, <1>2 DEF Comes
    <3>2. CASE q = down
      BY <3>1, <3>2 DEF Refreshes
    <3>3. CASE q = Append(down, Say("CONFIG", e)) /\ wsConfig # e
      <4>1. rtcGen # 0
        BY <1>0, <3>3 DEF Ready, Beginning, InOrder
      <4>2. \A F : Followed(down, "keyframe", rtcGen, F) => Followed(q, "keyframe", rtcGen, F)
        BY <1>t, <3>3, FollowedSays DEF AllKinds, ToPage
      <4>3. Followed(down, "keyframe", rtcGen, Keys) => Followed(q, "keyframe", rtcGen, Keys)
        BY <4>2
      <4> QED
        BY <3>1, <4>1, <4>3 DEF Refreshes
    <3> QED
      BY <2>q, <3>2, <3>3
  <2>9. Refreshes'
    <3>1. Followed(down', "keyframe", rtcGen, Keys)
      BY <2>7, <2>8
    <3>2. rtcGen = 0 => Followed(down', "CONFIG", e, Keys)
      BY <2>7, <2>8
    <3> QED
      BY <1>0, <1>4, <3>1, <3>2 DEF Refreshes
  <2> QED
    BY <2>5, <2>6, <2>9, <2>10 DEF Comes
<1> QED
  BY <1>a, <1>b

\* The page sees a frame of its path.  A frame that is passed over was not needed;
\* one that is not decoded is of a gap that the page asks about, or waits in.
LEMMA SeenOwed ==
  ASSUME Inv, Attempts, InOrder, Bounded, Owed, Due => Due',
         NEW m \in Message, Decoder(m), Sound(m.frame, encoder.epoch, encoder.frames),
         UNCHANGED <<encoder, claim, rtc, rtcGen, dropped, keyLost>>,
         page.stream # encoder.epoch => m.frame.epoch # encoder.epoch,
         ~Due => OnWay = OnWay' \cup {m.frame},
         ~Due => Below({m.frame}, OnWay'),
         ~Due => \A k \in OnWay' : Sound(k, encoder.epoch, encoder.frames),
         claim.g = None => \A kind, of, F : Followed(down, kind, of, F) => Followed(down', kind, of, F),
         ~Due /\ claim.g # None => down' = down
  PROVE  Owed'
<1> SUFFICES ASSUME ~crossed', ~Due' PROVE Comes'
  BY DEF Owed
<1>f. PICK f \in Frame : f = m.frame /\ f.epoch \in Nat /\ f.n \in Nat
  BY DEF Message, Frame
<1>e. PICK e \in Nat, n \in Nat : e = encoder.epoch /\ n = encoder.frames /\ e > 0
  BY OrderFacts
<1>t. /\ page.seq \in Int /\ page.stream \in Nat /\ page.told \in Nat /\ page.last \in Frame
      /\ page.told <= e /\ page.awaiting \in BOOLEAN /\ up \in Seq(Message)
  BY <1>e, FrameFacts, OrderFacts
<1>1. ~Due
  OBVIOUS
<1>2. page'.stream = page.stream /\ (Passed(f) \/ Seen(f))
  BY <1>f, VideoSeen
<1>3. ~crossed /\ (Seen(f) => f.epoch = page.stream)
  <2>1. Passed(f) => crossed' = crossed
    BY DEF Passed
  <2>2. Seen(f) => crossed' = (crossed \/ f.epoch # page.stream)
    BY DEF Seen
  <2>3. crossed' = (crossed \/ f.epoch # page.stream) => ~crossed /\ f.epoch = page.stream
    OBVIOUS
  <2>4. crossed' = crossed => ~crossed
    OBVIOUS
  <2>5. ~crossed
    BY <1>2, <2>1, <2>2, <2>3, <2>4
  <2>6. Seen(f) => f.epoch = page.stream
    BY <2>2, <2>3
  <2> QED
    BY <2>5, <2>6
<1>4. Comes
  BY <1>1, <1>3 DEF Owed
<1>5. /\ OnWay = OnWay' \cup {f}
      /\ \A k \in OnWay' : f.epoch < k.epoch \/ (f.epoch = k.epoch /\ f.n < k.n)
      /\ \A k \in OnWay' : k.epoch < e \/ (k.epoch = e /\ k.n < n)
      /\ f.epoch < e \/ (f.epoch = e /\ f.n < n)
      /\ page.stream # e => f.epoch # e
  <2>1. OnWay = OnWay' \cup {f}
    BY <1>1, <1>f
  <2>2. \A k \in OnWay' : f.epoch < k.epoch \/ (f.epoch = k.epoch /\ f.n < k.n)
    <3>1. Below({f}, OnWay')
      BY <1>1, <1>f
    <3> QED
      BY <3>1 DEF Below, Before
  <2>3. \A k \in OnWay' : k.epoch < e \/ (k.epoch = e /\ k.n < n)
    BY <1>1, <1>e DEF Sound
  <2>4. f.epoch < e \/ (f.epoch = e /\ f.n < n)
    BY <1>e, <1>f DEF Sound
  <2>5. page.stream # e => f.epoch # e
    BY <1>e, <1>f
  <2> QED
    BY <2>1, <2>2, <2>3, <2>4, <2>5
<1>r. ~(up' = up \o KeyWanted)
  <2> SUFFICES ASSUME up' = up \o KeyWanted PROVE FALSE
    OBVIOUS
  <2>1. up \o <<>> = up
    BY <1>t
  <2>2. up' = (up \o <<>>) \o KeyWanted
    BY <2>1
  <2>3. Says(up', "REQUEST_KEYFRAME", None)
    BY <2>2, WordsUp
  <2> QED
    BY <2>3 DEF Due
<1>k. \A k \in OnWay' : k.n \in Nat
  <2>1. OnWay \subseteq Frame
    BY FramesType, FrameFacts DEF OnWay
  <2> QED
    BY <1>5, <2>1 DEF Frame
<1>6. ASSUME NEW k \in Frame, k \in OnWay', Ahead(k) PROVE Ahead(k)'
  <2>1. k.epoch \in Nat /\ k.n \in Nat
    BY DEF Frame
  <2>2. CASE Passed(f)
    BY <1>6, <2>2 DEF Passed, Ahead
  <2>3. CASE Seen(f)
    <3>1. page'.seq = f.n /\ f.epoch = page.stream
      BY <1>3, <2>3 DEF Seen
    <3>2. f.epoch < k.epoch \/ (f.epoch = k.epoch /\ f.n < k.n)
      BY <1>5, <1>6
    <3>3. page.stream = k.epoch => f.n < k.n
      BY <1>f, <2>1, <3>1, <3>2
    <3> QED
      BY <1>2, <3>1, <3>3 DEF Ahead
  <2> QED
    BY <1>2, <2>2, <2>3
<1>7. OnWay' \cap Keys \subseteq Keys'
  BY <1>6 DEF Keys
<1>8. OnWay' \cap Lates \subseteq Lates'
  BY <1>6 DEF Lates, IsLatest
<1>9. Refreshes'
  <2>1. CASE claim.g = None
    <3>1. OnWay' = Frames(down')
      BY <2>1 DEF OnWay
    <3>2. ASSUME NEW kind, NEW of, Followed(down, kind, of, Keys) PROVE Followed(down', kind, of, Keys')
      <4>1. Followed(down', kind, of, Keys)
        BY <2>1, <3>2
      <4>2. Frames(down') \cap Keys \subseteq Keys'
        BY <1>7, <3>1
      <4> QED
        BY <4>1, <4>2, FollowedGrows
    <3>3. Refreshes
      BY <1>4 DEF Comes
    <3> QED
      BY <3>2, <3>3 DEF Refreshes
  <2>2. CASE claim.g # None
    <3>1. Closed = rtcGen - 1 /\ rtcGen > 0 /\ rtcGen \in Nat
      BY <1>1, <2>2, Flowing, UnderWay
    <3>2. ~Says(down, "keyframe", rtcGen)
      BY <3>1 DEF Attempts, Answers
    <3>3. Followed(down', "keyframe", rtcGen, Keys')
      BY <1>1, <2>2, <3>2, FollowedNobody
    <3> QED
      BY <3>1, <3>3 DEF Refreshes
  <2> QED
    BY <2>1, <2>2
<1>p. Passed(f) /\ page.stream = e => page.seq >= 0 /\ f.n <= page.seq
  BY <1>e, <1>t DEF Passed, Late, None
<1>s. Seen(f) => page.seq < 0 \/ f.n > page.seq
  BY <1>f, <1>t DEF Seen, Late
<1>10. KeyComes'
  <2> SUFFICES ASSUME page.stream = e, page'.awaiting, ~keyLost PROVE OnWay' \cap Keys' # {}
    BY <1>e, <1>2 DEF KeyComes
  <2>1. page.awaiting /\ (f.key => Passed(f))
    BY <1>2, <1>r DEF Passed, Seen
  <2>2. PICK k \in OnWay : k \in Keys
    BY <1>4, <1>e, <2>1 DEF Comes, KeyComes
  <2>3. k # f
    <3>1. CASE Passed(f)
      <4>1. f.n <= page.seq
        BY <1>p, <3>1
      <4>2. k.epoch = e /\ page.seq < k.n
        BY <1>e, <2>2 DEF Keys, Ahead
      <4> QED
        BY <1>f, <1>t, <4>1, <4>2
    <3>2. CASE ~f.key
      BY <2>2, <3>2 DEF Keys
    <3> QED
      BY <2>1, <3>1, <3>2
  <2> QED
    BY <1>5, <1>7, <2>2, <2>3
<1>11. LatestComes'
  <2> SUFFICES ASSUME n > 0, ~IsLatest(dropped), OnWay' \cap Lates' = {}
               PROVE  \/ IsLatest(page.last)'
                      \/ page'.awaiting /\ keyLost /\ NoKeyComes'
    BY <1>e, <1>2 DEF LatestComes, IsLatest
  <2>0. OnWay' \cap Lates = {}
    BY <1>8
  <2>1. CASE IsLatest(page.last)
    <3>1. page.last.epoch = e /\ page.last.n = n - 1 /\ page.last.n \in Nat
      BY <1>e, <1>t, <2>1 DEF IsLatest, Frame
    <3>2. page.last # NoFrame
      BY <1>e, <3>1 DEF NoFrame, None
    <3>3. page.stream = e /\ n - 1 <= page.seq
      BY <1>3, <3>1, <3>2 DEF Bounded, PageBounds
    <3>4. ~Seen(f)
      BY <1>e, <1>f, <1>t, <1>3, <1>5, <1>s, <3>1, <3>3
    <3> QED
      BY <1>2, <2>1, <3>4 DEF Passed, IsLatest
  <2>2. CASE page.awaiting /\ keyLost /\ NoKeyComes
    <3>1. CASE Passed(f)
      BY <1>5, <2>2, <3>1 DEF Passed, NoKeyComes
    <3>2. CASE Seen(f)
      <4>1. f \in OnWay /\ f.epoch = page.stream /\ (page.seq < 0 \/ f.n > page.seq)
        BY <1>3, <1>5, <1>s, <3>2
      <4>2. ~f.key
        BY <1>f, <1>t, <2>2, <4>1 DEF NoKeyComes
      <4>3. page'.awaiting /\ page'.seq = f.n
        BY <1>r, <2>2, <3>2, <4>2 DEF Seen
      <4>4. ASSUME NEW k \in OnWay', k.key, k.epoch = page'.stream PROVE k.n <= page'.seq
        <5>1. k \in OnWay /\ k.n \in Nat
          BY <1>5, <1>k
        <5>2. k.n <= page.seq
          BY <1>2, <2>2, <4>4, <5>1 DEF NoKeyComes
        <5> QED
          BY <1>f, <1>t, <4>1, <4>3, <5>1, <5>2
      <4> QED
        BY <2>2, <4>3, <4>4 DEF NoKeyComes
    <3> QED
      BY <1>2, <3>1, <3>2
  <2>3. CASE f \in Lates
    <3>1. f.epoch = e /\ f.n = n - 1 /\ (page.stream = e => page.seq < f.n)
      BY <1>e, <2>3 DEF Lates, IsLatest, Ahead
    <3>2. page.stream = e
      BY <1>5, <3>1
    <3>3. ~Passed(f)
      BY <1>f, <1>t, <1>p, <3>1, <3>2
    <3>4. CASE page'.last = f
      BY <1>e, <3>1, <3>4 DEF IsLatest
    <3>5. CASE page'.awaiting /\ ~f.key /\ page.awaiting /\ page'.seq = f.n
      <4>1. ASSUME NEW k \in OnWay, k \in Keys PROVE FALSE
        <5>1. k \in OnWay'
          BY <1>5, <3>5, <4>1 DEF Keys
        <5>2. k.epoch = e /\ k.n \in Nat
          BY <1>e, <4>1 DEF Keys, Frame
        <5> QED
          BY <1>e, <1>5, <3>1, <5>1, <5>2
      <4>2. keyLost
        BY <1>4, <1>e, <3>2, <3>5, <4>1 DEF Comes, KeyComes
      <4>3. ASSUME NEW k \in OnWay', k.epoch = page'.stream PROVE FALSE
        <5>1. k.epoch = e /\ k.n \in Nat /\ f.n < k.n /\ k.n < n
          BY <1>2, <1>5, <1>k, <1>e, <1>f, <3>1, <3>2, <4>3
        <5> QED
          BY <1>e, <3>1, <5>1
      <4> QED
        BY <3>5, <4>2, <4>3 DEF NoKeyComes
    <3> QED
      BY <1>2, <1>r, <3>3, <3>4, <3>5 DEF Seen
  <2> QED
    BY <1>4, <1>5, <1>e, <2>0, <2>1, <2>2, <2>3 DEF Comes, LatestComes
<1>12. PassedOver'
  BY <1>4, UnheardStays DEF Comes, PassedOver
<1> QED
  BY <1>4, <1>9, <1>10, <1>11, <1>12 DEF Comes

\* A message of the socket that the page's video does not depend on.
LEMMA SocketCalm ==
  ASSUME Inv, Attempts, Owed, FromSocket,
         page'.stream = page.stream, page'.seq = page.seq, page'.last = page.last, page'.awaiting = page.awaiting,
         crossed' = crossed, Head(down).kind # "VIDEO" \/ claim.g # None,
         rtc' = rtc \/ rtc'.at # "open",
         rtcGen' = rtcGen \/ rtcGen' = rtcGen + 1,
         channel' = channel \/ rtc'.at # "open"
  PROVE  Owed'
<1>t. down \in Seq(Message) /\ rtcGen \in Nat
  BY FrameFacts
<1>1. /\ down # <<>> /\ down' = Tail(down)
      /\ UNCHANGED <<encoder, claim, mailbox, peer, dropped, keyLost>>
  BY SocketCases DEF server, hub, refused
<1>2. Due => Due'
  BY SocketDue
<1>3. Keys' = Keys
  BY <1>1 DEF Keys, Ahead
<1>4. Refreshes => Refreshes'
  <2>1. \A kind, of, F : Followed(down, kind, of, F) => Followed(down', kind, of, F)
    BY <1>t, <1>1, RefreshesTaken
  <2>2. CASE rtcGen' = rtcGen
    BY <1>1, <1>3, <2>1, <2>2 DEF Refreshes
  <2>3. CASE rtcGen' = rtcGen + 1
    <3>1. PICK d \in Nat : d = rtcGen + 1 /\ d > rtcGen /\ d # 0
      BY <1>t
    <3>2. ~Says(down, "keyframe", d)
      BY <1>t, <3>1, UnderWay DEF Attempts, Answers
    <3>3. Followed(down, "keyframe", d, Keys)
      BY <3>2, FollowedNobody
    <3>4. Followed(down', "keyframe", d, Keys)
      BY <2>1, <3>3
    <3> QED
      BY <1>3, <2>3, <3>1, <3>4 DEF Refreshes
  <2> QED
    BY <2>2, <2>3
<1>5. ~Due' => OnWay' = OnWay
  <2> SUFFICES ASSUME ~Due' PROVE OnWay' = OnWay
    OBVIOUS
  <2>1. CASE claim.g = None
    <3>1. Frames(Tail(down)) = Frames(down)
      BY <1>t, <1>1, <2>1, FramesTaken
    <3> QED
      BY <1>1, <2>1, <3>1 DEF OnWay
  <2>2. CASE claim.g # None
    <3>1. channel' = channel
      BY <1>1, <2>2 DEF Due
    <3> QED
      BY <1>1, <2>2, <3>1 DEF OnWay
  <2> QED
    BY <2>1, <2>2
<1> QED
  BY <1>1, <1>2, <1>4, <1>5, CalmOwed, UnheardStays

\* A frame that comes down the socket to a page that listens to its channel, before the
\* hub knows of that: the key the page waits for went the same way.
LEMMA UnheardOwed ==
  ASSUME Inv, Attempts, InOrder, Waits, Owed, FromSocket, Head(down).kind = "VIDEO",
         claim.g = None, rtc.at = "open", UNCHANGED <<page, rtc, rtcGen, crossed>>
  PROVE  Owed'
<1>t. /\ down \in Seq(Message) /\ encoder.epoch \in Nat /\ encoder.frames \in Nat
      /\ Line(down, encoder.epoch, encoder.frames)
  BY FrameFacts, OrderFacts
<1>1. /\ down # <<>> /\ down' = Tail(down)
      /\ UNCHANGED <<encoder, claim, mailbox, peer, dropped, keyLost>>
  BY SocketCases DEF server, hub, refused
<1> SUFFICES ASSUME ~crossed', ~Due' PROVE Comes'
  BY DEF Owed
<1>2. Comes
  BY SocketDue DEF Owed
<1>3. page.awaiting /\ keyLost
  <2>1. Unheard
    BY OpenNumbers DEF Unheard, videoVia
  <2> QED
    BY <1>2, <2>1 DEF Waits, Comes, PassedOver
<1>f. PICK f \in Frame : f = Head(down).frame /\ f.epoch \in Nat /\ f.n \in Nat
  BY <1>t, <1>1, TailFacts DEF Message, Frame
<1>4. OnWay = Frames(down) /\ OnWay' = Frames(down') /\ Frames(down) = Frames(down') \cup {f}
  BY <1>t, <1>1, <1>f, FramesTaken DEF OnWay
<1>5. Below({f}, OnWay') /\ \A k \in OnWay' : Sound(k, encoder.epoch, encoder.frames)
  BY <1>t, <1>1, <1>4, <1>f, LineTaken DEF Line
<1>6. Keys' = Keys /\ Lates' = Lates
  BY <1>1 DEF Keys, Lates, IsLatest, Ahead
<1>7. Refreshes'
  <2>1. \A kind, of, F : Followed(down, kind, of, F) => Followed(down', kind, of, F)
    BY <1>t, <1>1, RefreshesTaken
  <2> QED
    BY <1>1, <1>2, <1>6, <2>1 DEF Comes, Refreshes
<1>8. LatestComes'
  <2> SUFFICES ASSUME encoder.frames > 0, ~IsLatest(page.last), ~IsLatest(dropped), OnWay' \cap Lates = {}
               PROVE  NoKeyComes'
    BY <1>1, <1>3, <1>6 DEF LatestComes, IsLatest
  <2>1. CASE NoKeyComes
    BY <1>4, <2>1 DEF NoKeyComes
  <2>2. CASE IsLatest(f)
    <3>1. ASSUME NEW k \in OnWay' PROVE FALSE
      <4>1. k \in Frame
        BY <1>t, <1>4, <3>1, FramesType
      <4>2. k.epoch \in Nat /\ k.n \in Nat
        BY <4>1 DEF Frame
      <4>3. f.epoch < k.epoch \/ (f.epoch = k.epoch /\ f.n < k.n)
        BY <1>5, <3>1 DEF Below, Before
      <4>4. k.epoch < encoder.epoch \/ (k.epoch = encoder.epoch /\ k.n < encoder.frames)
        BY <1>5, <3>1 DEF Sound
      <4> QED
        BY <1>f, <1>t, <2>2, <4>2, <4>3, <4>4 DEF IsLatest
    <3> QED
      BY <3>1 DEF NoKeyComes
  <2>3. NoKeyComes \/ IsLatest(f)
    BY <1>2, <1>4 DEF Comes, LatestComes, Lates
  <2> QED
    BY <2>1, <2>2, <2>3
<1> QED
  BY <1>1, <1>3, <1>7, <1>8 DEF Comes, KeyComes, PassedOver

\* The first CONFIG of a page without attempts: the stream's key is right behind it.
LEMMA FirstConfig ==
  ASSUME Inv, Attempts, InOrder, Ready, Bounded, Owed, FromSocket, Head(down).kind = "CONFIG",
         Begins(Head(down).of), page.stream = None, rtcGen = 0, MaybeRtc(FALSE), crossed' = crossed
  PROVE  Owed'
<1> DEFINE a == Head(down).of
<1>t. /\ down \in Seq(Message) /\ encoder.epoch \in Nat /\ encoder.epoch > 0 /\ page.last \in Frame
  BY FrameFacts, OrderFacts
<1>1. /\ down # <<>> /\ down' = Tail(down)
      /\ UNCHANGED <<encoder, claim, mailbox, peer, dropped, keyLost>>
  BY SocketCases DEF server, hub, refused
<1> SUFFICES ASSUME ~crossed', ~Due' PROVE Comes'
  BY DEF Owed
<1>2. Comes
  BY SocketDue DEF Owed
<1>3. claim.g = None /\ ~Unheard'
  <2>1. rtc.at = "none"
    BY UnderWay
  <2>2. rtc'.at # "open"
    BY <2>1 DEF MaybeRtc, attempts
  <2> QED
    BY <2>2, UnderWay DEF Attempts, Served, None, Unheard, videoVia
<1>4. OnWay = Frames(down) /\ OnWay' = Frames(down) /\ Frames(down') = Frames(down)
  BY <1>t, <1>1, <1>3, FramesTaken DEF OnWay
<1>5. page'.stream = a /\ page'.seq = -1
  BY DEF Begins
<1>6. ASSUME NEW k \in Frame PROVE Ahead(k)'
  <2>1. k.n \in Nat
    BY DEF Frame
  <2>2. -1 < k.n
    BY <2>1
  <2> QED
    BY <1>5, <2>2 DEF Ahead
<1>7. Keys \subseteq Keys' /\ Lates \subseteq Lates'
  BY <1>1, <1>6 DEF Keys, Lates, IsLatest
<1>8. ASSUME NEW kind, NEW of, Followed(down, kind, of, Keys) PROVE Followed(down', kind, of, Keys')
  <2>1. Followed(down', kind, of, Keys)
    BY <1>t, <1>1, <1>8, RefreshesTaken
  <2>2. Frames(down') \cap Keys \subseteq Keys'
    BY <1>7
  <2> QED
    BY <2>1, <2>2, FollowedGrows
<1>9. Refreshes'
  <2>1. Followed(down, "CONFIG", encoder.epoch, Keys) /\ Followed(down, "keyframe", 0, Keys)
    BY <1>2 DEF Comes, Refreshes
  <2>2. rtcGen' = 0 \/ rtcGen' = 1
    BY AttemptMoves
  <2>3. Followed(down, "keyframe", 1, Keys)
    <3>1. ~Says(down, "keyframe", 1)
      BY UnderWay DEF Attempts, Answers
    <3> QED
      BY <3>1, FollowedNobody
  <2>4. Followed(down', "keyframe", rtcGen', Keys')
    BY <1>8, <2>1, <2>2, <2>3
  <2>5. Followed(down', "CONFIG", encoder.epoch, Keys')
    BY <1>8, <2>1
  <2> QED
    BY <1>1, <2>4, <2>5 DEF Refreshes
<1>10. KeyComes'
  <2> SUFFICES ASSUME a = encoder.epoch PROVE OnWay' \cap Keys' # {}
    BY <1>1, <1>5 DEF KeyComes
  <2>1. Followed(down, "CONFIG", encoder.epoch, Keys)
    BY <1>2 DEF Comes, Refreshes
  <2>2. Frames(Tail(down)) \cap Keys # {}
    BY <1>t, <1>1, <2>1, FollowedTaken
  <2> QED
    BY <1>1, <1>4, <1>7, <2>2
<1>11. LatestComes'
  <2> SUFFICES ASSUME encoder.frames > 0 PROVE IsLatest(dropped) \/ OnWay \cap Lates # {}
    BY <1>1, <1>4, <1>7 DEF LatestComes, IsLatest
  <2>1. ~IsLatest(page.last)
    <3> SUFFICES ASSUME page.last.epoch = encoder.epoch PROVE FALSE
      BY DEF IsLatest
    <3>1. page.last # NoFrame
      BY <1>t DEF NoFrame, None
    <3>2. page.last.epoch = page.stream
      BY <3>1 DEF Bounded, PageBounds
    <3> QED
      BY <1>t, <3>2 DEF None
  <2>2. page.stream # encoder.epoch
    BY <1>t DEF None
  <2>3. ~keyLost
    BY DEF Ready, Beginning
  <2> QED
    BY <1>2, <2>1, <2>2, <2>3 DEF Comes, LatestComes
<1> QED
  BY <1>3, <1>9, <1>10, <1>11 DEF Comes, PassedOver

\* Word of the current attempt's end makes the page wait, and its key is behind it.
LEMMA KeyframeOwed ==
  ASSUME Inv, Attempts, InOrder, Owed, FromSocket, Head(down).kind = "keyframe", Head(down).of = rtcGen,
         page' = [page EXCEPT !.awaiting = TRUE], UNCHANGED <<rtc, rtcGen, channel, crossed>>
  PROVE  Owed'
<1>t. down \in Seq(Message) /\ page \in Pages /\ rtcGen \in Nat
  BY FrameFacts
<1>1. /\ down # <<>> /\ down' = Tail(down)
      /\ UNCHANGED <<encoder, claim, mailbox, peer, dropped, keyLost>>
  BY SocketCases DEF server, hub, refused
<1> SUFFICES ASSUME ~crossed', ~Due' PROVE Comes'
  BY DEF Owed
<1>2. ~Due /\ Comes
  BY SocketDue DEF Owed
<1>3. claim.g = None
  <2> SUFFICES ASSUME claim.g # None PROVE FALSE
    OBVIOUS
  <2>1. Closed = rtcGen - 1
    BY <1>2, Flowing
  <2>2. Says(down, "keyframe", rtcGen)
    BY <1>t, <1>1, SaysTaken
  <2> QED
    BY <1>t, <2>1, <2>2 DEF Attempts, Answers
<1>4. OnWay = Frames(down) /\ OnWay' = Frames(down) /\ Frames(down') = Frames(down)
  BY <1>t, <1>1, <1>3, FramesTaken DEF OnWay
<1>5. page'.stream = page.stream /\ page'.seq = page.seq /\ page'.last = page.last /\ page'.awaiting
  BY <1>t DEF Pages
<1>6. Keys' = Keys /\ Lates' = Lates
  BY <1>1, <1>5 DEF Keys, Lates, IsLatest, Ahead
<1>7. Followed(down, "keyframe", rtcGen, Keys)
  BY <1>2 DEF Comes, Refreshes
<1>8. Refreshes'
  <2>1. \A kind, of, F : Followed(down, kind, of, F) => Followed(down', kind, of, F)
    BY <1>t, <1>1, RefreshesTaken
  <2> QED
    BY <1>1, <1>2, <1>6, <2>1 DEF Comes, Refreshes
<1>9. KeyComes'
  <2>1. Frames(Tail(down)) \cap Keys # {}
    BY <1>t, <1>1, <1>7, FollowedTaken
  <2> QED
    BY <1>1, <1>4, <1>6, <2>1 DEF KeyComes
<1>10. LatestComes'
  BY <1>1, <1>2, <1>4, <1>5, <1>6 DEF Comes, LatestComes, NoKeyComes, IsLatest
<1>11. PassedOver'
  BY <1>1, <1>2, UnheardStays DEF Comes, PassedOver
<1> QED
  BY <1>8, <1>9, <1>10, <1>11 DEF Comes

\* A key that has become due leaves nothing else owed.
LEMMA SaysSo ==
  ASSUME Says(up', "REQUEST_KEYFRAME", None)
  PROVE  Owed'
BY DEF Owed, Due

\* No message on the socket loses what the page lacks.
LEMMA SocketOwed ==
  ASSUME Inv, Attempts, InOrder, Ready, Bounded, Waits, Owed, FromSocket
  PROVE  Owed'
<1> DEFINE m == Head(down)
<1>t. /\ down \in Seq(Message) /\ page \in Pages /\ rtc \in Rtcs
      /\ Line(down, encoder.epoch, encoder.frames)
  BY FrameFacts, UnderWay, OrderFacts
<1>1. /\ down # <<>> /\ down' = Tail(down)
      /\ UNCHANGED <<encoder, claim, mailbox, peer, dropped, keyLost>>
  BY SocketCases DEF server, hub, refused
<1>2. m \in Message /\ m.of \in Nat
  BY <1>t, <1>1, TailFacts DEF Message
<1>d. Due => Due'
  BY SocketDue
<1>3. CASE /\ UNCHANGED <<page, attempts, channel, crossed>> /\ (m.kind = "VIDEO" => rtc.at = "open")
  <2>1. CASE m.kind # "VIDEO" \/ claim.g # None
    BY <1>3, <2>1, SocketCalm DEF attempts
  <2>2. CASE m.kind = "VIDEO" /\ claim.g = None
    BY <1>3, <2>2, UnheardOwed DEF attempts
  <2> QED
    BY <2>1, <2>2
<1>m. MaybeRtc(FALSE) => rtc' = rtc \/ rtc'.at # "open"
  BY DEF MaybeRtc, attempts
<1>4. CASE m.kind = "RTC_CONFIG" /\ MaybeRtc(FALSE) /\ UNCHANGED <<page, channel, crossed>>
  BY <1>4, <1>m, SocketCalm, AttemptMoves
<1>5. CASE /\ m.kind = "STREAM_STATE" /\ page' = [page EXCEPT !.told = m.of]
           /\ UNCHANGED <<attempts, channel, crossed>>
  <2>1. page'.stream = page.stream /\ page'.seq = page.seq /\ page'.last = page.last /\ page'.awaiting = page.awaiting
    BY <1>t, <1>5 DEF Pages
  <2> QED
    BY <1>5, <2>1, SocketCalm DEF attempts
<1>6. CASE m.kind = "CONFIG" /\ OnConfig(m.of, "websocket") /\ crossed' = crossed
  <2>1. CASE UNCHANGED <<page, attempts, channel>>
    BY <1>6, <2>1, SocketCalm DEF attempts
  <2>2. CASE Says(up', "REQUEST_KEYFRAME", None)
    BY <2>2, SaysSo
  <2>3. CASE Begins(m.of) /\ page.stream = None /\ rtcGen = 0
    <3>1. rtc.at # "open"
      BY <2>3, UnderWay
    <3>2. CASE MaybeRtc(FALSE)
      BY <1>6, <2>3, <3>2, FirstConfig
    <3>3. CASE rtc.at = "open"
      BY <3>1, <3>3
    <3> QED
      BY <1>2, <1>6, <2>1, <2>2, <3>2, <3>3, ConfigSeen
  <2> QED
    BY <1>2, <1>6, <2>1, <2>2, <2>3, ConfigSeen
<1>7. CASE m.kind = "VIDEO" /\ Decoder(m) /\ rtc.at # "open" /\ UNCHANGED attempts
  <2>1. /\ Sound(m.frame, encoder.epoch, encoder.frames) /\ Below({m.frame}, Frames(Tail(down)))
        /\ Line(Tail(down), encoder.epoch, encoder.frames)
        /\ Frames(down) = Frames(Tail(down)) \cup {m.frame}
    BY <1>t, <1>1, <1>7, LineTaken, FramesTaken
  <2>2. ~Due => claim.g = None
    BY <1>7, Flowing
  <2>14. rtc' = rtc
    BY <1>7 DEF attempts
  <2>3. ~Due => OnWay = Frames(down) /\ OnWay' = Frames(Tail(down))
    BY <1>1, <2>2 DEF OnWay
  <2>4. page.stream # encoder.epoch => m.frame.epoch # encoder.epoch
    <3> SUFFICES ASSUME page.stream # encoder.epoch PROVE m.frame.epoch # encoder.epoch
      OBVIOUS
    <3>1. Leads(down, encoder.epoch)
      BY DEF Ready, Configured
    <3> QED
      BY <1>t, <1>1, <1>7, <3>1, LeadsTaken
  <2>5. \A kind, of, F : Followed(down, kind, of, F) => Followed(down', kind, of, F)
    BY <1>t, <1>1, RefreshesTaken
  <2>6. ~Due => OnWay = OnWay' \cup {m.frame} /\ Below({m.frame}, OnWay')
    BY <2>1, <2>3
  <2>7. ~Due => \A k \in OnWay' : Sound(k, encoder.epoch, encoder.frames)
    BY <2>1, <2>3 DEF Line
  <2>8. rtcGen' = rtcGen
    BY <1>7 DEF attempts
  <2>9. ~Due /\ claim.g # None => down' = down
    BY <2>2
  <2>10. claim.g = None => \A kind, of, F : Followed(down, kind, of, F) => Followed(down', kind, of, F)
    BY <2>5
  <2>11. PICK v \in Message : v = m
    BY <1>2
  <2>12. Decoder(v) /\ Sound(v.frame, encoder.epoch, encoder.frames)
         /\ (page.stream # encoder.epoch => v.frame.epoch # encoder.epoch)
    BY <1>7, <2>1, <2>4, <2>11
  <2>13. /\ ~Due => OnWay = OnWay' \cup {v.frame}
         /\ ~Due => Below({v.frame}, OnWay')
    BY <2>6, <2>11
  <2> HIDE DEF m
  <2> QED
    BY <1>1, <1>d, <2>7, <2>8, <2>9, <2>10, <2>12, <2>13, <2>14, SeenOwed
<1>8. CASE /\ m.kind = "keyframe" /\ m.of = rtcGen /\ page' = [page EXCEPT !.awaiting = TRUE]
           /\ UNCHANGED <<attempts, channel, crossed>>
  BY <1>8, KeyframeOwed DEF attempts
<1>9. CASE /\ m.kind = "answer" /\ rtcGen' = rtcGen /\ UNCHANGED <<page, channel, crossed>>
           /\ rtc' = [rtc EXCEPT !.at = IF rtc.at = "offered" THEN "answered" ELSE rtc.at]
  <2>1. rtc' = rtc \/ rtc'.at # "open"
    BY <1>9, <1>t DEF Rtcs
  <2> QED
    BY <1>9, <2>1, SocketCalm
<1>10. CASE m.kind = "close" /\ FailRtc /\ UNCHANGED <<page, crossed>>
  <2>1. rtcGen' = rtcGen /\ rtc'.at # "open"
    BY <1>10, NoRtcType DEF FailRtc
  <2> QED
    BY <1>10, <2>1, SocketCalm
<1> QED
  BY <1>3, <1>4, <1>5, <1>6, <1>7, <1>8, <1>9, <1>10, SocketCases

\* Nor does one on the channel.
LEMMA PathOwed ==
  ASSUME Inv, Attempts, InOrder, Ready, Bounded, Owed, FromChannel
  PROVE  Owed'
<1> DEFINE m == Head(channel)
<1>t. /\ channel \in Seq(Message) /\ rtc.g \in Nat
      /\ Line(channel, encoder.epoch, encoder.frames)
      /\ Line(peer.queue, encoder.epoch, encoder.frames) /\ Line(mailbox, encoder.epoch, encoder.frames)
  BY FrameFacts, OrderFacts
<1>1. /\ channel # <<>> /\ channel' = Tail(channel) /\ rtc.at = "open"
      /\ UNCHANGED <<encoder, claim, mailbox, peer, dropped, keyLost, down>>
      /\ m.kind # "CONFIG" => Decoder(m) /\ UNCHANGED attempts
  <2>1. /\ channel # <<>> /\ channel' = Tail(channel) /\ rtc.at = "open"
        /\ UNCHANGED <<encoder, claim, mailbox, peer, dropped, keyLost, down>>
    BY DEF FromChannel, server, hub, refused
  <2>2. m.kind # "CONFIG" => Decoder(m) /\ UNCHANGED attempts
    BY Zenon DEF FromChannel
  <2> QED
    BY <2>1, <2>2
<1>2. m \in Message /\ m.kind \in {"CONFIG", "VIDEO"}
  BY <1>t, <1>1, TailCarries DEF Ready, OfConfig
<1>3. claim.g # None
  BY <1>1 DEF Attempts, ChannelIsCurrent
<1>d. Due => Due'
  BY SocketDue
<1>o. OnWay = (Frames(channel) \cup Frames(peer.queue) \cup Frames(mailbox))
  BY <1>3 DEF OnWay
<1>p. OnWay' = (Frames(Tail(channel)) \cup Frames(peer.queue) \cup Frames(mailbox))
  BY <1>1, <1>3 DEF OnWay
<1>4. CASE m.kind = "CONFIG"
  <2>1. UNCHANGED <<attempts, crossed>>
    BY <1>4, ChannelConfig
  <2>2. CASE UNCHANGED <<page, up>>
    <3>1. Frames(Tail(channel)) = Frames(channel)
      BY <1>t, <1>1, <1>4, FramesTaken
    <3>2. OnWay' = OnWay
      BY <1>o, <1>p, <3>1
    <3>3. Refreshes => Refreshes'
      BY <1>1, <2>1, <2>2 DEF Refreshes, Keys, Ahead, attempts
    <3> QED
      BY <1>1, <1>d, <2>1, <2>2, <3>2, <3>3, CalmOwed, UnheardStays DEF attempts
  <2>3. CASE Says(up', "REQUEST_KEYFRAME", None)
    BY <2>3, SaysSo
  <2> QED
    BY <1>4, <2>2, <2>3, ChannelConfig
<1>5. CASE m.kind = "VIDEO"
  <2>1. /\ Sound(m.frame, encoder.epoch, encoder.frames) /\ Below({m.frame}, Frames(Tail(channel)))
        /\ Line(Tail(channel), encoder.epoch, encoder.frames)
        /\ Frames(channel) = Frames(Tail(channel)) \cup {m.frame} /\ m.frame \in Frames(channel)
    BY <1>t, <1>1, <1>5, LineTaken, FramesTaken
  <2>2. OnWay = OnWay' \cup {m.frame}
    BY <1>o, <1>p, <2>1
  <2>3. Below({m.frame}, OnWay')
    <3>1. Below(Frames(channel), Frames(peer.queue)) /\ Below(Frames(channel), Frames(mailbox))
      BY DEF InOrder
    <3>2. ASSUME NEW k \in OnWay' PROVE Before(m.frame, k)
      BY <1>p, <2>1, <3>1, <3>2 DEF Below
    <3> QED
      BY <3>2 DEF Below
  <2>4. \A k \in OnWay' : Sound(k, encoder.epoch, encoder.frames)
    BY <1>t, <1>p, <2>1 DEF Line
  <2>5. CASE page.stream # encoder.epoch /\ m.frame.epoch = encoder.epoch
    <3> SUFFICES ASSUME ~Due' PROVE FALSE
      BY DEF Owed
    <3>1. peer.open /\ peer.g = rtc.g
      BY <1>3, <1>d, Flowing
    <3>2. Leads(channel, encoder.epoch)
      BY <2>5, <3>1 DEF Ready, Configured, Announced
    <3> QED
      BY <1>t, <1>1, <1>5, <2>5, <3>2, LeadsTaken
  <2>6. CASE page.stream # encoder.epoch => m.frame.epoch # encoder.epoch
    <3>1. PICK v \in Message : v = m
      BY <1>2
    <3>2. /\ Decoder(v) /\ Sound(v.frame, encoder.epoch, encoder.frames)
          /\ page.stream # encoder.epoch => v.frame.epoch # encoder.epoch
      BY <1>1, <1>5, <2>1, <2>6, <3>1
    <3>3. OnWay = OnWay' \cup {v.frame} /\ Below({v.frame}, OnWay')
      BY <2>2, <2>3, <3>1
    <3>4. rtcGen' = rtcGen /\ rtc' = rtc
      BY <1>1, <1>5 DEF attempts
    <3>5. \A kind, of, F : Followed(down, kind, of, F) => Followed(down', kind, of, F)
      BY <1>1
    <3> HIDE DEF m
    <3> QED
      BY <1>1, <1>d, <2>4, <3>2, <3>3, <3>4, <3>5, SeenOwed
  <2> QED
    BY <2>5, <2>6
<1> QED
  BY <1>2, <1>4, <1>5

\* A key is due initially.
LEMMA InitOwed == Init => Owed
BY FirstNumbers DEF Init, Owed, Due

\* Every step leaves what the page lacks under way, or a key due.
LEMMA NextOwed == Inv /\ Attempts /\ InOrder /\ Ready /\ Bounded /\ Waits /\ Owed /\ [Next]_vars => Owed'
<1> SUFFICES ASSUME Inv, Attempts, InOrder, Ready, Bounded, Waits, Owed, [Next]_vars PROVE Owed'
  OBVIOUS
<1>1. CASE Session
  BY <1>1, SessionOwed, SendOwed DEF Session
<1>2. CASE Hub
  <2>1. CASE TakeMail
    BY <2>1, MailCases, OfferOwed, FrameOwed, CloseOwed
  <2> QED
    BY <1>2, <2>1, ChannelOwed DEF Hub
<1>3. CASE Page
  <2>1. CASE Reconnect
    <3>1. encoder' = NewEncoder(1)
      BY <2>1 DEF Reconnect
    <3> QED
      BY <3>1, FirstNumbers DEF Owed, Due
  <2> QED
    BY <1>3, <2>1, TransportOwed, SocketOwed, PathOwed DEF Page
<1>4. CASE UNCHANGED vars
  BY <1>4 DEF vars, server, hub, pageSide, attempts, refused, Owed, Due, Comes, Refreshes, KeyComes, LatestComes,
              OnWay, Keys, Lates, IsLatest, Ahead, NoKeyComes, PassedOver, Unheard, videoVia
<1> QED
  BY <1>1, <1>2, <1>3, <1>4, ConnectOwed DEF Next

\* What was sent arrives, or is owed, or one of the four ways to lose it is on record.
LEMMA OwedIsEnough == Inv /\ Attempts /\ Owed => NothingStaysLost
<1> SUFFICES ASSUME Inv, Attempts, Owed, Settled, ~crossed, encoder.frames > 0, ~encoder.wantKey
             PROVE  \/ [epoch |-> page.last.epoch, n |-> page.last.n] = Newest
                    \/ [epoch |-> dropped.epoch, n |-> dropped.n] = Newest
                    \/ page.awaiting /\ keyLost
  BY DEF NothingStaysLost
<1>1. /\ up = <<>> /\ down = <<>> /\ channel = <<>> /\ mailbox = <<>> /\ notices = {}
      /\ peer.open => peer.queue = <<>> /\ rtc = [g |-> peer.g, at |-> "open"]
  BY DEF Settled
<1>2. claim.g # None => /\ peer.open /\ peer.g = claim.g /\ claim.active
  <2> SUFFICES ASSUME claim.g # None PROVE claim.active
    BY DEF Attempts, Served
  <2>1. rtc.g = claim.g
    <3>1. Holds = claim.g
      BY DEF Settled, Holds
    <3> QED
      BY <1>1, <3>1, SaysNothing DEF Attempts, GivenUp
  <2> QED
    BY <1>1, <2>1, SaysNothing DEF Attempts, GivenUp
<1>3. ~Due
  BY <1>1, <1>2, SaysNothing DEF Due
<1>4. OnWay = {}
  BY <1>1, <1>2, NothingFollows DEF OnWay
<1>5. LatestComes
  BY <1>3 DEF Owed, Comes
<1> QED
  BY <1>4, <1>5 DEF LatestComes, IsLatest, Newest

\* Once everything sent has arrived, over either path and however often the video
\* changed between them, and in whichever order the two ends hear of an open channel,
\* the page has decoded the newest frame or the encoder owes it a key, but for the four
\* exceptions that NothingStaysLost names: a newest frame that a full queue of the hub
\* dropped, a page that waits for a key which the hub's full mailbox dropped or which the
\* session sent down the socket the page no longer takes video from, and a page that took
\* a frame of another stream.
THEOREM NothingIsLostForGood == Spec => []NothingStaysLost
<1>1. Init => Inv /\ Attempts /\ InOrder /\ Ready /\ Bounded /\ Waits /\ Owed
  BY InitInv, InitAttempts, InitOrder, InitReady, InitBounds, InitWaits, InitOwed
<1>2. /\ Inv /\ Attempts /\ InOrder /\ Ready /\ Bounded /\ Waits /\ Owed /\ [Next]_vars
      => (Inv /\ Attempts /\ InOrder /\ Ready /\ Bounded /\ Waits /\ Owed)'
  BY NextInv, NextAttempts, NextOrder, NextReady, NextBounds, NextWaits, NextOwed
<1> QED
  BY <1>1, <1>2, OwedIsEnough, PTL DEF Spec
=============================================================================
