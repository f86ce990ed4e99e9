--------------------------- MODULE FesterStreamProofs ---------------------------
(* Theorems about FesterStream for every set of builds, every script of events,  *)
(* every size of the buffer and any number of drops.                             *)
EXTENDS FesterStream, SequenceTheorems, WellFoundedInduction, TLAPS

ServiceTypes == emitted \in [Builds -> Nat] /\ sub \in Builds \cup {NoBuild}
WireTypes ==
    /\ down \in Seq(Frame) /\ up \in Seq(Builds \cup {NoBuild})
    /\ link \in {"offline", "connecting", "online"} /\ drops \in Nat
BufferTypes == events \in Seq(Frame) /\ Len(events) <= Cap
FetchTypes ==
    fetch \in [build : Builds \cup {NoBuild}, start : Nat, served : BOOLEAN, map : Nat]
FoldTypes ==
    /\ sel \in Builds \cup {NoBuild}
    /\ applied \in [build : Builds \cup {NoBuild}, last : Nat]
    /\ dag \in [Builds -> Nat]
ListTypes == rest \in [Builds -> Nat] /\ lost \in [Builds -> BOOLEAN]

\* The type invariant in parts.
LEMMA TypeParts ==
    /\ TypeOK <=> /\ ServiceTypes /\ WireTypes /\ BufferTypes /\ FetchTypes
                  /\ FoldTypes /\ ListTypes
    /\ TypeOK' <=> /\ ServiceTypes' /\ WireTypes' /\ BufferTypes' /\ FetchTypes'
                   /\ FoldTypes' /\ ListTypes'
BY DEF TypeOK, ServiceTypes, WireTypes, BufferTypes, FetchTypes, FoldTypes, ListTypes

-----------------------------------------------------------------------------
(* the greatest of some positions *)

\* Every nonempty set of naturals has a least element.
LEMMA LeastNat == ASSUME NEW T, T \subseteq Nat, T # {} PROVE \E x \in T : \A y \in T : x <= y
<1>1. PICK x \in T : \A y \in T : ~ (<<y, x>> \in OpToRel(<, Nat))
  BY WFMin, NatLessThanWellFounded
<1>2. \A y \in T : ~ (y < x)
  BY <1>1 DEF OpToRel
<1> QED
  BY <1>2

\* A nonempty set of numbers up to n has a greatest one, which is its Max.
LEMMA MaxIn ==
    ASSUME NEW n \in Nat, NEW S, S \subseteq 0..n, S # {}
    PROVE  Max(S) \in S /\ Max(S) \in Nat /\ \A x \in S : x <= Max(S)
<1> DEFINE T == {k \in 0..n : n - k \in S}
<1>0. \A x \in S : x \in Nat /\ n - x \in Nat /\ n - x \in 0..n /\ n - (n - x) = x
  OBVIOUS
<1>1. \A x \in S : n - x \in T
  BY <1>0
<1>2. T \subseteq Nat /\ T # {}
  <2>1. PICK x \in S : TRUE
    OBVIOUS
  <2>2. n - x \in T
    BY <1>1
  <2>3. T \subseteq Nat
    OBVIOUS
  <2> QED
    BY <2>2, <2>3
<1>3. PICK k \in T : \A y \in T : k <= y
  <2> HIDE DEF T
  <2> QED
    BY <1>2, LeastNat
<1>4. k \in Nat /\ n - k \in S
  BY <1>3
<1>5. ASSUME NEW x \in S PROVE n - k >= x
  <2>1. k <= n - x
    BY <1>1, <1>3
  <2> QED
    BY <1>0, <1>4, <2>1
<1>6. \E m \in S : \A x \in S : m >= x
  BY <1>4, <1>5
<1>7. Max(S) \in S /\ \A x \in S : Max(S) >= x
  BY <1>6 DEF Max
<1> QED
  BY <1>0, <1>7

\* The last event of a kind is a number.
LEMMA LastOfNat == ASSUME NEW k, NEW b, NEW n \in Nat PROVE LastOf(k, b, n) \in Nat
BY MaxIn DEF LastOf

\* So is the last task update of a page.
LEMMA OnPageNat ==
    ASSUME NEW b, emitted[b] \in Nat, NEW trimmed \in Nat
    PROVE  OnPage(b, trimmed) \in Nat
<1>1. PICK end \in Nat :
        OnPage(b, trimmed) = (LET t == LastOf("task", b, end) IN IF t > trimmed THEN t ELSE 0)
  BY StreamAssumption DEF OnPage
<1>2. LastOf("task", b, end) \in Nat
  BY LastOfNat
<1> QED
  BY <1>1, <1>2

\* The greatest of the fresh positions is one of them.
LEMMA FreshMax ==
    ASSUME NEW s \in Seq(Frame), NEW last, NEW b, NEW S, S \subseteq FreshIn(s, last, b), S # {}
    PROVE  Max(S) \in S /\ Max(S) \in 1..Len(s) /\ s[Max(S)] \in Frame /\ s[Max(S)].build = b
<1>1. Len(s) \in Nat /\ S \subseteq 0..Len(s)
  BY DEF FreshIn
<1>2. Max(S) \in S
  BY <1>1, MaxIn
<1>3. Max(S) \in 1..Len(s) /\ s[Max(S)].build = b
  BY <1>2 DEF FreshIn
<1>4. s[Max(S)] \in Frame
  BY <1>3, ElementOfSeq
<1> QED
  BY <1>2, <1>3, <1>4

\* Folding the fresh events of b touches the map of b only.
LEMMA FoldOnly ==
    ASSUME NEW s \in Seq(Frame), NEW last \in Nat, NEW b \in Builds, NEW map \in [Builds -> Nat]
    PROVE  /\ FoldFresh(s, last, b, map) \in [Builds -> Nat]
           /\ \A c \in Builds \ {b} : FoldFresh(s, last, b, map)[c] = map[c]
<1> DEFINE tasks == {i \in FreshIn(s, last, b) : IsTask(s[i])}
<1>1. CASE tasks = {}
  BY <1>1 DEF FoldFresh
<1>2. CASE tasks # {}
  <2>1. tasks \subseteq FreshIn(s, last, b)
    OBVIOUS
  <2>2. s[Max(tasks)] \in Frame /\ s[Max(tasks)].build = b
    <3> HIDE DEF tasks
    <3> QED
      BY <1>2, <2>1, FreshMax
  <2>3. s[Max(tasks)].n \in Nat
    BY <2>2 DEF Frame
  <2>4. FoldFresh(s, last, b, map) = [map EXCEPT ![b] = s[Max(tasks)].n]
    BY <1>2, <2>2 DEF FoldFresh
  <2> QED
    BY <2>3, <2>4
<1> QED
  BY <1>1, <1>2

\* A position that moves down is a position.
LEMMA ShiftNat == ASSUME NEW p \in Nat, NEW k \in Nat PROVE Shift(p, k) \in Nat
BY DEF Shift

-----------------------------------------------------------------------------
(* types *)

\* A flush keeps the types of the buffer and of the fold.
LEMMA FlushTypes == ASSUME TypeOK, NEW k \in 0..MaxWire, flush(k) PROVE TypeOK'
<1> DEFINE head == SubSeq(down, 1, k)
           all == events \o head
           cut == Shift(Len(all), Cap)
           kept == SubSeq(all, cut + 1, Len(all))
           last == Shift(applied.last, cut)
           fresh == FreshIn(kept, last, sel)
           folds == sel # NoBuild /\ applied.build = sel /\ fresh # {}
<1>0. /\ ServiceTypes /\ WireTypes /\ BufferTypes /\ FetchTypes /\ FoldTypes /\ ListTypes
      /\ Cap \in Nat \ {0} /\ k \in Nat /\ k \in 1..Len(down) /\ Len(down) \in Nat
  BY TypeParts, StreamAssumption DEF flush, WireTypes
<1>1. head \in Seq(Frame) /\ Len(head) = k
  BY <1>0, SubSeqProperties DEF WireTypes
<1>2. all \in Seq(Frame) /\ Len(all) \in Nat
  <2> HIDE DEF head
  <2> QED
    BY <1>0, <1>1, ConcatProperties DEF BufferTypes
<1>3. cut \in Nat /\ cut <= Len(all) /\ Len(all) - cut <= Cap
  <2> HIDE DEF all
  <2> QED
    BY <1>0, <1>2 DEF Shift
<1>4. kept \in Seq(Frame) /\ Len(kept) <= Cap
  <2> HIDE DEF all, cut
  <2>1. \A i \in cut + 1..Len(all) : all[i] \in Frame
    BY <1>2, <1>3
  <2>2. /\ kept \in Seq(Frame)
        /\ Len(kept) = IF cut + 1 <= Len(all) THEN Len(all) - (cut + 1) + 1 ELSE 0
    BY <1>2, <1>3, <2>1, SubSeqProperties
  <2> QED
    BY <1>0, <1>2, <1>3, <2>2
<1>5. last \in Nat
  <2> HIDE DEF cut
  <2> QED
    BY <1>0, <1>3, ShiftNat DEF FoldTypes
<1>6. /\ events' = kept
      /\ fetch' = [fetch EXCEPT !.start = Shift(@, cut)]
      /\ dag' = IF folds THEN FoldFresh(kept, last, sel, dag) ELSE dag
      /\ applied' = [applied EXCEPT !.last = IF folds THEN Max(fresh) ELSE last]
      /\ down' = SubSeq(down, k + 1, Len(down))
      /\ UNCHANGED <<sub, emitted, up, link, drops, sel, rest>>
  BY DEF flush
<1>7. lost' \in [Builds -> BOOLEAN]
  BY <1>0 DEF flush, ListTypes
<1> HIDE DEF kept, cut, last
<1>8. FetchTypes'
  <2>1. Shift(fetch.start, cut) \in Nat
    BY <1>0, <1>3, ShiftNat DEF FetchTypes
  <2> QED
    BY <1>0, <1>6, <2>1 DEF FetchTypes
<1>9. FoldTypes'
  <2>1. CASE folds
    <3>1. sel \in Builds /\ fresh # {}
      BY <1>0, <2>1 DEF FoldTypes
    <3>2. dag' \in [Builds -> Nat]
      BY <1>0, <1>4, <1>5, <1>6, <2>1, <3>1, FoldOnly DEF FoldTypes
    <3>3. Max(fresh) \in 1..Len(kept)
      BY <1>4, <3>1, FreshMax
    <3>4. Max(fresh) \in Nat
      BY <1>4, <3>3
    <3> QED
      BY <1>0, <1>6, <2>1, <3>2, <3>4 DEF FoldTypes
  <2>2. CASE ~folds
    BY <1>0, <1>5, <1>6, <2>2 DEF FoldTypes
  <2> QED
    BY <2>1, <2>2
<1>10. WireTypes'
  <2>1. SubSeq(down, k + 1, Len(down)) \in Seq(Frame)
    BY <1>0, SubSeqProperties DEF WireTypes
  <2> QED
    BY <1>0, <1>6, <2>1 DEF WireTypes
<1>11. ServiceTypes' /\ BufferTypes' /\ ListTypes'
  BY <1>0, <1>4, <1>6, <1>7 DEF ServiceTypes, BufferTypes, ListTypes
<1> QED
  BY <1>8, <1>9, <1>10, <1>11, TypeParts

\* The channels of the service keep the types.
LEMMA ServiceKeepsTypes ==
    ASSUME TypeOK, \/ \E b \in Builds : Emit(b)
                   \/ NodeUpdate \/ Receive \/ Connect \/ Open
                   \/ \E k \in 0..MaxWire : Drop(k)
                   \/ Poll \/ PollFails
    PROVE  TypeOK'
<1>0. ServiceTypes /\ WireTypes /\ BufferTypes /\ FetchTypes /\ FoldTypes /\ ListTypes
  BY TypeParts
<1>1. CASE \E b \in Builds : Emit(b)
  <2>1. PICK b \in Builds : Emit(b)
    BY <1>1
  <2>2. emitted[b] + 1 \in Nat
    BY <1>0 DEF ServiceTypes
  <2>3. [build |-> b, n |-> emitted[b] + 1] \in Frame
    BY <2>2 DEF Frame
  <2>4. WireTypes'
    BY <1>0, <2>1, <2>3 DEF Emit, WireTypes
  <2>5. ServiceTypes'
    BY <1>0, <2>1, <2>2 DEF Emit, ServiceTypes
  <2>6. ListTypes'
    BY <1>0, <2>1 DEF Emit, ListTypes, Passes
  <2>7. BufferTypes' /\ FetchTypes' /\ FoldTypes'
    BY <1>0, <2>1 DEF Emit, BufferTypes, FetchTypes, FoldTypes
  <2> QED
    BY <2>4, <2>5, <2>6, <2>7, TypeParts
<1>2. CASE NodeUpdate
  <2>1. Other \in Frame
    BY DEF Other, Frame
  <2>2. WireTypes'
    BY <1>0, <1>2, <2>1 DEF NodeUpdate, WireTypes
  <2> QED
    BY <1>0, <1>2, <2>2, TypeParts DEF NodeUpdate, service, tab, ServiceTypes, BufferTypes,
       FetchTypes, FoldTypes, ListTypes
<1>3. CASE Receive
  <2>1. WireTypes' /\ ServiceTypes'
    BY <1>0, <1>3 DEF Receive, WireTypes, ServiceTypes
  <2> QED
    BY <1>0, <1>3, <2>1, TypeParts DEF Receive, tab, BufferTypes, FetchTypes, FoldTypes, ListTypes
<1>4. CASE Connect
  BY <1>0, <1>4, TypeParts DEF Connect, service, tab, ServiceTypes, WireTypes, BufferTypes,
     FetchTypes, FoldTypes, ListTypes
<1>5. CASE Open
  <2>1. WireTypes'
    BY <1>0, <1>5 DEF Open, WireTypes, FoldTypes
  <2> QED
    BY <1>0, <1>5, <2>1, TypeParts DEF Open, service, tab, ServiceTypes, BufferTypes,
       FetchTypes, FoldTypes, ListTypes
<1>6. CASE \E k \in 0..MaxWire : Drop(k)
  <2>1. PICK k \in 0..MaxWire : Drop(k)
    BY <1>6
  <2>2. Len(down) \in Nat /\ k \in Nat /\ k <= Len(down)
    BY <1>0, <2>1, StreamAssumption DEF Drop, WireTypes
  <2>3. SubSeq(down, 1, k) \in Seq(Frame) /\ <<>> \in Seq(Builds \cup {NoBuild})
    BY <1>0, <2>2, SubSeqProperties DEF WireTypes
  <2>4. WireTypes' /\ ServiceTypes'
    BY <1>0, <2>1, <2>3 DEF Drop, WireTypes, ServiceTypes
  <2>5. ListTypes'
    BY <1>0, <2>1 DEF Drop, ListTypes
  <2>6. BufferTypes' /\ FetchTypes' /\ FoldTypes'
    BY <1>0, <2>1 DEF Drop, BufferTypes, FetchTypes, FoldTypes
  <2> QED
    BY <2>4, <2>5, <2>6, TypeParts
<1>7. CASE Poll \/ PollFails
  <2>1. rest' \in [Builds -> Nat]
    BY <1>0, <1>7, LastOfNat DEF Poll, PollFails, Nothing, ServiceTypes
  <2> QED
    BY <1>0, <1>7, <2>1, TypeParts DEF Poll, PollFails, service, wires, tab, ServiceTypes,
       WireTypes, BufferTypes, FetchTypes, FoldTypes, ListTypes
<1> QED
  BY <1>1, <1>2, <1>3, <1>4, <1>5, <1>6, <1>7

\* The Live DAG tab keeps the types.
LEMMA TabKeepsTypes ==
    ASSUME TypeOK, \/ \E b \in Builds : Select(b)
                   \/ Leave \/ TimelineServe \/ \E f \in BOOLEAN : TimelineAnswer(f)
    PROVE  TypeOK'
<1>0. ServiceTypes /\ WireTypes /\ BufferTypes /\ FetchTypes /\ FoldTypes /\ ListTypes
  BY TypeParts
<1>1. CASE \E b \in Builds : Select(b)
  <2>1. PICK b \in Builds : Select(b)
    BY <1>1
  <2>2. WireTypes'
    BY <1>0, <2>1 DEF Select, setSubscription, WireTypes
  <2>3. FetchTypes'
    BY <1>0, <2>1 DEF Select, FetchTypes, BufferTypes
  <2>4. FoldTypes'
    <3> DEFINE fresh == FreshIn(events, applied.last, b)
               folds == applied.build = b /\ fresh # {}
    <3>1. /\ sel' = b
          /\ dag' = IF folds THEN FoldFresh(events, applied.last, b, dag) ELSE dag
          /\ applied' = IF folds THEN [applied EXCEPT !.last = Max(fresh)] ELSE applied
      BY <2>1 DEF Select
    <3>2. dag' \in [Builds -> Nat]
      BY <1>0, <3>1, FoldOnly DEF BufferTypes, FoldTypes
    <3>3. folds => Max(fresh) \in Nat
      <4> SUFFICES ASSUME fresh # {} PROVE Max(fresh) \in Nat
        OBVIOUS
      <4>1. Max(fresh) \in 1..Len(events)
        BY <1>0, FreshMax DEF BufferTypes
      <4> QED
        BY <1>0, <4>1 DEF BufferTypes
    <3> HIDE DEF fresh
    <3> QED
      BY <1>0, <3>1, <3>2, <3>3 DEF FoldTypes
  <2>5. ServiceTypes' /\ BufferTypes' /\ ListTypes'
    BY <1>0, <2>1 DEF Select, service, ServiceTypes, BufferTypes, ListTypes
  <2> QED
    BY <2>2, <2>3, <2>4, <2>5, TypeParts
<1>2. CASE Leave
  <2>1. WireTypes'
    BY <1>0, <1>2 DEF Leave, setSubscription, WireTypes
  <2>2. FetchTypes' /\ FoldTypes'
    BY <1>2 DEF Leave, FetchTypes, FoldTypes, NoFetch, NotFolded, Nothing
  <2> QED
    BY <1>0, <1>2, <2>1, <2>2, TypeParts DEF Leave, service, ServiceTypes, BufferTypes, ListTypes
<1>3. CASE TimelineServe
  <2>1. fetch.build \in Builds
    BY <1>0, <1>3 DEF TimelineServe, FetchTypes
  <2>2. PICK trimmed \in Nat :
          fetch' = [fetch EXCEPT !.served = TRUE, !.map = OnPage(fetch.build, trimmed)]
    <3>1. PICK trimmed \in 0..Shift(emitted[fetch.build], JournalCap) :
            fetch' = [fetch EXCEPT !.served = TRUE, !.map = OnPage(fetch.build, trimmed)]
      BY <1>3 DEF TimelineServe
    <3>2. Shift(emitted[fetch.build], JournalCap) \in Nat
      BY <1>0, <2>1, ShiftNat, StreamAssumption DEF ServiceTypes
    <3>3. trimmed \in Nat
      BY <3>2
    <3> QED BY <3>1, <3>3
  <2>3. OnPage(fetch.build, trimmed) \in Nat
    BY <1>0, <2>1, OnPageNat DEF ServiceTypes
  <2>4. FetchTypes'
    BY <1>0, <2>2, <2>3 DEF FetchTypes
  <2>5. ListTypes'
    BY <1>0, <1>3 DEF TimelineServe, ListTypes
  <2> QED
    BY <1>0, <1>3, <2>4, <2>5, TypeParts DEF TimelineServe, service, wires, ServiceTypes,
       WireTypes, BufferTypes, FoldTypes
<1>4. CASE \E f \in BOOLEAN : TimelineAnswer(f)
  <2>1. PICK f \in BOOLEAN : TimelineAnswer(f)
    BY <1>4
  <2>2. FetchTypes'
    BY <2>1 DEF TimelineAnswer, FetchTypes, NoFetch
  <2>3. FoldTypes'
    BY <1>0, <2>1 DEF TimelineAnswer, FoldTypes, FetchTypes, Nothing
  <2>4. ListTypes'
    BY <1>0, <2>1 DEF TimelineAnswer, ListTypes
  <2> QED
    BY <1>0, <2>1, <2>2, <2>3, <2>4, TypeParts DEF TimelineAnswer, service, wires, ServiceTypes,
       WireTypes, BufferTypes
<1> QED
  BY <1>1, <1>2, <1>3, <1>4

\* The hub, the wire, the buffer and the tab keep their types, and the buffer its cap.
THEOREM StreamTypes == Spec => []TypeOK
<1>1. Init => TypeOK
  <2> SUFFICES ASSUME Init PROVE TypeOK
    OBVIOUS
  <2>1. <<>> \in Seq(Frame) /\ <<>> \in Seq(Builds \cup {NoBuild}) /\ Len(<<>>) = 0
    OBVIOUS
  <2>2. ServiceTypes /\ FetchTypes /\ FoldTypes /\ ListTypes
    BY DEF Init, ServiceTypes, FetchTypes, FoldTypes, ListTypes, Nothing, NoFetch, NotFolded
  <2>3. WireTypes
    BY <2>1 DEF Init, WireTypes
  <2>4. BufferTypes
    BY <2>1, StreamAssumption DEF Init, BufferTypes
  <2> QED
    BY <2>2, <2>3, <2>4, TypeParts
<1>2. TypeOK /\ [Next]_vars => TypeOK'
  <2> SUFFICES ASSUME TypeOK, [Next]_vars PROVE TypeOK'
    OBVIOUS
  <2>1. CASE UNCHANGED vars
    BY <2>1, TypeParts DEF vars, service, wires, tab, ServiceTypes, WireTypes, BufferTypes,
       FetchTypes, FoldTypes, ListTypes
  <2> QED
    BY <2>1, ServiceKeepsTypes, TabKeepsTypes, FlushTypes DEF Next
<1> QED
  BY <1>1, <1>2, PTL DEF Spec

-----------------------------------------------------------------------------
(* the subscription *)

\* What the hub will filter by once it has read what was sent.
LastSent == IF up = <<>> THEN sub ELSE up[Len(up)]

\* On an open socket the console's focus was sent; elsewhere nothing is under way.
SubInv ==
    /\ link = "online" => LastSent = sel
    /\ link # "online" => up = <<>> /\ sub = NoBuild

\* setSubscription, onopen: once every subscribe message is read, the hub filters by
\* the build the console shows, after any selections, drops and reconnects.
THEOREM FilterFollowsFocus == Spec => []SubscriptionAgrees
<1>1. Init => SubInv
  BY DEF Init, SubInv
<1>2. TypeOK /\ SubInv /\ [Next]_vars => SubInv'
  <2> SUFFICES ASSUME TypeOK, SubInv, [Next]_vars PROVE SubInv'
    OBVIOUS
  <2>0. up \in Seq(Builds \cup {NoBuild}) /\ Len(up) \in Nat
    BY DEF TypeOK
  <2>f. ASSUME up' = up, sub' = sub, sel' = sel, link' = link PROVE SubInv'
    BY <2>f DEF SubInv, LastSent
  <2>s. ASSUME NEW x \in Builds \cup {NoBuild}, setSubscription(x), sel' = x, sub' = sub,
               link' = link
        PROVE  SubInv'
    <3>1. CASE link = "online"
      <4>1. up' = Append(up, x)
        BY <2>s, <3>1 DEF setSubscription
      <4>2. up' # <<>> /\ up'[Len(up')] = x
        BY <2>0, <4>1
      <4> QED
        BY <2>s, <3>1, <4>2 DEF SubInv, LastSent
    <3>2. CASE link # "online"
      BY <2>s, <3>2 DEF setSubscription, SubInv
    <3> QED
      BY <3>1, <3>2
  <2>1. CASE \E b \in Builds : Emit(b)
    BY <2>1, <2>f DEF Emit
  <2>2. CASE \E b \in Builds : Select(b)
    BY <2>2, <2>s DEF Select, service
  <2>3. CASE NodeUpdate
    BY <2>3, <2>f DEF NodeUpdate, service, tab
  <2>4. CASE Receive
    <3>1. link' = link /\ sel' = sel /\ sub' = up[1] /\ up' = Tail(up) /\ up # <<>>
      BY <2>0, <2>4 DEF Receive, tab
    <3>2. link = "online"
      BY <3>1 DEF SubInv
    <3>3. CASE Len(up) = 1
      <4>1. up' = <<>>
        BY <2>0, <3>1, <3>3
      <4> QED
        BY <3>1, <3>2, <3>3, <4>1 DEF SubInv, LastSent
    <3>4. CASE Len(up) # 1
      <4> DEFINE t == Tail(up)
      <4>4. Len(up) > 1 /\ Len(t) = Len(up) - 1 /\ \A i \in 1..Len(t) : t[i] = up[i + 1]
        <5>0. Len(up) \in Nat \ {0}
          BY <2>0, <3>1, EmptySeq
        <5>1. Len(up) > 1
          BY <3>4, <5>0
        <5>2. Len(t) = Len(up) - 1 /\ \A i \in 1..Len(t) : t[i] = up[i + 1]
          BY <2>0, <3>1, HeadTailProperties
        <5> QED
          BY <5>1, <5>2
      <4>5. t # <<>> /\ t[Len(t)] = up[Len(up)]
        <5> HIDE DEF t
        <5>1. Len(t) \in 1..Len(t) /\ Len(t) + 1 = Len(up)
          BY <2>0, <4>4
        <5>2. t[Len(t)] = up[Len(t) + 1]
          BY <4>4, <5>1
        <5>3. t # <<>>
          BY <5>1
        <5> QED
          BY <5>1, <5>2, <5>3
      <4>1. up' # <<>> /\ up'[Len(up')] = up[Len(up)]
        BY <3>1, <4>5
      <4> QED
        BY <3>1, <3>2, <4>1 DEF SubInv, LastSent
    <3> QED
      BY <3>3, <3>4
  <2>5. CASE Connect
    BY <2>5 DEF Connect, service, SubInv
  <2>6. CASE Open
    <3>1. up = <<>> /\ sub = NoBuild /\ link' = "online" /\ sub' = sub /\ sel' = sel
      BY <2>6 DEF Open, SubInv, service, tab
    <3>2. CASE sel = NoBuild
      BY <2>6, <3>1, <3>2 DEF Open, SubInv, LastSent
    <3>3. CASE sel # NoBuild
      <4>1. up' = Append(<<>>, sel)
        BY <2>6, <3>1, <3>3 DEF Open
      <4>2. up' # <<>> /\ up'[Len(up')] = sel
        BY <4>1
      <4> QED
        BY <3>1, <4>2 DEF SubInv, LastSent
    <3> QED
      BY <3>2, <3>3
  <2>7. CASE \E k \in 0..MaxWire : Drop(k)
    BY <2>7 DEF Drop, SubInv
  <2>8. CASE \E k \in 0..MaxWire : flush(k)
    BY <2>8, <2>f DEF flush
  <2>9. CASE Poll \/ PollFails
    BY <2>9, <2>f DEF Poll, PollFails, service, wires, tab
  <2>10. CASE Leave
    BY <2>10, <2>s DEF Leave, service
  <2>11. CASE TimelineServe \/ \E f \in BOOLEAN : TimelineAnswer(f)
    BY <2>11, <2>f DEF TimelineServe, TimelineAnswer, service, wires
  <2>12. CASE UNCHANGED vars
    BY <2>12, <2>f DEF vars, service, wires, tab
  <2> QED
    BY <2>1, <2>2, <2>3, <2>4, <2>5, <2>6, <2>7, <2>8, <2>9, <2>10, <2>11, <2>12 DEF Next
<1>3. SubInv => SubscriptionAgrees
  BY DEF SubInv, SubscriptionAgrees, LastSent
<1> QED
  BY <1>1, <1>2, <1>3, StreamTypes, PTL DEF Spec

-----------------------------------------------------------------------------
(* the map *)

\* Only the build that was folded has a state in the map.
DagInv == \A c \in Builds : c # applied.build => dag[c] = 0

\* DagTab: the map holds one build, whatever timelines and selections cross.
THEOREM MapOfOneBuild == Spec => []DagOfOneBuild
<1>1. Init => DagInv
  BY DEF Init, DagInv, Nothing
<1>2. TypeOK /\ DagInv /\ [Next]_vars => DagInv'
  <2> SUFFICES ASSUME TypeOK, DagInv, [Next]_vars PROVE DagInv'
    OBVIOUS
  <2>0. ServiceTypes /\ WireTypes /\ BufferTypes /\ FetchTypes /\ FoldTypes /\ ListTypes
    BY TypeParts
  <2>f. ASSUME dag' = dag, applied' = applied PROVE DagInv'
    BY <2>f DEF DagInv
  <2>1. CASE \E b \in Builds : Select(b)
    <3>1. PICK b \in Builds : Select(b)
      BY <2>1
    <3>2. CASE UNCHANGED <<dag, applied>>
      BY <2>f, <3>2
    <3>3. CASE ~UNCHANGED <<dag, applied>>
      <4>1. /\ applied.build = b /\ applied'.build = applied.build
            /\ dag' = FoldFresh(events, applied.last, b, dag)
        BY <2>0, <3>1, <3>3 DEF Select, FoldTypes
      <4> QED
        BY <2>0, <4>1, FoldOnly DEF DagInv, BufferTypes, FoldTypes
    <3> QED
      BY <3>2, <3>3
  <2>2. CASE \E k \in 0..MaxWire : flush(k)
    <3>1. PICK k \in 0..MaxWire : flush(k)
      BY <2>2
    <3>2. events' \in Seq(Frame) /\ applied'.build = applied.build
      <4>1. events' \in Seq(Frame)
        BY <3>1, FlushTypes, TypeParts DEF BufferTypes
      <4> QED
        BY <2>0, <3>1, <4>1 DEF flush, FoldTypes
    <3>3. \/ dag' = dag
          \/ /\ sel # NoBuild /\ applied.build = sel
             /\ \E l \in Nat : dag' = FoldFresh(events', l, sel, dag)
      <4> DEFINE all == events \o SubSeq(down, 1, k)
                 cut == Shift(Len(all), Cap)
                 last == Shift(applied.last, cut)
      <4>1. \/ dag' = dag
            \/ /\ sel # NoBuild /\ applied.build = sel
               /\ dag' = FoldFresh(events', last, sel, dag)
        BY <3>1 DEF flush
      <4>2. Len(all) \in Nat
        <5>1. SubSeq(down, 1, k) \in Seq(Frame)
          BY <2>0, <3>1, SubSeqProperties DEF flush, WireTypes
        <5> QED
          BY <2>0, <5>1, ConcatProperties DEF BufferTypes
      <4>3. cut \in Nat
        <5> HIDE DEF all
        <5> QED
          BY <4>2, ShiftNat, StreamAssumption
      <4>4. last \in Nat
        <5> HIDE DEF cut
        <5> QED
          BY <2>0, <4>3, ShiftNat DEF FoldTypes
      <4> QED
        BY <4>1, <4>4
    <3>4. CASE dag' = dag
      BY <3>2, <3>4 DEF DagInv
    <3>5. CASE dag' # dag
      <4>1. PICK l \in Nat : dag' = FoldFresh(events', l, sel, dag)
        BY <3>3, <3>5
      <4>2. sel \in Builds /\ dag \in [Builds -> Nat] /\ applied.build = sel
        BY <2>0, <3>3, <3>5 DEF FoldTypes
      <4>3. \A c \in Builds \ {sel} : dag'[c] = dag[c]
        BY <3>2, <4>1, <4>2, FoldOnly
      <4> QED
        BY <3>2, <4>2, <4>3 DEF DagInv
    <3> QED
      BY <3>4, <3>5
  <2>3. CASE Leave
    BY <2>3 DEF Leave, DagInv, Nothing
  <2>4. CASE \E f \in BOOLEAN : TimelineAnswer(f)
    BY <2>4 DEF TimelineAnswer, DagInv, Nothing
  <2>5. CASE \/ \E b \in Builds : Emit(b)
             \/ NodeUpdate \/ Receive \/ Connect \/ Open
             \/ \E k \in 0..MaxWire : Drop(k)
             \/ Poll \/ PollFails \/ TimelineServe \/ UNCHANGED vars
    BY <2>5, <2>f DEF Emit, NodeUpdate, Receive, Connect, Open, Drop, Poll, PollFails,
       TimelineServe, vars, tab
  <2> QED
    BY <2>1, <2>2, <2>3, <2>4, <2>5 DEF Next
<1>3. DagInv => DagOfOneBuild
  BY DEF DagInv, DagOfOneBuild
<1> QED
  BY <1>1, <1>2, <1>3, StreamTypes, PTL DEF Spec

-----------------------------------------------------------------------------
(* the fold catches up *)

\* What is between the hub and the fold: the rendered events, then the frames sent.
Wire == events \o down

Newest(b) == LastOf("task", b, emitted[b])

\* Task updates of b past a position of the wire, and the newest of all among them.
TasksAfter(b, p) == {i \in 1..Len(Wire) : i > p /\ Wire[i].build = b /\ IsTask(Wire[i])}
NewestAfter(b, p) == \E i \in TasksAfter(b, p) : Wire[i].n = Newest(b)

\* The wire holds events the service emitted, those of a build in their order.
InOrder ==
    \A i \in 1..Len(Wire) : Wire[i].build \in Builds =>
        /\ Wire[i].n \in 1..emitted[Wire[i].build]
        /\ \A j \in 1..Len(Wire) :
              i < j /\ Wire[j].build = Wire[i].build => Wire[i].n < Wire[j].n

\* The positions the tab remembers are in the buffer.
Places == applied.last <= Len(events) /\ fetch.start <= Len(events)

\* A selected build is fetched or folded, and no other is.
Phases ==
    /\ fetch.build = NoBuild => fetch = NoFetch
    /\ fetch.build # NoBuild => fetch.build = sel
    /\ sel # NoBuild /\ fetch = NoFetch => applied.build = sel

\* Of a build that lost nothing, what is sent and not rendered ends at the newest.
OnTheWay ==
    \A b \in Builds : ~lost[b] =>
        NewestAfter(b, Len(events)) \/ TasksAfter(b, Len(events)) = {}

\* What will be folded over the timeline under way does too, or the timeline is it.
Fetched ==
    fetch.build # NoBuild /\ ~lost[sel] =>
        \/ NewestAfter(sel, fetch.start)
        \/ /\ TasksAfter(sel, fetch.start) = {}
           /\ fetch.served => fetch.map = Newest(sel)

\* So does what is still to be folded over the map, or the map is it.
Folded ==
    sel # NoBuild /\ fetch = NoFetch /\ ~lost[sel] =>
        \/ NewestAfter(sel, applied.last)
        \/ TasksAfter(sel, applied.last) = {} /\ dag[sel] = Newest(sel)

CatchUp == InOrder /\ Places /\ Phases /\ OnTheWay /\ Fetched /\ Folded

\* The last task update among the first n events.
LEMMA LastTask ==
    ASSUME NEW b \in Builds, NEW n \in Nat
    PROVE  /\ LastOf("task", b, n) \in 0..n
           /\ LastOf("task", b, n) # 0 => Script[b][LastOf("task", b, n)] = "task"
           /\ \A i \in 1..n : Script[b][i] = "task" => i <= LastOf("task", b, n)
<1> DEFINE S == {0} \cup {i \in 1..n : Script[b][i] = "task"}
<1>1. S \subseteq 0..n /\ S # {}
  OBVIOUS
<1> HIDE DEF S
<1>2. Max(S) \in S /\ \A i \in S : i <= Max(S)
  BY <1>1, MaxIn
<1>3. LastOf("task", b, n) = Max(S)
  BY DEF LastOf, S
<1>4. Max(S) \in 0..n /\ (Max(S) # 0 => Script[b][Max(S)] = "task")
  BY <1>1, <1>2 DEF S
<1>5. \A i \in 1..n : Script[b][i] = "task" => i \in S
  BY DEF S
<1> QED BY <1>2, <1>3, <1>4, <1>5

\* One event more.
LEMMA NextTask ==
    ASSUME NEW b \in Builds, NEW n \in Nat
    PROVE  LastOf("task", b, n + 1) = IF Script[b][n + 1] = "task" THEN n + 1
                                      ELSE LastOf("task", b, n)
<1>1. PICK t \in 0..n : t = LastOf("task", b, n)
  BY LastTask
<1>2. n + 1 \in Nat
  OBVIOUS
<1>3. PICK u \in 0..(n + 1) : u = LastOf("task", b, n + 1)
  BY <1>2, LastTask
<1>4. /\ t # 0 => Script[b][t] = "task"
      /\ \A i \in 1..n : Script[b][i] = "task" => i <= t
  BY <1>1, LastTask
<1>5. /\ u # 0 => Script[b][u] = "task"
      /\ \A i \in 1..(n + 1) : Script[b][i] = "task" => i <= u
  BY <1>2, <1>3, LastTask
<1>6. CASE Script[b][n + 1] = "task"
  <2>1. n + 1 <= u
    BY <1>5, <1>6
  <2>2. u = n + 1
    BY <2>1
  <2> QED BY <1>3, <1>6, <2>2
<1>7. CASE Script[b][n + 1] # "task"
  <2>1. u # n + 1
    BY <1>5, <1>7
  <2>2. u <= t
    <3>1. u = 0 \/ u \in 1..n
      BY <2>1
    <3> QED BY <1>4, <1>5, <3>1
  <2>3. t <= u
    <3>1. t = 0 \/ t \in 1..(n + 1)
      OBVIOUS
    <3> QED BY <1>4, <1>5, <3>1
  <2>4. t = u
    BY <2>2, <2>3
  <2> QED BY <1>1, <1>3, <1>7, <2>4
<1> QED BY <1>6, <1>7

\* What a concatenation holds.
LEMMA ConcatAt ==
    ASSUME NEW s \in Seq(Frame), NEW t \in Seq(Frame)
    PROVE  /\ Len(s) \in Nat /\ Len(t) \in Nat /\ Len(s \o t) \in Nat
           /\ Len(s \o t) = Len(s) + Len(t)
           /\ \A i \in 1..Len(s) : (s \o t)[i] = s[i]
           /\ \A i \in 1..Len(t) : (s \o t)[Len(s) + i] = t[i]
           /\ \A i \in 1..Len(s \o t) : (s \o t)[i] \in Frame
<1>1. PICK w \in Seq(Frame) :
        /\ w = s \o t /\ Len(w) = Len(s) + Len(t)
        /\ \A i \in 1..Len(s) + Len(t) : w[i] = IF i <= Len(s) THEN s[i] ELSE t[i - Len(s)]
  <2>1. /\ s \o t \in Seq(Frame) /\ Len(s \o t) = Len(s) + Len(t)
        /\ \A i \in 1..Len(s) + Len(t) :
              (s \o t)[i] = IF i <= Len(s) THEN s[i] ELSE t[i - Len(s)]
    BY ConcatProperties
  <2> QED BY <2>1
<1>2. Len(s) \in Nat /\ Len(t) \in Nat
  OBVIOUS
<1>3. \A i \in 1..Len(t) : /\ Len(s) + i \in 1..Len(s) + Len(t)
                           /\ ~ (Len(s) + i <= Len(s))
                           /\ Len(s) + i - Len(s) = i
  BY <1>2
<1>4. \A i \in 1..Len(s) : i \in 1..Len(s) + Len(t) /\ i <= Len(s)
  BY <1>2
<1>5. \A i \in 1..Len(w) : w[i] \in Frame
  BY ElementOfSeq
<1> QED BY <1>1, <1>2, <1>3, <1>4, <1>5

\* The wire, position by position, before and after a step.
LEMMA WireAt ==
    ASSUME TypeOK
    PROVE  /\ Len(events) \in Nat /\ Len(down) \in Nat /\ Len(Wire) \in Nat
           /\ Len(Wire) = Len(events) + Len(down)
           /\ \A i \in 1..Len(events) : Wire[i] = events[i]
           /\ \A i \in 1..Len(down) : Wire[Len(events) + i] = down[i]
           /\ \A i \in 1..Len(Wire) : Wire[i] \in Frame
BY ConcatAt DEF TypeOK, Wire

\* The same after the step.
LEMMA WireThen ==
    ASSUME TypeOK'
    PROVE  /\ Len(events') \in Nat /\ Len(down') \in Nat /\ Len(Wire') \in Nat
           /\ Len(Wire') = Len(events') + Len(down')
           /\ \A i \in 1..Len(events') : Wire'[i] = events'[i]
           /\ \A i \in 1..Len(down') : Wire'[Len(events') + i] = down'[i]
           /\ \A i \in 1..Len(Wire') : Wire'[i] \in Frame
BY ConcatAt DEF TypeOK, Wire

\* No task update of a build comes after its newest.
LEMMA NewestLast ==
    ASSUME TypeOK, InOrder, NEW b \in Builds,
           NEW i \in 1..Len(Wire), Wire[i].build = b, Wire[i].n = Newest(b),
           NEW j \in 1..Len(Wire), Wire[j].build = b, IsTask(Wire[j])
    PROVE  j <= i
<1>1. emitted[b] \in Nat /\ Len(Wire) \in Nat
  BY WireAt DEF TypeOK
<1>2. /\ Wire[j].n \in 1..emitted[b] /\ Wire[i].n \in 1..emitted[b]
      /\ i < j => Wire[i].n < Wire[j].n
  BY DEF InOrder
<1>3. Wire[j].n <= Newest(b) /\ Newest(b) \in Nat
  <2>1. Script[b][Wire[j].n] = "task"
    BY DEF IsTask
  <2>2. Newest(b) \in 0..emitted[b] /\ \A k \in 1..emitted[b] : Script[b][k] = "task" => k <= Newest(b)
    BY <1>1, LastTask DEF Newest
  <2> QED BY <1>1, <1>2, <2>1, <2>2
<1>4. ~ (i < j)
  BY <1>1, <1>2, <1>3
<1> QED BY <1>1, <1>4

\* The step leaves a window of the wire, from c on.
Window(c) ==
    /\ c + Len(Wire') <= Len(Wire)
    /\ \A i \in 1..Len(Wire') : Wire'[i] = Wire[c + i]
    /\ UNCHANGED emitted

\* A window of an ordered wire is ordered.
LEMMA WindowOrder == ASSUME TypeOK, TypeOK', InOrder, NEW c \in Nat, Window(c) PROVE InOrder'
<1>1. Len(Wire) \in Nat /\ Len(Wire') \in Nat
  BY WireAt, WireThen
<1>2. \A i \in 1..Len(Wire') : c + i \in 1..Len(Wire) /\ Wire'[i] = Wire[c + i]
  BY <1>1 DEF Window
<1>3. \A i, j \in 1..Len(Wire') : i < j => c + i < c + j
  BY <1>1
<1> QED BY <1>2, <1>3 DEF InOrder, Window

\* Of a window that holds whatever was newest and not lost, the newest of the region
\* past q is newest, or there is none past it and the newest is in between.
LEMMA WindowNewest ==
    ASSUME TypeOK, TypeOK', InOrder, NEW c \in Nat, Window(c),
           NEW b \in Builds, NEW p \in Nat, NEW q \in Nat, q + c >= p,
           \A i \in 1..Len(Wire) :
              i > p /\ (i <= c \/ i > c + Len(Wire')) => ~ NewestTask(b, Wire[i])
    PROVE  /\ TasksAfter(b, p) = {} => TasksAfter(b, q)' = {}
           /\ NewestAfter(b, p) =>
                 \/ NewestAfter(b, q)'
                 \/ /\ TasksAfter(b, q)' = {}
                    /\ \E j \in 1..Len(Wire') :
                          /\ j <= q /\ c + j > p /\ c + j \in TasksAfter(b, p)
                          /\ Wire'[j].build = b /\ Wire'[j].n = Newest(b) /\ IsTask(Wire'[j])
<1>1. Len(Wire) \in Nat /\ Len(Wire') \in Nat
  BY WireAt, WireThen
<1>2. /\ \A i \in 1..Len(Wire') : c + i \in 1..Len(Wire) /\ Wire'[i] = Wire[c + i]
      /\ emitted' = emitted
  BY <1>1 DEF Window
<1>3. /\ \A i : i \in TasksAfter(b, p) <=>
              i \in 1..Len(Wire) /\ i > p /\ Wire[i].build = b /\ IsTask(Wire[i])
      /\ \A i : i \in TasksAfter(b, q)' <=>
              i \in 1..Len(Wire') /\ i > q /\ Wire'[i].build = b /\ IsTask(Wire'[i])
  BY DEF TasksAfter, IsTask
<1>4. ASSUME NEW i \in TasksAfter(b, q)' PROVE c + i \in TasksAfter(b, p)
  <2>1. i \in 1..Len(Wire') /\ i > q
    BY <1>3
  <2>2. c + i > p
    BY <1>1, <2>1
  <2> QED BY <1>2, <1>3, <2>1, <2>2
<1>5. ASSUME NewestAfter(b, p)
      PROVE  \/ NewestAfter(b, q)'
             \/ /\ TasksAfter(b, q)' = {}
                /\ \E j \in 1..Len(Wire') :
                      /\ j <= q /\ c + j > p /\ c + j \in TasksAfter(b, p)
                      /\ Wire'[j].build = b /\ Wire'[j].n = Newest(b) /\ IsTask(Wire'[j])
  <2>1. PICK i \in TasksAfter(b, p) : Wire[i].n = Newest(b)
    BY <1>5 DEF NewestAfter
  <2>2. i \in 1..Len(Wire) /\ i > p /\ Wire[i].build = b /\ IsTask(Wire[i])
    BY <1>3
  <2>3. i > c /\ i <= c + Len(Wire')
    <3>1. NewestTask(b, Wire[i])
      BY <2>1, <2>2 DEF NewestTask, Newest
    <3>2. ~ (i <= c \/ i > c + Len(Wire'))
      BY <2>2, <3>1
    <3> QED BY <1>1, <2>2, <3>2
  <2>4. PICK j \in 1..Len(Wire') : i = c + j
    <3>1. i - c \in 1..Len(Wire') /\ i = c + (i - c)
      BY <1>1, <2>2, <2>3
    <3> QED BY <3>1
  <2>5. Wire'[j] = Wire[i] /\ Newest(b)' = Newest(b)
    BY <1>2, <2>4 DEF Newest
  <2>6. CASE j > q
    <3>1. j \in TasksAfter(b, q)' /\ Wire'[j].n = Newest(b)'
      BY <1>3, <2>1, <2>2, <2>4, <2>5, <2>6
    <3> QED BY <3>1 DEF NewestAfter
  <2>7. CASE ~ (j > q)
    <3>1. j <= q
      BY <2>7
    <3>2. ASSUME NEW k \in TasksAfter(b, q)' PROVE FALSE
      <4>1. /\ k \in 1..Len(Wire') /\ k > q /\ c + k \in 1..Len(Wire)
            /\ Wire[c + k].build = b /\ IsTask(Wire[c + k])
        BY <1>2, <1>3, <1>4
      <4>2. c + k <= i
        BY <2>1, <2>2, <4>1, NewestLast
      <4> QED BY <1>1, <2>4, <3>1, <4>1, <4>2
    <3>3. Wire'[j].build = b /\ Wire'[j].n = Newest(b) /\ IsTask(Wire'[j])
      BY <2>1, <2>2, <2>5
    <3> QED BY <2>2, <2>4, <3>1, <3>2, <3>3
  <2> QED BY <2>6, <2>7
<1> QED BY <1>4, <1>5

\* The step sends one frame.
Sent(f) ==
    /\ Len(Wire') = Len(Wire) + 1
    /\ \A i \in 1..Len(Wire) : Wire'[i] = Wire[i]
    /\ Wire'[Len(Wire) + 1] = f

\* Appending to what is under way sends.
LEMMA SentAt ==
    ASSUME TypeOK, NEW f \in Frame, UNCHANGED events, down' = Append(down, f)
    PROVE  Sent(f)
<1>1. PICK e \in Seq(Frame), d \in Seq(Frame) : e = events /\ d = down
  BY DEF TypeOK
<1>2. PICK t \in Seq(Frame) : t = Append(d, f)
  <2>1. Append(d, f) \in Seq(Frame)
    BY AppendProperties
  <2> QED BY <2>1
<1>3. /\ Len(d) \in Nat /\ Len(t) = Len(d) + 1 /\ t[Len(d) + 1] = f
      /\ \A i \in 1..Len(d) : t[i] = d[i]
  BY <1>2, AppendProperties
<1>4. Wire = e \o d /\ Wire' = e \o t
  BY <1>1, <1>2 DEF Wire
<1>5. /\ Len(e) \in Nat /\ Len(e \o d) = Len(e) + Len(d) /\ Len(e \o t) = Len(e) + Len(t)
      /\ \A i \in 1..Len(e) : (e \o d)[i] = e[i] /\ (e \o t)[i] = e[i]
      /\ \A i \in 1..Len(d) : (e \o d)[Len(e) + i] = d[i]
      /\ \A i \in 1..Len(t) : (e \o t)[Len(e) + i] = t[i]
  BY ConcatAt
<1>6. Len(Wire') = Len(Wire) + 1 /\ Wire'[Len(Wire) + 1] = f
  <2>1. Len(t) \in 1..Len(t) /\ Len(e) + Len(t) = Len(e) + Len(d) + 1
    BY <1>3, <1>5
  <2>2. (e \o t)[Len(e) + Len(t)] = t[Len(t)]
    BY <1>5, <2>1
  <2> QED BY <1>3, <1>4, <1>5, <2>1, <2>2
<1>7. ASSUME NEW i \in 1..Len(Wire) PROVE Wire'[i] = Wire[i]
  <2>1. CASE i <= Len(e)
    <3>1. i \in 1..Len(e)
      BY <1>4, <1>5, <2>1
    <3> QED BY <1>4, <1>5, <3>1
  <2>2. CASE ~ (i <= Len(e))
    <3>1. PICK j \in 1..Len(d) : i = Len(e) + j
      <4>1. i - Len(e) \in 1..Len(d) /\ i = Len(e) + (i - Len(e))
        BY <1>3, <1>4, <1>5, <2>2
      <4> QED BY <4>1
    <3>2. j \in 1..Len(t)
      BY <1>3
    <3> QED BY <1>3, <1>4, <1>5, <3>1, <3>2
  <2> QED BY <2>1, <2>2
<1> QED BY <1>6, <1>7 DEF Sent

\* What a frame sent changes in the regions of the wire.
LEMMA SentTasks ==
    ASSUME TypeOK, NEW f, Sent(f), NEW b \in Builds, NEW p \in 0..Len(Wire)
    PROVE  /\ ~ (f.build = b /\ IsTask(f)) => TasksAfter(b, p)' = TasksAfter(b, p)
           /\ f.build = b /\ IsTask(f) => Len(Wire) + 1 \in TasksAfter(b, p)'
           /\ TasksAfter(b, p) \subseteq TasksAfter(b, p)'
           /\ \A i \in TasksAfter(b, p) : Wire'[i] = Wire[i]
<1>1. Len(Wire) \in Nat /\ p \in Nat /\ p <= Len(Wire)
  BY WireAt
<1>2. /\ \A i : i \in TasksAfter(b, p) <=>
              i \in 1..Len(Wire) /\ i > p /\ Wire[i].build = b /\ IsTask(Wire[i])
      /\ \A i : i \in TasksAfter(b, p)' <=>
              i \in 1..(Len(Wire) + 1) /\ i > p /\ Wire'[i].build = b /\ IsTask(Wire'[i])
  BY DEF TasksAfter, IsTask, Sent
<1>3. /\ \A i \in 1..Len(Wire) : i \in 1..(Len(Wire) + 1)
      /\ \A i \in 1..(Len(Wire) + 1) : i = Len(Wire) + 1 \/ i \in 1..Len(Wire)
      /\ Len(Wire) + 1 \in 1..(Len(Wire) + 1) /\ Len(Wire) + 1 > p
  BY <1>1
<1> QED BY <1>2, <1>3 DEF Sent

\* An event of b is newest on the wire, is lost, or is no task update.
LEMMA EmitAfter ==
    ASSUME TypeOK, TypeOK', NEW c \in Builds, Emit(c), NEW b \in Builds, NEW p \in 0..Len(Wire)
    PROVE  \/ lost'[b]
           \/ NewestAfter(b, p)'
           \/ /\ ~lost[b] /\ Newest(b)' = Newest(b)
              /\ NewestAfter(b, p) => NewestAfter(b, p)'
              /\ TasksAfter(b, p) = {} => TasksAfter(b, p)' = {}
<1>1. /\ emitted \in [Builds -> Nat] /\ lost \in [Builds -> BOOLEAN] /\ Len(Wire) \in Nat
  BY WireAt DEF TypeOK
<1> DEFINE f == [build |-> c, n |-> emitted[c] + 1]
<1>2. /\ UNCHANGED events /\ emitted' = [emitted EXCEPT ![c] = @ + 1]
      /\ down' = IF Passes(c) THEN Append(down, f) ELSE down
      /\ lost' = IF Script[c][emitted[c] + 1] = "task" THEN [lost EXCEPT ![c] = ~Passes(c)] ELSE lost
  BY DEF Emit
<1>3. f \in Frame /\ f.build = c /\ f.n = emitted[c] + 1
  BY <1>1 DEF Frame
<1>4. IsTask(f) <=> Script[c][emitted[c] + 1] = "task"
  BY DEF IsTask
<1>5. b # c => Newest(b)' = Newest(b) /\ lost'[b] = lost[b]
  BY <1>1, <1>2 DEF Newest
<1>6. Newest(c)' = IF IsTask(f) THEN f.n ELSE Newest(c)
  <2>1. emitted'[c] = emitted[c] + 1
    BY <1>1, <1>2
  <2>2. LastOf("task", c, emitted[c] + 1) = IF Script[c][emitted[c] + 1] = "task"
                                            THEN emitted[c] + 1 ELSE LastOf("task", c, emitted[c])
    BY <1>1, NextTask
  <2>3. Newest(c)' = LastOf("task", c, emitted'[c])
    BY DEF Newest, LastOf
  <2> QED BY <1>3, <1>4, <2>1, <2>2, <2>3 DEF Newest
<1> HIDE DEF f
<1>7. CASE b = c /\ IsTask(f) /\ ~Passes(c)
  BY <1>1, <1>2, <1>4, <1>7
<1>8. CASE b = c /\ IsTask(f) /\ Passes(c)
  <2>1. Sent(f)
    BY <1>2, <1>3, <1>8, SentAt
  <2>2. Len(Wire) + 1 \in TasksAfter(b, p)'
    BY <1>3, <1>8, <2>1, SentTasks
  <2>3. Wire'[Len(Wire) + 1] = f
    BY <2>1 DEF Sent
  <2> QED BY <1>6, <1>8, <2>2, <2>3 DEF NewestAfter
<1>9. CASE ~ (b = c /\ IsTask(f))
  <2>1. Newest(b)' = Newest(b) /\ lost'[b] = lost[b]
    BY <1>2, <1>4, <1>5, <1>6, <1>9
  <2>2. TasksAfter(b, p)' = TasksAfter(b, p) /\ \A i \in TasksAfter(b, p) : Wire'[i] = Wire[i]
    <3>1. CASE Passes(c)
      <4>1. Sent(f)
        BY <1>2, <1>3, <3>1, SentAt
      <4> QED BY <1>3, <1>9, <4>1, SentTasks
    <3>2. CASE ~Passes(c)
      <4>1. Wire' = Wire
        BY <1>2, <3>2 DEF Wire
      <4> QED BY <4>1 DEF TasksAfter, IsTask
    <3> QED BY <3>1, <3>2
  <2> QED BY <2>1, <2>2 DEF NewestAfter
<1> QED BY <1>7, <1>8, <1>9

\* What an event or a node update changes keeps the order of the wire.
LEMMA SentOrder ==
    ASSUME TypeOK, TypeOK', InOrder, \/ NodeUpdate \/ \E c \in Builds : Emit(c)
    PROVE  InOrder'
<1>1. /\ emitted \in [Builds -> Nat] /\ Len(Wire) \in Nat
      /\ \A i \in 1..Len(Wire) : Wire[i] \in Frame
  BY WireAt DEF TypeOK
<1>2. CASE NodeUpdate
  <2>1. Other \in Frame /\ Other.build \notin Builds
    BY StreamAssumption DEF Other, Frame
  <2>2. Sent(Other) /\ emitted' = emitted
    BY <1>2, <2>1, SentAt DEF NodeUpdate, service
  <2>3. \A i \in 1..(Len(Wire) + 1) : i \in 1..Len(Wire) \/ Wire'[i] = Other
    BY <1>1, <2>2 DEF Sent
  <2> QED BY <2>1, <2>2, <2>3 DEF InOrder, Sent
<1>3. ASSUME NEW c \in Builds, Emit(c) PROVE InOrder'
  <2> DEFINE f == [build |-> c, n |-> emitted[c] + 1]
  <2>1. /\ UNCHANGED events /\ down' = IF Passes(c) THEN Append(down, f) ELSE down
        /\ \A b \in Builds : emitted'[b] = IF b = c THEN emitted[b] + 1 ELSE emitted[b]
    BY <1>1, <1>3 DEF Emit
  <2>2. f \in Frame /\ f.build = c /\ f.n = emitted[c] + 1
    BY <1>1 DEF Frame
  <2> HIDE DEF f
  <2>3. \A i \in 1..Len(Wire) : Wire[i].build \in Builds =>
            /\ Wire[i].n \in 1..emitted'[Wire[i].build]
            /\ Wire[i].build = c => Wire[i].n < f.n
    BY <1>1, <2>1, <2>2 DEF InOrder
  <2>4. CASE Passes(c)
    <3>1. Sent(f)
      BY <2>1, <2>2, <2>4, SentAt
    <3>2. \A i \in 1..(Len(Wire) + 1) :
             \/ i \in 1..Len(Wire) /\ Wire'[i] = Wire[i]
             \/ i = Len(Wire) + 1 /\ Wire'[i] = f
      BY <1>1, <3>1 DEF Sent
    <3>3. f.n \in 1..emitted'[c]
      BY <1>1, <2>1, <2>2
    <3>4. ASSUME NEW i \in 1..(Len(Wire) + 1), Wire'[i].build \in Builds
          PROVE  /\ Wire'[i].n \in 1..emitted'[Wire'[i].build]
                 /\ \A j \in 1..(Len(Wire) + 1) :
                       i < j /\ Wire'[j].build = Wire'[i].build => Wire'[i].n < Wire'[j].n
      <4>1. CASE i \in 1..Len(Wire)
        <5>1. Wire'[i] = Wire[i]
          BY <3>1, <4>1 DEF Sent
        <5>2. ASSUME NEW j \in 1..(Len(Wire) + 1), i < j, Wire'[j].build = Wire'[i].build
              PROVE  Wire'[i].n < Wire'[j].n
          BY <2>2, <2>3, <3>2, <3>4, <4>1, <5>1, <5>2 DEF InOrder
        <5> QED BY <2>3, <3>4, <4>1, <5>1, <5>2
      <4>2. CASE i = Len(Wire) + 1
        <5>1. Wire'[i] = f
          BY <3>1, <4>2 DEF Sent
        <5>2. \A j \in 1..(Len(Wire) + 1) : ~ (i < j)
          BY <1>1, <4>2
        <5> QED BY <2>2, <3>3, <5>1, <5>2
      <4> QED BY <3>2, <4>1, <4>2
    <3> QED BY <3>1, <3>4 DEF InOrder, Sent
  <2>5. CASE ~Passes(c)
    <3>1. Wire' = Wire
      BY <2>1, <2>5 DEF Wire
    <3> QED BY <2>3, <3>1 DEF InOrder
  <2> QED BY <2>4, <2>5
<1> QED BY <1>2, <1>3

\* What a step that keeps the tab makes of a region past p that ends at the newest, or
\* holds no update: it still does, or the newest is lost.
Kept(b, p) ==
    \/ lost'[b]
    \/ NewestAfter(b, p)'
    \/ /\ ~lost[b] /\ Newest(b)' = Newest(b)
       /\ NewestAfter(b, p) => NewestAfter(b, p)'
       /\ TasksAfter(b, p) = {} => TasksAfter(b, p)' = {}

\* A step that keeps the buffer, the tab and every region keeps the invariant.
LEMMA KeptCatchUp ==
    ASSUME TypeOK, CatchUp, InOrder', UNCHANGED <<events, sel, fetch, applied, dag>>,
           \A b \in Builds, p \in 0..Len(events) : Kept(b, p)
    PROVE  CatchUp'
<1>1. /\ UNCHANGED <<events, sel, fetch, applied, dag>>
      /\ applied.last \in Nat /\ fetch.start \in Nat /\ sel \in Builds \cup {NoBuild}
  BY DEF TypeOK
<1>2. Len(events) \in 0..Len(events) /\ applied.last \in 0..Len(events) /\ fetch.start \in 0..Len(events)
  <2>1. Len(events) \in Nat
    BY WireAt
  <2> QED BY <1>1, <2>1 DEF CatchUp, Places
<1>3. Places' /\ Phases'
  BY <1>1 DEF CatchUp, Places, Phases
<1>4. OnTheWay'
  <2>1. ASSUME NEW b \in Builds, ~lost'[b]
        PROVE  NewestAfter(b, Len(events))' \/ TasksAfter(b, Len(events))' = {}
    <3>1. PICK p \in 0..Len(events) : p = Len(events) /\ p = Len(events')
      BY <1>1, <1>2
    <3>2. Kept(b, p)
      OBVIOUS
    <3>3. ~lost[b] => NewestAfter(b, p) \/ TasksAfter(b, p) = {}
      BY <3>1 DEF CatchUp, OnTheWay
    <3>4. NewestAfter(b, p)' \/ TasksAfter(b, p)' = {}
      BY <2>1, <3>2, <3>3 DEF Kept
    <3> QED BY <3>1, <3>4 DEF NewestAfter, TasksAfter
  <2> QED BY <2>1 DEF OnTheWay
<1>5. Fetched'
  <2> SUFFICES ASSUME fetch.build # NoBuild, ~lost'[sel]
               PROVE  \/ NewestAfter(sel, fetch.start)'
                      \/ /\ TasksAfter(sel, fetch.start)' = {}
                         /\ fetch.served => fetch.map = Newest(sel)'
    BY <1>1 DEF Fetched
  <2>1. PICK b \in Builds, p \in 0..Len(events) : b = sel /\ p = fetch.start /\ b = sel' /\ p = fetch'.start
    BY <1>1, <1>2 DEF TypeOK, CatchUp, Phases
  <2>2. Kept(b, p)
    OBVIOUS
  <2>3. ~lost[b] =>
          NewestAfter(b, p) \/ (TasksAfter(b, p) = {} /\ (fetch.served => fetch.map = Newest(b)))
    BY <2>1 DEF CatchUp, Fetched
  <2>4. \/ NewestAfter(b, p)'
        \/ TasksAfter(b, p)' = {} /\ (fetch.served => fetch.map = Newest(b)')
    BY <2>1, <2>2, <2>3 DEF Kept
  <2> QED BY <2>1, <2>4 DEF NewestAfter, TasksAfter, Newest
<1>6. Folded'
  <2> SUFFICES ASSUME sel # NoBuild, fetch = NoFetch, ~lost'[sel]
               PROVE  \/ NewestAfter(sel, applied.last)'
                      \/ TasksAfter(sel, applied.last)' = {} /\ dag[sel] = Newest(sel)'
    BY <1>1 DEF Folded
  <2>1. PICK b \in Builds, p \in 0..Len(events) : b = sel /\ p = applied.last /\ b = sel' /\ p = applied'.last
    BY <1>1, <1>2
  <2>2. Kept(b, p)
    OBVIOUS
  <2>3. ~lost[b] => NewestAfter(b, p) \/ (TasksAfter(b, p) = {} /\ dag[b] = Newest(b))
    BY <2>1 DEF CatchUp, Folded
  <2>4. NewestAfter(b, p)' \/ (TasksAfter(b, p)' = {} /\ dag[b] = Newest(b)')
    BY <2>1, <2>2, <2>3 DEF Kept
  <2> QED BY <2>1, <2>4 DEF NewestAfter, TasksAfter, Newest
<1> QED BY <1>3, <1>4, <1>5, <1>6 DEF CatchUp

\* The steps that change neither the wire nor what was emitted.
LEMMA SameWire ==
    ASSUME CatchUp, UNCHANGED <<emitted, down, events>>
    PROVE  /\ InOrder' /\ Wire' = Wire
           /\ \A b : Newest(b)' = Newest(b)
           /\ \A b, p : TasksAfter(b, p)' = TasksAfter(b, p)
           /\ \A b, p : NewestAfter(b, p)' <=> NewestAfter(b, p)
<1>1. Wire' = Wire /\ \A b : Newest(b)' = Newest(b)
  BY DEF Wire, Newest
<1>2. \A b, p : TasksAfter(b, p)' = TasksAfter(b, p) /\ (NewestAfter(b, p)' <=> NewestAfter(b, p))
  BY <1>1 DEF TasksAfter, NewestAfter, IsTask
<1> QED BY <1>1, <1>2 DEF CatchUp, InOrder

\* Subscriptions, connections and polls, and a stutter.
LEMMA QuietCatchUp ==
    ASSUME TypeOK, CatchUp, UNCHANGED <<emitted, down, events, sel, fetch, applied, dag, lost>>
    PROVE  CatchUp'
<1>1. \A b \in Builds, p \in 0..Len(events) : Kept(b, p)
  BY SameWire DEF Kept
<1> QED BY <1>1, SameWire, KeptCatchUp

\* Events and node updates are sent.
LEMMA SendCatchUp ==
    ASSUME TypeOK, TypeOK', CatchUp, \/ NodeUpdate \/ \E c \in Builds : Emit(c)
    PROVE  CatchUp'
<1>1. UNCHANGED <<events, sel, fetch, applied, dag>> /\ lost \in [Builds -> BOOLEAN]
  BY DEF NodeUpdate, Emit, tab, TypeOK
<1>2. ASSUME NEW b \in Builds, NEW p \in 0..Len(events) PROVE Kept(b, p)
  <2>0. p \in 0..Len(Wire)
    <3>1. Len(events) \in Nat /\ Len(down) \in Nat /\ Len(Wire) = Len(events) + Len(down)
      BY WireAt
    <3> QED BY <3>1
  <2>1. CASE NodeUpdate
    <3>1. Other \in Frame /\ Other.build # b
      BY StreamAssumption DEF Other, Frame
    <3>2. Sent(Other) /\ emitted' = emitted /\ lost' = lost
      BY <2>1, <3>1, SentAt DEF NodeUpdate, service, tab
    <3>3. TasksAfter(b, p)' = TasksAfter(b, p) /\ \A i \in TasksAfter(b, p) : Wire'[i] = Wire[i]
      BY <2>0, <3>1, <3>2, SentTasks
    <3>4. Newest(b)' = Newest(b)
      BY <3>2 DEF Newest
    <3> QED BY <1>1, <3>2, <3>3, <3>4 DEF Kept, NewestAfter
  <2>2. CASE \E c \in Builds : Emit(c)
    BY <2>0, <2>2, EmitAfter DEF Kept
  <2> QED BY <2>1, <2>2
<1>3. InOrder'
  BY SentOrder DEF CatchUp
<1> QED BY <1>1, <1>2, <1>3, KeptCatchUp

\* The connection drops: what is under way and newest is lost.
LEMMA DropCatchUp ==
    ASSUME TypeOK, TypeOK', CatchUp, NEW k \in 0..MaxWire, Drop(k)
    PROVE  CatchUp'
<1>0. /\ UNCHANGED <<emitted, events, sel, fetch, applied, dag>>
      /\ down' = SubSeq(down, 1, k) /\ down \in Seq(Frame)
      /\ lost' = [b \in Builds |-> lost[b] \/ \E i \in k + 1..Len(down) : NewestTask(b, down[i])]
      /\ lost \in [Builds -> BOOLEAN]
  BY DEF Drop, TypeOK
<1>1. k \in Nat /\ Len(down) \in Nat /\ k <= Len(down)
  BY <1>0, StreamAssumption DEF Drop
<1>2. Len(down') = k /\ \A i \in 1..k : down'[i] = down[i]
  BY <1>0, <1>1, SubSeqProperties
<1>3. /\ Len(events) \in Nat /\ Len(Wire) = Len(events) + Len(down)
      /\ Len(Wire') = Len(events) + k
      /\ \A i \in 1..Len(events) : Wire[i] = events[i] /\ Wire'[i] = events[i]
      /\ \A i \in 1..Len(down) : Wire[Len(events) + i] = down[i]
      /\ \A i \in 1..k : Wire'[Len(events) + i] = down[i]
  BY <1>0, <1>2, WireAt, WireThen
<1>4. Window(0)
  <2>1. ASSUME NEW i \in 1..Len(Wire') PROVE Wire'[i] = Wire[0 + i]
    <3>1. i \in Nat /\ 0 + i = i
      BY <1>1, <1>3
    <3>2. i \in 1..Len(events) \/ (i - Len(events) \in 1..k /\ i = Len(events) + (i - Len(events)))
      BY <1>1, <1>3
    <3>3. \A j \in 1..k : j \in 1..Len(down)
      BY <1>1
    <3> QED BY <1>3, <3>1, <3>2, <3>3
  <2> QED BY <1>0, <1>1, <1>3, <2>1 DEF Window
<1>5. ASSUME NEW b \in Builds, NEW p \in 0..Len(events) PROVE Kept(b, p)
  <2> SUFFICES ASSUME ~lost'[b] PROVE Kept(b, p)
    BY DEF Kept
  <2>1. /\ ~lost[b] /\ p \in Nat /\ p + 0 >= p
        /\ \A i \in k + 1..Len(down) : ~NewestTask(b, down[i])
    <3>1. lost'[b] = (lost[b] \/ \E i \in k + 1..Len(down) : NewestTask(b, down[i]))
      BY <1>0
    <3>2. p \in Nat /\ p + 0 >= p
      BY <1>3
    <3> QED BY <3>1, <3>2
  <2>2. ASSUME NEW i \in 1..Len(Wire), i > p, i <= 0 \/ i > 0 + Len(Wire')
        PROVE  ~NewestTask(b, Wire[i])
    <3>1. /\ i - Len(events) \in k + 1..Len(down) /\ i - Len(events) \in 1..Len(down)
          /\ i = Len(events) + (i - Len(events))
      BY <1>1, <1>3, <2>2
    <3>2. Wire[i] = down[i - Len(events)]
      BY <1>3, <3>1
    <3> QED BY <2>1, <3>1, <3>2
  <2>3. /\ TasksAfter(b, p) = {} => TasksAfter(b, p)' = {}
        /\ NewestAfter(b, p) => \/ NewestAfter(b, p)'
                                \/ \E j \in 1..Len(Wire') : j <= p /\ 0 + j > p
    BY <1>4, <2>1, <2>2, WindowNewest DEF CatchUp
  <2>4. ~ \E j \in 1..Len(Wire') : j <= p /\ 0 + j > p
    BY <1>1, <1>3
  <2>5. Newest(b)' = Newest(b)
    BY <1>0 DEF Newest
  <2> QED BY <2>1, <2>3, <2>4, <2>5 DEF Kept
<1>6. InOrder'
  BY <1>4, WindowOrder DEF CatchUp
<1> QED BY <1>0, <1>5, <1>6, KeptCatchUp

\* Leaving the tab forgets the fold.
LEMMA LeaveCatchUp == ASSUME TypeOK, CatchUp, Leave PROVE CatchUp'
<1>1. /\ UNCHANGED <<emitted, down, events, lost>>
      /\ sel' = NoBuild /\ fetch' = NoFetch /\ applied' = NotFolded
      /\ fetch'.build = NoBuild /\ fetch'.start = 0 /\ applied'.last = 0
  BY DEF Leave, service, NoFetch, NotFolded
<1>2. Len(events) \in Nat
  BY WireAt
<1>3. Places' /\ Phases'
  BY <1>1, <1>2 DEF Places, Phases
<1>4. OnTheWay'
  <2>1. ASSUME NEW b \in Builds, ~lost'[b]
        PROVE  NewestAfter(b, Len(events))' \/ TasksAfter(b, Len(events))' = {}
    <3>1. PICK p \in Nat : p = Len(events) /\ p = Len(events')
      BY <1>1, <1>2
    <3>2. NewestAfter(b, p) \/ TasksAfter(b, p) = {}
      BY <1>1, <2>1, <3>1 DEF CatchUp, OnTheWay
    <3>3. NewestAfter(b, p)' \/ TasksAfter(b, p)' = {}
      BY <1>1, <3>2, SameWire
    <3> QED BY <3>1, <3>3 DEF NewestAfter, TasksAfter
  <2> QED BY <2>1 DEF OnTheWay
<1>5. Fetched' /\ Folded'
  BY <1>1 DEF Fetched, Folded
<1>6. InOrder'
  BY <1>1, SameWire
<1> QED BY <1>3, <1>4, <1>5, <1>6 DEF CatchUp

\* A selection fetches from the position rendered last.
LEMMA SelectCatchUp == ASSUME TypeOK, CatchUp, NEW c \in Builds, Select(c) PROVE CatchUp'
<1> DEFINE fresh == FreshIn(events, applied.last, c)
<1>1. /\ UNCHANGED <<emitted, down, events, lost>>
      /\ sel' = c /\ fetch' = [build |-> c, start |-> Len(events), served |-> FALSE, map |-> 0]
      /\ \/ applied' = applied
         \/ fresh # {} /\ applied' = [applied EXCEPT !.last = Max(fresh)]
  BY DEF Select, service
<1>2. /\ Len(events) \in Nat /\ events \in Seq(Frame) /\ applied.last <= Len(events)
      /\ applied \in [build : Builds \cup {NoBuild}, last : Nat]
      /\ c # NoBuild
  BY WireAt, StreamAssumption DEF TypeOK, CatchUp, Places
<1>3. fresh # {} => Max(fresh) \in 1..Len(events)
  BY <1>2, FreshMax
<1> HIDE DEF fresh
<1>4. Places'
  BY <1>1, <1>2, <1>3 DEF Places
<1>5. Phases' /\ fetch' # NoFetch
  BY <1>1, <1>2 DEF Phases, NoFetch
<1>6. OnTheWay' /\ Fetched'
  <2>1. PICK p \in Nat : p = Len(events) /\ p = Len(events') /\ p = fetch'.start
    BY <1>1, <1>2
  <2>2. ASSUME NEW b \in Builds, ~lost'[b] PROVE NewestAfter(b, p)' \/ TasksAfter(b, p)' = {}
    <3>1. NewestAfter(b, p) \/ TasksAfter(b, p) = {}
      BY <1>1, <2>1, <2>2 DEF CatchUp, OnTheWay
    <3> QED BY <1>1, <3>1, SameWire
  <2>3. OnTheWay'
    BY <2>1, <2>2 DEF OnTheWay, NewestAfter, TasksAfter
  <2>4. ~fetch'.served /\ sel' = c
    BY <1>1
  <2>5. ~lost'[c] => NewestAfter(c, p)' \/ TasksAfter(c, p)' = {}
    BY <2>2
  <2>6. Fetched'
    BY <2>1, <2>4, <2>5 DEF Fetched, NewestAfter, TasksAfter
  <2> QED BY <2>3, <2>6
<1>7. Folded' /\ InOrder'
  BY <1>1, <1>5, SameWire DEF Folded
<1> QED BY <1>4, <1>5, <1>6, <1>7 DEF CatchUp

\* The timeline is read: it holds the newest and what is folded over it ends there
\* too, or what is folded over it does.
LEMMA ServeCatchUp == ASSUME TypeOK, CatchUp, TimelineServe PROVE CatchUp'
<1>1. PICK b \in Builds : b = fetch.build /\ b = sel
  BY DEF TypeOK, CatchUp, Phases, TimelineServe
<1>2. /\ UNCHANGED <<emitted, down, events, sel, applied, dag>>
       /\ lost \in [Builds -> BOOLEAN]
       /\ fetch \in [build : Builds \cup {NoBuild}, start : Nat, served : BOOLEAN, map : Nat]
  BY DEF TimelineServe, service, wires, TypeOK
<1>3. PICK trimmed \in 0..Shift(emitted[fetch.build], JournalCap) :
        /\ fetch' = [fetch EXCEPT !.served = TRUE, !.map = OnPage(fetch.build, trimmed)]
        /\ lost' = [lost EXCEPT ![fetch.build] =
                       IF OnPage(fetch.build, trimmed)
                            = LastOf("task", fetch.build, emitted[fetch.build])
                       THEN @ /\ StillToFold(fetch.build) # {}
                       ELSE @ \/ ~NewestToFold(fetch.build)]
  BY Zenon DEF TimelineServe
<1>4. /\ UNCHANGED <<emitted, down, events, sel, applied, dag>>
      /\ fetch' = [fetch EXCEPT !.served = TRUE, !.map = OnPage(b, trimmed)]
      /\ lost \in [Builds -> BOOLEAN]
      /\ fetch \in [build : Builds \cup {NoBuild}, start : Nat, served : BOOLEAN, map : Nat]
      /\ lost'[b] <=> IF OnPage(b, trimmed) = Newest(b)
                      THEN lost[b] /\ StillToFold(b) # {}
                      ELSE lost[b] \/ ~NewestToFold(b)
      /\ \A c \in Builds \ {b} : lost'[c] = lost[c]
  <2>1. fetch.build \in Builds
    BY <1>2 DEF TimelineServe
  <2>2. /\ lost'[fetch.build] <=>
              IF OnPage(fetch.build, trimmed) = Newest(fetch.build)
              THEN lost[fetch.build] /\ StillToFold(fetch.build) # {}
              ELSE lost[fetch.build] \/ ~NewestToFold(fetch.build)
        /\ \A c \in Builds \ {fetch.build} : lost'[c] = lost[c]
    BY <1>2, <1>3, <2>1, Zenon DEF Newest
  <2>3. fetch' = [fetch EXCEPT !.served = TRUE, !.map = OnPage(b, trimmed)]
    BY <1>1, <1>3
  <2> QED BY <1>1, <1>2, <2>2, <2>3
<1>5. /\ fetch'.build = b /\ fetch'.start = fetch.start /\ fetch'.map = OnPage(b, trimmed)
      /\ sel' = b /\ b # NoBuild
  BY <1>1, <1>4, StreamAssumption
<1>6. Places' /\ Phases' /\ fetch' # NoFetch
  BY <1>4, <1>5 DEF CatchUp, Places, Phases, NoFetch
<1>7. PICK p \in Nat, e \in Nat : p = fetch.start /\ e = Len(events) /\ e = Len(events') /\ p <= e
  BY <1>4, WireAt DEF CatchUp, Places
<1>8. StillToFold(b) = {} => TasksAfter(b, p) = {} /\ TasksAfter(b, e) = {}
  <2> SUFFICES ASSUME StillToFold(b) = {}, NEW i \in 1..Len(Wire), i > p, Wire[i].build = b
               PROVE  FALSE
    BY <1>7 DEF TasksAfter
  <2>1. Len(down) \in Nat /\ Len(Wire) = e + Len(down)
    BY <1>7, WireAt
  <2>2. CASE i <= e
    <3>1. i \in 1..Len(events) /\ Wire[i] = events[i]
      BY <1>7, <2>2, WireAt
    <3> QED BY <1>7, <3>1 DEF StillToFold, FreshIn
  <2>3. CASE ~ (i <= e)
    <3>1. i - e \in 1..Len(down) /\ i = e + (i - e)
      BY <1>7, <2>1, <2>3
    <3>2. Wire[i] = down[i - e]
      BY <1>7, <3>1, WireAt
    <3> QED BY <3>1, <3>2 DEF StillToFold
  <2> QED BY <2>2, <2>3
<1>9. NewestToFold(b) => NewestAfter(b, p)
  <2> SUFFICES ASSUME NEW i \in 1..Len(Wire), i > p, NewestTask(b, Wire[i])
               PROVE  NewestAfter(b, p)
    <3>1. /\ Len(down) \in Nat /\ Len(Wire) = e + Len(down)
          /\ \A i \in 1..Len(events) : i \in 1..Len(Wire) /\ Wire[i] = events[i]
          /\ \A i \in 1..Len(down) : e + i \in 1..Len(Wire) /\ Wire[e + i] = down[i]
      BY <1>7, WireAt
    <3>2. \A i \in 1..Len(down) : e + i > p
      BY <1>7, <3>1
    <3> QED BY <1>7, <3>1, <3>2 DEF NewestToFold, FreshIn
  <2>1. Wire[i].build = b /\ Wire[i].n = Newest(b)
    BY DEF NewestTask, Newest
  <2>2. b \in Builds
    BY <1>1, <1>5 DEF TypeOK
  <2>3. Newest(b) \in 1..emitted[b] /\ emitted[b] \in Nat
    BY <2>1, <2>2 DEF CatchUp, InOrder, TypeOK
  <2>4. Script[b][Newest(b)] = "task"
    <3>1. Newest(b) # 0
      BY <2>3
    <3> QED BY <2>2, <2>3, <3>1, LastTask DEF Newest
  <2> QED BY <2>1, <2>2, <2>4 DEF NewestAfter, TasksAfter, IsTask
<1>10. OnTheWay'
  <2>1. ASSUME NEW c \in Builds, ~lost'[c] PROVE NewestAfter(c, e)' \/ TasksAfter(c, e)' = {}
    <3>1. ~lost[c] \/ (c = b /\ StillToFold(b) = {})
      BY <1>4, <2>1
    <3>2. NewestAfter(c, e) \/ TasksAfter(c, e) = {}
      BY <1>7, <1>8, <3>1 DEF CatchUp, OnTheWay
    <3> QED BY <1>4, <3>2, SameWire
  <2> QED BY <1>7, <2>1 DEF OnTheWay, NewestAfter, TasksAfter
<1>11. Fetched'
  <2>1. ASSUME ~lost'[b] PROVE NewestAfter(b, p)' \/ TasksAfter(b, p)' = {}
    <3>1. ~lost[b] \/ StillToFold(b) = {}
      BY <1>4, <2>1
    <3>2. NewestAfter(b, p) \/ TasksAfter(b, p) = {}
      BY <1>1, <1>5, <1>7, <1>8, <3>1 DEF CatchUp, Fetched
    <3> QED BY <1>4, <3>2, SameWire
  <2>2. Newest(b)' = Newest(b)
    BY <1>4, SameWire
  <2>3. ASSUME ~lost'[b], OnPage(b, trimmed) # Newest(b) PROVE NewestAfter(b, p)'
    <3>1. NewestAfter(b, p)
      BY <1>4, <1>9, <2>3
    <3> QED BY <1>4, <3>1, SameWire
  <2> QED BY <1>5, <1>7, <2>1, <2>2, <2>3 DEF Fetched, NewestAfter, TasksAfter, Newest
<1>12. Folded' /\ InOrder'
  BY <1>4, <1>6, SameWire DEF Folded
<1> QED BY <1>6, <1>10, <1>11, <1>12 DEF CatchUp

\* The answer becomes the map; an answer that failed is one only of a build without updates.
LEMMA AnswerCatchUp ==
    ASSUME TypeOK, CatchUp, NEW f \in BOOLEAN, TimelineAnswer(f)
    PROVE  CatchUp'
<1>1. PICK b \in Builds : b = fetch.build /\ b = sel
  BY DEF TypeOK, CatchUp, Phases, TimelineAnswer
<1>2. /\ UNCHANGED <<emitted, down, events, sel>>
      /\ f \/ fetch.served
      /\ dag' = [Nothing EXCEPT ![b] = IF f THEN 0 ELSE fetch.map]
      /\ applied' = [build |-> b, last |-> fetch.start] /\ fetch' = NoFetch
      /\ lost' = [lost EXCEPT ![b] = @ \/ (f /\ Newest(b) # 0)]
      /\ lost \in [Builds -> BOOLEAN]
      /\ fetch \in [build : Builds \cup {NoBuild}, start : Nat, served : BOOLEAN, map : Nat]
  BY <1>1 DEF TimelineAnswer, service, wires, TypeOK, Newest
<1>3. PICK p \in Nat, e \in Nat : p = fetch.start /\ e = Len(events) /\ e = Len(events') /\ p <= e
  BY <1>2, WireAt DEF CatchUp, Places
<1>4. /\ applied'.last = p /\ applied'.build = b /\ sel' = b /\ b # NoBuild
      /\ fetch'.build = NoBuild /\ fetch'.start = 0
      /\ dag'[b] = IF f THEN 0 ELSE fetch.map
  BY <1>1, <1>2, <1>3, StreamAssumption DEF NoFetch, Nothing
<1>5. Places' /\ Phases' /\ Fetched'
  BY <1>2, <1>3, <1>4 DEF Places, Phases, Fetched
<1>6. OnTheWay'
  <2>1. ASSUME NEW c \in Builds, ~lost'[c] PROVE NewestAfter(c, e)' \/ TasksAfter(c, e)' = {}
    <3>1. ~lost[c]
      BY <1>2, <2>1
    <3>2. NewestAfter(c, e) \/ TasksAfter(c, e) = {}
      BY <1>3, <3>1 DEF CatchUp, OnTheWay
    <3> QED BY <1>2, <3>2, SameWire
  <2> QED BY <1>3, <2>1 DEF OnTheWay, NewestAfter, TasksAfter
<1>7. Newest(b) = 0 => TasksAfter(b, p) = {}
  <2> SUFFICES ASSUME Newest(b) = 0, NEW i \in 1..Len(Wire), Wire[i].build = b, IsTask(Wire[i])
               PROVE  FALSE
    BY DEF TasksAfter
  <2>1. Wire[i].n \in 1..emitted[b] /\ Script[b][Wire[i].n] = "task" /\ emitted[b] \in Nat
    BY DEF CatchUp, InOrder, IsTask, TypeOK
  <2>2. Wire[i].n <= 0
    BY <2>1, LastTask DEF Newest
  <2> QED BY <2>1, <2>2
<1>8. Folded'
  <2>1. ASSUME ~lost'[b]
        PROVE  NewestAfter(b, p)' \/ (TasksAfter(b, p)' = {} /\ dag'[b] = Newest(b)')
    <3>1. ~lost[b] /\ ~ (f /\ Newest(b) # 0)
      BY <1>2, <2>1
    <3>2. CASE f
      <4>1. Newest(b) = 0 /\ TasksAfter(b, p) = {} /\ dag'[b] = 0
        BY <1>4, <1>7, <3>1, <3>2
      <4> QED BY <1>2, <4>1, SameWire
    <3>3. CASE ~f
      <4>1. fetch.served /\ dag'[b] = fetch.map
        BY <1>2, <1>4, <3>3
      <4>2. NewestAfter(b, p) \/ (TasksAfter(b, p) = {} /\ dag'[b] = Newest(b))
        BY <1>1, <1>3, <1>4, <3>1, <4>1 DEF CatchUp, Fetched
      <4> QED BY <1>2, <4>2, SameWire
    <3> QED BY <3>2, <3>3
  <2> QED BY <1>4, <2>1 DEF Folded, NewestAfter, TasksAfter, Newest
<1>9. InOrder'
  BY <1>2, SameWire
<1> QED BY <1>5, <1>6, <1>8, <1>9 DEF CatchUp

\* Rendering k frames of d and evicting c events of the buffer e shifts what they hold by c.
LEMMA ShiftedAt ==
    ASSUME NEW e \in Seq(Frame), NEW d \in Seq(Frame), NEW k \in 1..Len(d), NEW c \in 0..Len(e) + k
    PROVE  LET all == e \o SubSeq(d, 1, k)
               kept == SubSeq(all, c + 1, Len(e) + k)
               ahead == SubSeq(d, k + 1, Len(d))
           IN  /\ Len(all) = Len(e) + k
               /\ \A i \in 1..Len(e) + k : all[i] = (e \o d)[i]
               /\ Len(kept) = Len(e) + k - c
               /\ c + Len(kept \o ahead) = Len(e \o d)
               /\ \A i \in 1..Len(kept \o ahead) : (kept \o ahead)[i] = (e \o d)[c + i]
<1> DEFINE all == e \o SubSeq(d, 1, k)
           kept == SubSeq(all, c + 1, Len(e) + k)
           ahead == SubSeq(d, k + 1, Len(d))
<1> SUFFICES /\ Len(all) = Len(e) + k
             /\ \A i \in 1..Len(e) + k : all[i] = (e \o d)[i]
             /\ Len(kept) = Len(e) + k - c
             /\ c + Len(kept \o ahead) = Len(e \o d)
             /\ \A i \in 1..Len(kept \o ahead) : (kept \o ahead)[i] = (e \o d)[c + i]
  OBVIOUS
<1>1. Len(e) \in Nat /\ Len(d) \in Nat /\ k \in Nat /\ 1 <= k /\ k <= Len(d) /\ c \in Nat /\ c <= Len(e) + k
  OBVIOUS
<1>2. PICK h \in Seq(Frame) :
        /\ h = SubSeq(d, 1, k) /\ Len(h) = k /\ \A i \in 1..k : h[i] = d[i]
  <2>1. /\ SubSeq(d, 1, k) \in Seq(Frame) /\ Len(SubSeq(d, 1, k)) = k
        /\ \A i \in 1..k : SubSeq(d, 1, k)[i] = d[i]
    BY <1>1, SubSeqProperties
  <2> QED BY <2>1
<1>3. PICK a \in Seq(Frame) :
        /\ a = e \o h /\ Len(a) = Len(e) + k
        /\ \A i \in 1..Len(e) : a[i] = e[i]
        /\ \A i \in 1..k : a[Len(e) + i] = d[i]
  <2>1. e \o h \in Seq(Frame)
    BY ConcatProperties
  <2>2. \A i \in 1..k : (e \o h)[Len(e) + i] = h[i]
    BY <1>2, ConcatAt
  <2>3. Len(e \o h) = Len(e) + k /\ \A i \in 1..Len(e) : (e \o h)[i] = e[i]
    BY <1>2, ConcatAt
  <2>4. \A i \in 1..k : (e \o h)[Len(e) + i] = d[i]
    BY <1>2, <2>2
  <2> QED BY <2>1, <2>3, <2>4
<1>4. /\ Len(e \o d) = Len(e) + Len(d)
      /\ \A i \in 1..Len(e) : (e \o d)[i] = e[i]
      /\ \A i \in 1..Len(d) : (e \o d)[Len(e) + i] = d[i]
  BY ConcatAt
<1>5. \A i \in 1..Len(e) + k : a[i] = (e \o d)[i]
  <2>1. ASSUME NEW i \in 1..Len(e) + k, ~ (i \in 1..Len(e))
        PROVE  i - Len(e) \in 1..k /\ i - Len(e) \in 1..Len(d) /\ i = Len(e) + (i - Len(e))
    BY <1>1, <2>1
  <2> QED BY <1>3, <1>4, <2>1
<1>6. PICK s \in Seq(Frame) :
        /\ s = kept /\ Len(s) = Len(e) + k - c
        /\ \A i \in 1..Len(e) + k - c : s[i] = a[c + i]
  <2>1. kept = SubSeq(a, c + 1, Len(a))
    BY <1>2, <1>3
  <2>2. \A i \in c + 1..Len(a) : a[i] \in Frame
    <3>1. \A i \in c + 1..Len(a) : i \in 1..Len(a)
      BY <1>1, <1>3
    <3> QED BY <3>1, ElementOfSeq
  <2>3. c + 1 \in Nat /\ Len(a) \in Nat /\ c + 1 \in 1..Len(a) + 1
    BY <1>1, <1>3
  <2> DEFINE w == SubSeq(a, c + 1, Len(a))
  <2>4. /\ w \in Seq(Frame)
        /\ Len(w) = IF c + 1 <= Len(a) THEN Len(a) - (c + 1) + 1 ELSE 0
        /\ \A i \in 1..Len(a) - (c + 1) + 1 : w[i] = a[c + 1 + i - 1]
    BY <2>2, <2>3, SubSeqProperties
  <2> HIDE DEF w
  <2>5. Len(a) - (c + 1) + 1 = Len(e) + k - c /\ \A i \in 1..Len(e) + k - c : c + 1 + i - 1 = c + i
    BY <1>1, <1>3
  <2>6. c + 1 <= Len(a) \/ (~ (c + 1 <= Len(a)) /\ Len(e) + k - c = 0)
    <3>1. PICK x \in Nat, y \in Nat : x = Len(e) /\ y = Len(a) /\ y = x + k /\ c <= x + k
      BY <1>1, <1>3
    <3>2. c + 1 <= y \/ (~ (c + 1 <= y) /\ x + k - c = 0)
      BY ONLY <1>1, <3>1
    <3> QED BY <3>1, <3>2
  <2>7. Len(w) = Len(e) + k - c
    BY ONLY <2>4, <2>5, <2>6
  <2>8. w = kept
    BY <2>1 DEF w
  <2>9. \A i \in 1..Len(e) + k - c : w[i] = a[c + i]
    BY ONLY <2>4, <2>5
  <2> QED BY <2>4, <2>7, <2>8, <2>9
<1>7. PICK t \in Seq(Frame) :
        /\ t = ahead /\ Len(t) = Len(d) - k
        /\ \A i \in 1..Len(d) - k : t[i] = d[k + i]
  <2>1. \A i \in k + 1..Len(d) : d[i] \in Frame
    <3>1. \A i \in k + 1..Len(d) : i \in 1..Len(d)
      BY <1>1
    <3> QED BY <3>1, ElementOfSeq
  <2> DEFINE w == SubSeq(d, k + 1, Len(d))
  <2>2. /\ w \in Seq(Frame)
        /\ Len(w) = IF k + 1 <= Len(d) THEN Len(d) - (k + 1) + 1 ELSE 0
        /\ \A i \in 1..Len(d) - (k + 1) + 1 : w[i] = d[k + 1 + i - 1]
    BY <1>1, <2>1, SubSeqProperties
  <2> HIDE DEF w
  <2>3. Len(d) - (k + 1) + 1 = Len(d) - k /\ \A i \in 1..Len(d) - k : k + 1 + i - 1 = k + i
    BY <1>1
  <2>4. k + 1 <= Len(d) \/ (~ (k + 1 <= Len(d)) /\ Len(d) - k = 0)
    BY <1>1
  <2>5. Len(w) = Len(d) - k
    BY ONLY <2>2, <2>3, <2>4
  <2>6. w = ahead
    BY DEF w
  <2>7. \A i \in 1..Len(d) - k : w[i] = d[k + i]
    BY ONLY <2>2, <2>3
  <2> QED BY <2>2, <2>5, <2>6, <2>7
<1>8. /\ Len(s \o t) = Len(s) + Len(t)
      /\ \A i \in 1..Len(s) : (s \o t)[i] = s[i]
      /\ \A i \in 1..Len(t) : (s \o t)[Len(s) + i] = t[i]
  BY ConcatAt
<1>9. c + Len(s \o t) = Len(e \o d)
  <2>1. c + (Len(e) + k - c + (Len(d) - k)) = Len(e) + Len(d)
    BY <1>1
  <2> QED BY ONLY <1>4, <1>6, <1>7, <1>8, <2>1
<1>10. ASSUME NEW i \in 1..Len(s \o t) PROVE (s \o t)[i] = (e \o d)[c + i]
  <2>1. CASE i <= Len(s)
    <3>1. i \in 1..Len(s) /\ i \in 1..Len(e) + k - c /\ c + i \in 1..Len(e) + k
      BY <1>1, <1>6, <2>1
    <3> QED BY <1>5, <1>6, <1>8, <3>1
  <2>2. CASE ~ (i <= Len(s))
    <3>1. PICK j \in 1..Len(t) : i = Len(s) + j
      <4>1. Len(s) \in Nat /\ Len(t) \in Nat /\ i \in 1..Len(s) + Len(t)
        BY <1>8
      <4>2. i - Len(s) \in 1..Len(t) /\ i = Len(s) + (i - Len(s))
        BY ONLY <2>2, <4>1
      <4> QED BY <4>2
    <3>2. j \in 1..Len(d) - k /\ k + j \in 1..Len(d) /\ c + i = Len(e) + (k + j)
      BY <1>1, <1>6, <1>7, <3>1
    <3>3. (s \o t)[i] = d[k + j]
      BY ONLY <1>7, <1>8, <3>1, <3>2
    <3>4. (e \o d)[Len(e) + (k + j)] = d[k + j]
      BY ONLY <1>4, <3>2
    <3> QED BY ONLY <3>2, <3>3, <3>4
  <2> QED BY <2>1, <2>2
<1> QED BY <1>2, <1>3, <1>5, <1>6, <1>7, <1>9, <1>10

\* A flush renders k frames and evicts c events.
Flushed(k, c) ==
    /\ c \in Nat /\ c <= Len(events) + k /\ Len(events') = Len(events) + k - c
    /\ Window(c) /\ c + Len(Wire') = Len(Wire)
    /\ fetch' = [fetch EXCEPT !.start = Shift(@, c)]
    /\ LET last == Shift(applied.last, c)
           fresh == FreshIn(events', last, sel)
           folds == sel # NoBuild /\ applied.build = sel /\ fresh # {}
       IN /\ dag' = IF folds THEN FoldFresh(events', last, sel, dag) ELSE dag
          /\ applied' = [applied EXCEPT !.last = IF folds THEN Max(fresh) ELSE last]
    /\ lost' = [b \in Builds |-> lost[b] \/ \E i \in 1..c :
                  /\ i > IF fetch = NoFetch THEN applied.last ELSE fetch.start
                  /\ NewestTask(b, Wire[i])]
    /\ UNCHANGED <<sel, emitted>>

\* Every flush renders and evicts so.
LEMMA FlushIs == ASSUME TypeOK, NEW k \in 0..MaxWire, flush(k) PROVE \E c \in Nat : Flushed(k, c)
<1> DEFINE all == events \o SubSeq(down, 1, k)
           cut == Shift(Len(all), Cap)
           kept == SubSeq(all, cut + 1, Len(all))
           last == Shift(applied.last, cut)
           fresh == FreshIn(kept, last, sel)
           folds == sel # NoBuild /\ applied.build = sel /\ fresh # {}
<1>1. /\ k \in 1..Len(down) /\ events' = kept
      /\ fetch' = [fetch EXCEPT !.start = Shift(@, cut)]
      /\ dag' = IF folds THEN FoldFresh(kept, last, sel, dag) ELSE dag
      /\ applied' = [applied EXCEPT !.last = IF folds THEN Max(fresh) ELSE last]
      /\ lost' = [b \in Builds |-> lost[b] \/ \E i \in 1..cut :
                    /\ i > IF fetch = NoFetch THEN applied.last ELSE fetch.start
                    /\ NewestTask(b, all[i])]
      /\ down' = SubSeq(down, k + 1, Len(down))
      /\ UNCHANGED <<sel, emitted>>
  BY DEF flush
<1>2. PICK e \in Seq(Frame), d \in Seq(Frame) : e = events /\ d = down
  BY DEF TypeOK
<1>3. /\ Len(e) \in Nat /\ k \in 1..Len(d) /\ all = e \o SubSeq(d, 1, k) /\ Cap \in Nat
      /\ Wire = e \o d
  BY <1>1, <1>2, StreamAssumption DEF Wire
<1>4. Len(all) = Len(e) + k
  <2> HIDE DEF all
  <2>1. 0 \in 0..Len(e) + k
    BY <1>3
  <2> QED BY <1>3, <2>1, ShiftedAt
<1>5. PICK c \in 0..Len(e) + k : c = cut
  <2>1. PICK x \in Nat : x = Len(e) + k /\ x = Len(all)
    <3> HIDE DEF all
    <3> QED BY <1>3, <1>4
  <2>2. Shift(x, Cap) \in 0..x
    BY <1>3 DEF Shift
  <2> QED BY <2>1, <2>2
<1>6. kept = SubSeq(e \o SubSeq(d, 1, k), c + 1, Len(e) + k)
  <2> HIDE DEF cut
  <2> QED BY <1>3, <1>4, <1>5
<1>7. PICK s, t : /\ s = SubSeq(e \o SubSeq(d, 1, k), c + 1, Len(e) + k)
                  /\ t = SubSeq(d, k + 1, Len(d))
  OBVIOUS
<1>8. /\ \A i \in 1..Len(e) + k : (e \o SubSeq(d, 1, k))[i] = (e \o d)[i]
      /\ Len(s) = Len(e) + k - c
      /\ c + Len(s \o t) = Len(e \o d)
      /\ \A i \in 1..Len(s \o t) : (s \o t)[i] = (e \o d)[c + i]
  <2> DEFINE w == SubSeq(e \o SubSeq(d, 1, k), c + 1, Len(e) + k)
             v == SubSeq(d, k + 1, Len(d))
  <2>1. /\ \A i \in 1..Len(e) + k : (e \o SubSeq(d, 1, k))[i] = (e \o d)[i]
        /\ Len(w) = Len(e) + k - c
        /\ c + Len(w \o v) = Len(e \o d)
        /\ \A i \in 1..Len(w \o v) : (w \o v)[i] = (e \o d)[c + i]
    BY <1>3, ShiftedAt
  <2>2. s = w /\ t = v
    BY <1>7
  <2> HIDE DEF w, v
  <2> QED BY <2>1, <2>2
<1>9. events' = s /\ Wire' = s \o t
  <2> HIDE DEF kept
  <2> QED BY <1>1, <1>2, <1>6, <1>7 DEF Wire
<1>10. \A i \in 1..c : all[i] = Wire[i]
  <2>1. \A i \in 1..c : i \in 1..Len(e) + k
    BY <1>3
  <2> HIDE DEF all
  <2> QED BY <1>3, <1>8, <2>1
<1> HIDE DEF all
<1>11. /\ c \in Nat /\ c <= Len(events) + k /\ Len(events') = Len(events) + k - c
       /\ c + Len(Wire') = Len(Wire)
  BY <1>2, <1>3, <1>8, <1>9
<1>12. Window(c)
  <2>1. Len(Wire) \in Nat /\ c + Len(Wire') <= Len(Wire)
    BY <1>11, WireAt
  <2>2. \A i \in 1..Len(Wire') : Wire'[i] = Wire[c + i]
    BY <1>3, <1>8, <1>9
  <2> QED BY <1>1, <2>1, <2>2 DEF Window
<1>13. lost' = [b \in Builds |-> lost[b] \/ \E i \in 1..c :
                   /\ i > IF fetch = NoFetch THEN applied.last ELSE fetch.start
                   /\ NewestTask(b, Wire[i])]
  <2> HIDE DEF cut
  <2> QED BY <1>1, <1>5, <1>10
<1>14. LET l == Shift(applied.last, c)
           f == FreshIn(events', l, sel)
           g == sel # NoBuild /\ applied.build = sel /\ f # {}
       IN /\ dag' = IF g THEN FoldFresh(events', l, sel, dag) ELSE dag
          /\ applied' = [applied EXCEPT !.last = IF g THEN Max(f) ELSE l]
  <2> HIDE DEF cut, kept
  <2> QED BY <1>1, <1>5
<1>15. fetch' = [fetch EXCEPT !.start = Shift(@, c)]
  <2> HIDE DEF cut
  <2> QED BY <1>1, <1>5
<1> QED BY <1>1, <1>11, <1>12, <1>13, <1>14, <1>15 DEF Flushed

\* A region of a build that lost nothing, as a flush moves it.
LEMMA FlushedNewest ==
    ASSUME TypeOK, TypeOK', CatchUp, NEW k \in 0..MaxWire, NEW c \in Nat, Flushed(k, c),
           NEW b \in Builds, ~lost'[b], NEW p \in Nat, NEW q \in Nat, q + c >= p,
           p >= IF fetch = NoFetch THEN applied.last ELSE fetch.start
    PROVE  /\ ~lost[b] /\ Newest(b)' = Newest(b)
           /\ TasksAfter(b, p) = {} => TasksAfter(b, q)' = {}
           /\ NewestAfter(b, p) =>
                 \/ NewestAfter(b, q)'
                 \/ /\ TasksAfter(b, q)' = {}
                    /\ \E j \in 1..Len(Wire') :
                          /\ j <= q /\ c + j > p /\ c + j \in TasksAfter(b, p)
                          /\ Wire'[j].build = b /\ Wire'[j].n = Newest(b) /\ IsTask(Wire'[j])
<1> DEFINE from == IF fetch = NoFetch THEN applied.last ELSE fetch.start
<1>1. /\ lost'[b] = (lost[b] \/ \E i \in 1..c : i > from /\ NewestTask(b, Wire[i]))
      /\ Window(c) /\ c + Len(Wire') = Len(Wire)
      /\ emitted' = emitted
  BY DEF Flushed
<1>2. from \in Nat /\ Len(Wire) \in Nat /\ Len(Wire') \in Nat
  BY WireAt, WireThen DEF TypeOK
<1>3. p >= from
  OBVIOUS
<1> HIDE DEF from
<1>4. ASSUME NEW i \in 1..Len(Wire), i > p, i <= c \/ i > c + Len(Wire')
      PROVE  ~NewestTask(b, Wire[i])
  <2>1. i \in 1..c /\ i > from
    BY <1>1, <1>2, <1>3, <1>4
  <2> QED BY <1>1, <2>1
<1>5. Newest(b)' = Newest(b) /\ ~lost[b]
  BY <1>1 DEF Newest
<1> QED BY <1>1, <1>4, <1>5, WindowNewest DEF CatchUp

\* What moves down by c, from a position the tab remembers.
LEMMA FlushedRegion ==
    ASSUME TypeOK, TypeOK', CatchUp, NEW k \in 0..MaxWire, NEW c \in Nat, Flushed(k, c),
           NEW b \in Builds, ~lost'[b], NEW p \in Nat,
           p >= IF fetch = NoFetch THEN applied.last ELSE fetch.start
    PROVE  /\ ~lost[b] /\ Newest(b)' = Newest(b)
           /\ TasksAfter(b, p) = {} => TasksAfter(b, Shift(p, c))' = {}
           /\ NewestAfter(b, p) => NewestAfter(b, Shift(p, c))'
<1>1. PICK q \in Nat : q = Shift(p, c)
  BY ShiftNat
<1>2. q + c >= p /\ \A j \in Nat \ {0} : j <= q => ~ (c + j > p)
  BY <1>1 DEF Shift
<1>3. \A j \in 1..Len(Wire') : j \in Nat \ {0}
  BY WireThen
<1>4. /\ ~lost[b] /\ Newest(b)' = Newest(b)
      /\ TasksAfter(b, p) = {} => TasksAfter(b, q)' = {}
      /\ NewestAfter(b, p) => \/ NewestAfter(b, q)'
                              \/ \E j \in 1..Len(Wire') : j <= q /\ c + j > p
  BY <1>2, FlushedNewest
<1>5. NewestAfter(b, p) => NewestAfter(b, q)'
  BY <1>2, <1>3, <1>4
<1> QED BY <1>1, <1>4, <1>5

\* The fold over what a flush rendered ends at the newest update, if it was on the way.
LEMMA FlushedFold ==
    ASSUME TypeOK, TypeOK', CatchUp, NEW k \in 0..MaxWire, NEW c \in Nat, Flushed(k, c),
           NEW b \in Builds, b = sel, ~lost'[b], fetch = NoFetch, applied.build = b,
           FreshIn(events', Shift(applied.last, c), b) # {}
    PROVE  \E m \in 1..Len(events') :
              /\ applied'.last = m
              /\ NewestAfter(b, m)' \/ (TasksAfter(b, m)' = {} /\ dag'[b] = Newest(b)')
<1> DEFINE last == Shift(applied.last, c)
           fresh == FreshIn(events', last, b)
           tasks == {i \in fresh : IsTask(events'[i])}
<1>1. PICK p \in Nat, l \in Nat : p = applied.last /\ l = last
  BY ShiftNat DEF TypeOK
<1>2. /\ applied' = [applied EXCEPT !.last = Max(fresh)]
      /\ dag' = FoldFresh(events', l, b, dag)
      /\ applied \in [build : Builds \cup {NoBuild}, last : Nat]
      /\ dag \in [Builds -> Nat] /\ events' \in Seq(Frame) /\ b # NoBuild
  BY <1>1, StreamAssumption DEF Flushed, TypeOK
<1>3. PICK m \in 1..Len(events') : m = Max(fresh) /\ m \in fresh /\ \A i \in fresh : i <= m
  <2>0. fresh # {}
    OBVIOUS
  <2> HIDE DEF last
  <2>1. Max(fresh) \in fresh /\ Max(fresh) \in 1..Len(events')
    BY <1>2, <2>0, FreshMax
  <2>2. fresh \subseteq 0..Len(events') /\ Len(events') \in Nat
    BY <1>2 DEF FreshIn
  <2>3. \A i \in fresh : i <= Max(fresh)
    BY <2>1, <2>2, MaxIn
  <2> QED BY <2>1, <2>3
<1>4. m \in Nat /\ m > l /\ m + c >= p
  <2>1. m \in Nat /\ m > l
    BY <1>1, <1>3 DEF FreshIn
  <2>2. l + c >= p
    BY <1>1 DEF Shift
  <2> QED BY <2>1, <2>2
<1>5. applied'.last = m
  BY <1>2, <1>3
<1> DEFINE from == IF fetch = NoFetch THEN applied.last ELSE fetch.start
<1>f. p >= from
  BY <1>1
<1>6. /\ ~lost[b] /\ Newest(b)' = Newest(b)
      /\ TasksAfter(b, p) = {} => TasksAfter(b, m)' = {}
      /\ NewestAfter(b, p) =>
            \/ NewestAfter(b, m)'
            \/ /\ TasksAfter(b, m)' = {}
               /\ \E j \in 1..Len(Wire') :
                     /\ j <= m /\ c + j > p /\ c + j \in TasksAfter(b, p)
                     /\ Wire'[j].build = b /\ Wire'[j].n = Newest(b) /\ IsTask(Wire'[j])
  BY <1>4, <1>f, FlushedNewest
<1>7. /\ Len(events') \in Nat /\ Len(Wire') \in Nat /\ Len(Wire) \in Nat /\ Len(events') <= Len(Wire')
      /\ \A i \in 1..Len(events') : Wire'[i] = events'[i]
      /\ \A i \in 1..Len(events') : c + i \in 1..Len(Wire) /\ Wire[c + i] = events'[i]
  <2>1. /\ Len(events') \in Nat /\ Len(Wire') \in Nat /\ Len(Wire) \in Nat /\ Len(events') <= Len(Wire')
        /\ \A i \in 1..Len(events') : Wire'[i] = events'[i]
    BY WireAt, WireThen
  <2>2. \A i \in 1..Len(Wire') : Wire'[i] = Wire[c + i]
    BY DEF Flushed, Window
  <2>3. c + Len(Wire') = Len(Wire)
    BY DEF Flushed
  <2>4. ASSUME NEW i \in 1..Len(events')
        PROVE  i \in 1..Len(Wire') /\ c + i \in 1..Len(Wire)
    BY <2>1, <2>3
  <2>5. \A i \in 1..Len(events') : Wire[c + i] = events'[i]
    BY <2>1, <2>2, <2>4
  <2> QED BY <2>1, <2>4, <2>5
<1>8. \A i : i \in tasks <=>
              i \in 1..Len(events') /\ i > l /\ events'[i].build = b /\ IsTask(events'[i])
  BY <1>1 DEF FreshIn
<1>9. \A i \in 1..Len(events') : i > l <=> c + i > p
  BY <1>1 DEF Shift
<1>10. FoldFresh(events', l, b, dag) =
          IF tasks = {} THEN dag
          ELSE [dag EXCEPT ![events'[Max(tasks)].build] = events'[Max(tasks)].n]
  BY <1>1 DEF FoldFresh
<1> HIDE DEF last
<1>11. CASE TasksAfter(b, p) = {} /\ dag[b] = Newest(b)
  <2>1. tasks = {}
    <3> SUFFICES ASSUME NEW i \in tasks PROVE FALSE
      OBVIOUS
    <3>1. i \in 1..Len(events') /\ i > l /\ events'[i].build = b /\ IsTask(events'[i])
      BY <1>8
    <3>2. c + i \in 1..Len(Wire) /\ c + i > p /\ Wire[c + i] = events'[i]
      BY <1>7, <1>9, <3>1
    <3> QED BY <1>11, <3>1, <3>2 DEF TasksAfter
  <2>2. dag' = dag
    BY <1>2, <1>10, <2>1
  <2>3. dag'[b] = Newest(b)' /\ TasksAfter(b, m)' = {}
    BY <1>6, <1>11, <2>2
  <2> QED BY <1>5, <2>3
<1>12. CASE NewestAfter(b, m)'
  BY <1>5, <1>12
<1>13. ASSUME TasksAfter(b, m)' = {},
              NEW j \in 1..Len(Wire'), j <= m, c + j > p,
              Wire'[j].build = b, Wire'[j].n = Newest(b), IsTask(Wire'[j])
       PROVE  TasksAfter(b, m)' = {} /\ dag'[b] = Newest(b)'
  <2>1. j \in 1..Len(events')
    BY <1>3, <1>7, <1>13
  <2>2. j \in tasks
    BY <1>7, <1>8, <1>9, <1>13, <2>1
  <2>3. Max(tasks) \in tasks /\ \A i \in tasks : i <= Max(tasks)
    <3>1. tasks \subseteq 0..Len(events') /\ tasks # {} /\ Len(events') \in Nat
      BY <1>7, <2>2 DEF FreshIn
    <3> HIDE DEF tasks
    <3> QED BY <3>1, MaxIn
  <2>4. PICK t \in 1..Len(events') :
          t = Max(tasks) /\ j <= t /\ events'[t].build = b /\ IsTask(events'[t])
    BY <1>8, <2>2, <2>3
  <2>5. c + t <= c + j
    <3>1. /\ c + t \in 1..Len(Wire) /\ Wire[c + t].build = b /\ IsTask(Wire[c + t])
          /\ c + j \in 1..Len(Wire) /\ Wire[c + j].build = b /\ Wire[c + j].n = Newest(b)
      BY <1>7, <1>13, <2>1, <2>4
    <3> QED BY <3>1, NewestLast DEF CatchUp
  <2>6. t = j
    BY <2>1, <2>4, <2>5
  <2>7. dag' = [dag EXCEPT ![b] = Newest(b)]
    <3>1. events'[t].n = Newest(b) /\ events'[t].build = b /\ tasks # {}
      BY <1>7, <1>13, <2>1, <2>2, <2>4, <2>6
    <3> HIDE DEF tasks
    <3> QED BY <1>2, <1>10, <2>4, <3>1
  <2> QED BY <1>2, <1>6, <1>13, <2>7
<1>14. CASE NewestAfter(b, p)
  BY <1>5, <1>6, <1>12, <1>13, <1>14
<1>15. NewestAfter(b, p) \/ (TasksAfter(b, p) = {} /\ dag[b] = Newest(b))
  <2>1. ~lost[sel] /\ sel # NoBuild /\ p = applied.last
    BY <1>1, <1>2, <1>6
  <2> QED BY <2>1 DEF CatchUp, Folded
<1> QED BY <1>11, <1>14, <1>15

\* The flush renders, evicts and folds.
LEMMA FlushCatchUp ==
    ASSUME TypeOK, TypeOK', CatchUp, NEW k \in 0..MaxWire, flush(k)
    PROVE  CatchUp'
<1>1. PICK c \in Nat : Flushed(k, c)
  BY FlushIs
<1> DEFINE last == Shift(applied.last, c)
           fresh == FreshIn(events', last, sel)
           folds == sel # NoBuild /\ applied.build = sel /\ fresh # {}
<1>2. /\ c <= Len(events) + k /\ Len(events') = Len(events) + k - c
      /\ fetch' = [fetch EXCEPT !.start = Shift(@, c)]
      /\ dag' = IF folds THEN FoldFresh(events', last, sel, dag) ELSE dag
      /\ applied' = [applied EXCEPT !.last = IF folds THEN Max(fresh) ELSE last]
      /\ UNCHANGED <<sel, emitted>>
  BY <1>1 DEF Flushed
<1>3. /\ applied \in [build : Builds \cup {NoBuild}, last : Nat]
      /\ fetch \in [build : Builds \cup {NoBuild}, start : Nat, served : BOOLEAN, map : Nat]
      /\ sel \in Builds \cup {NoBuild}
      /\ k \in Nat /\ Len(events) \in Nat /\ Len(events') \in Nat /\ events' \in Seq(Frame)
      /\ applied.last <= Len(events) /\ fetch.start <= Len(events)
  BY WireAt, WireThen, StreamAssumption DEF TypeOK, CatchUp, Places
<1>4. /\ applied'.build = applied.build /\ applied'.last = (IF folds THEN Max(fresh) ELSE last)
      /\ fetch'.build = fetch.build /\ fetch'.start = Shift(fetch.start, c)
      /\ fetch'.served = fetch.served /\ fetch'.map = fetch.map
  BY <1>2, <1>3
<1>5. fetch' = NoFetch <=> fetch = NoFetch
  <2>1. ASSUME fetch = NoFetch PROVE fetch' = NoFetch
    <3>1. fetch.start = 0
      BY <2>1 DEF NoFetch
    <3>2. Shift(fetch.start, c) = 0
      BY <3>1 DEF Shift
    <3>3. fetch' = [fetch EXCEPT !.start = 0]
      BY <1>2, <3>2
    <3> QED BY <2>1, <3>3 DEF NoFetch
  <2>2. fetch.build = NoBuild => fetch = NoFetch
    BY DEF CatchUp, Phases
  <2>3. fetch' = NoFetch => fetch'.build = NoBuild
    BY DEF NoFetch
  <2> QED BY <1>4, <2>1, <2>2, <2>3
<1>6. Phases'
  BY <1>2, <1>4, <1>5 DEF CatchUp, Phases
<1>7. InOrder'
  BY <1>1, WindowOrder DEF CatchUp, Flushed
<1>8. Places'
  <2>1. last <= Len(events') /\ Shift(fetch.start, c) <= Len(events')
    BY <1>2, <1>3 DEF Shift
  <2>2. folds => Max(fresh) <= Len(events')
    <3> HIDE DEF last
    <3>1. fresh # {} => Max(fresh) \in 1..Len(events')
      BY <1>3, FreshMax
    <3> QED BY <1>3, <3>1
  <2> HIDE DEF folds, last
  <2> QED BY <1>4, <2>1, <2>2 DEF Places
<1> DEFINE from == IF fetch = NoFetch THEN applied.last ELSE fetch.start
<1>9. from \in Nat /\ from <= Len(events)
  BY <1>3
<1>10. OnTheWay'
  <2>1. ASSUME NEW b \in Builds, ~lost'[b]
        PROVE  NewestAfter(b, Len(events))' \/ TasksAfter(b, Len(events))' = {}
    <3>1. PICK p \in Nat, q \in Nat : p = Len(events) /\ q = Len(events') /\ q + c >= p
      BY <1>2, <1>3
    <3>2. p >= from
      BY <1>3, <3>1
    <3>3. /\ ~lost[b]
          /\ TasksAfter(b, p) = {} => TasksAfter(b, q)' = {}
          /\ NewestAfter(b, p) => NewestAfter(b, q)' \/ TasksAfter(b, q)' = {}
      BY <1>1, <2>1, <3>1, <3>2, FlushedNewest
    <3>4. NewestAfter(b, p) \/ TasksAfter(b, p) = {}
      BY <3>1, <3>3 DEF CatchUp, OnTheWay
    <3>5. NewestAfter(b, q)' \/ TasksAfter(b, q)' = {}
      BY <3>3, <3>4
    <3> QED BY <3>1, <3>5 DEF NewestAfter, TasksAfter
  <2> QED BY <2>1 DEF OnTheWay
<1>11. Fetched'
  <2> SUFFICES ASSUME fetch.build # NoBuild, ~lost'[sel]
               PROVE  \/ NewestAfter(sel, fetch.start)'
                      \/ /\ TasksAfter(sel, fetch.start)' = {}
                         /\ fetch.served => fetch.map = Newest(sel)'
    BY <1>2, <1>4 DEF Fetched
  <2>1. PICK b \in Builds, p \in Nat, q \in Nat :
          /\ b = sel /\ b = sel' /\ p = fetch.start /\ q = Shift(p, c) /\ q = fetch'.start
    BY <1>2, <1>3, <1>4, ShiftNat DEF CatchUp, Phases
  <2>2. p >= from
    BY <2>1 DEF NoFetch
  <2>3. /\ ~lost[b] /\ Newest(b)' = Newest(b)
        /\ TasksAfter(b, p) = {} => TasksAfter(b, Shift(p, c))' = {}
        /\ NewestAfter(b, p) => NewestAfter(b, Shift(p, c))'
    BY <1>1, <2>1, <2>2, FlushedRegion
  <2>4. NewestAfter(b, p) \/ (TasksAfter(b, p) = {} /\ (fetch.served => fetch.map = Newest(b)))
    BY <2>1, <2>3 DEF CatchUp, Fetched
  <2>5. NewestAfter(b, q)' \/ (TasksAfter(b, q)' = {} /\ (fetch.served => fetch.map = Newest(b)'))
    BY <2>1, <2>3, <2>4
  <2> QED BY <2>1, <2>5 DEF NewestAfter, TasksAfter, Newest
<1>12. Folded'
  <2> SUFFICES ASSUME sel # NoBuild, fetch = NoFetch, ~lost'[sel]
               PROVE  \/ NewestAfter(sel, applied.last)'
                      \/ TasksAfter(sel, applied.last)' = {} /\ dag'[sel] = Newest(sel)'
    BY <1>2, <1>5 DEF Folded
  <2>1. PICK b \in Builds, p \in Nat :
          b = sel /\ b = sel' /\ p = applied.last /\ applied.build = b
    BY <1>2, <1>3 DEF CatchUp, Phases
  <2>2. CASE fresh # {}
    <3>1. PICK m \in 1..Len(events') :
            /\ applied'.last = m
            /\ NewestAfter(b, m)' \/ (TasksAfter(b, m)' = {} /\ dag'[b] = Newest(b)')
      BY <1>1, <2>1, <2>2, FlushedFold
    <3> QED BY <2>1, <3>1 DEF NewestAfter, TasksAfter, Newest
  <2>3. CASE fresh = {}
    <3>1. applied'.last = Shift(p, c) /\ dag' = dag
      BY <1>2, <1>4, <2>1, <2>3
    <3>2. /\ ~lost[b] /\ Newest(b)' = Newest(b)
          /\ TasksAfter(b, p) = {} => TasksAfter(b, Shift(p, c))' = {}
          /\ NewestAfter(b, p) => NewestAfter(b, Shift(p, c))'
      BY <1>1, <2>1, FlushedRegion
    <3>3. NewestAfter(b, p) \/ (TasksAfter(b, p) = {} /\ dag[b] = Newest(b))
      BY <2>1, <3>2 DEF CatchUp, Folded
    <3>4. PICK q \in Nat : q = Shift(p, c)
      BY ShiftNat
    <3>5. NewestAfter(b, q)' \/ (TasksAfter(b, q)' = {} /\ dag'[b] = Newest(b)')
      BY <3>1, <3>2, <3>3, <3>4
    <3> QED BY <2>1, <3>1, <3>4, <3>5 DEF NewestAfter, TasksAfter, Newest
  <2> QED BY <2>2, <2>3
<1> QED BY <1>6, <1>7, <1>8, <1>10, <1>11, <1>12 DEF CatchUp

\* Every step keeps the invariant.
LEMMA CatchUpStep == TypeOK /\ TypeOK' /\ CatchUp /\ [Next]_vars => CatchUp'
<1> SUFFICES ASSUME TypeOK, TypeOK', CatchUp, [Next]_vars PROVE CatchUp'
  OBVIOUS
<1>1. CASE \E b \in Builds : Emit(b)
  BY <1>1, SendCatchUp
<1>2. CASE \E b \in Builds : Select(b)
  BY <1>2, SelectCatchUp
<1>3. CASE NodeUpdate
  BY <1>3, SendCatchUp
<1>4. CASE Receive \/ Connect \/ Open \/ Poll \/ PollFails \/ UNCHANGED vars
  BY <1>4, QuietCatchUp DEF Receive, Connect, Open, Poll, PollFails, vars, service, wires, tab
<1>5. CASE \E k \in 0..MaxWire : Drop(k)
  BY <1>5, DropCatchUp
<1>6. CASE \E k \in 0..MaxWire : flush(k)
  BY <1>6, FlushCatchUp
<1>7. CASE Leave
  BY <1>7, LeaveCatchUp
<1>8. CASE TimelineServe
  BY <1>8, ServeCatchUp
<1>9. CASE \E f \in BOOLEAN : TimelineAnswer(f)
  BY <1>9, AnswerCatchUp
<1> QED BY <1>1, <1>2, <1>3, <1>4, <1>5, <1>6, <1>7, <1>8, <1>9 DEF Next

\* An empty wire has no region to speak of.
LEMMA CatchUpAtFirst == Init => CatchUp
<1> SUFFICES ASSUME Init PROVE CatchUp
  OBVIOUS
<1>1. Wire = <<>> /\ Len(Wire) = 0 /\ Len(events) = 0
  BY DEF Init, Wire
<1>2. \A b, p : TasksAfter(b, p) = {}
  BY <1>1 DEF TasksAfter
<1>3. InOrder /\ OnTheWay
  BY <1>1, <1>2 DEF InOrder, OnTheWay
<1>4. sel = NoBuild /\ fetch = NoFetch /\ applied = NotFolded /\ fetch.build = NoBuild
  BY DEF Init, NoFetch
<1>5. Places
  BY <1>1, <1>4 DEF Places, NoFetch, NotFolded
<1> QED BY <1>3, <1>4, <1>5 DEF CatchUp, Phases, Fetched, Folded

\* foldEvent, the Live DAG tab: whatever the order of the timeline's answer and the
\* stream's events, once nothing of the build is on its way the map is at the newest
\* update, unless that one was lost.
THEOREM MapCatchesUp == Spec => []DagCatchesUp
<1>1. TypeOK /\ CatchUp => DagCatchesUp
  <2> SUFFICES ASSUME TypeOK, CatchUp, CaughtUp, ~lost[sel] PROVE dag[sel] = Newest(sel)
    BY DEF DagCatchesUp, Newest
  <2>1. TasksAfter(sel, applied.last) = {}
    <3> SUFFICES ASSUME NEW i \in 1..Len(Wire), i > applied.last, Wire[i].build = sel PROVE FALSE
      BY DEF TasksAfter
    <3>1. Len(events) \in Nat /\ Len(down) \in Nat /\ Len(Wire) = Len(events) + Len(down)
      BY WireAt
    <3>2. CASE i <= Len(events)
      <4>1. i \in 1..Len(events) /\ Wire[i] = events[i]
        BY <3>1, <3>2, WireAt
      <4> QED BY <4>1 DEF CaughtUp, FreshIn
    <3>3. CASE ~ (i <= Len(events))
      <4>1. i - Len(events) \in 1..Len(down) /\ i = Len(events) + (i - Len(events))
        BY <3>1, <3>3
      <4>2. Wire[i] = down[i - Len(events)]
        BY <4>1, WireAt
      <4> QED BY <4>1, <4>2 DEF CaughtUp
    <3> QED BY <3>2, <3>3
  <2>2. ~NewestAfter(sel, applied.last)
    BY <2>1 DEF NewestAfter
  <2> QED BY <2>1, <2>2 DEF CatchUp, Folded, CaughtUp
<1> QED BY <1>1, CatchUpAtFirst, CatchUpStep, StreamTypes, PTL DEF Spec
================================================================================
