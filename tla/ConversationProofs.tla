------------------------- MODULE ConversationProofs -------------------------
(***************************************************************************)
(* Theorems about Conversation, for any scripts, agents, files and any     *)
(* number of frames, envelopes and turns.                                  *)
(*                                                                         *)
(* What the adapter does with one message is stated first, for any adapter *)
(* and message; then what every action does to the names of blocks, to     *)
(* what is told of streamed replies, and to the changes of files.          *)
(***************************************************************************)
EXTENDS Conversation, SequenceTheorems, WellFoundedInduction, TLAPS

-----------------------------------------------------------------------------
(* Sequences of anything *)

\* A sequence has a length, and its range is what is at its positions.
LEMMA Elements ==
    ASSUME NEW s, IsSeq(s)
    PROVE  /\ Len(s) \in Nat /\ DOMAIN s = 1..Len(s)
           /\ \A i \in 1..Len(s) : s[i] \in Range(s)
           /\ \A x \in Range(s) : \E i \in 1..Len(s) : s[i] = x
  BY DEF IsSeq, Range

LEMMA SequenceOf ==
    ASSUME NEW X, NEW s \in Seq(X)
    PROVE  IsSeq(s) /\ Range(s) \subseteq X
<1>1. Len(s) \in Nat /\ DOMAIN s = 1..Len(s) /\ s \in [1..Len(s) -> X]
  OBVIOUS
<1>2. s \in [1..Len(s) -> Range(s)] /\ Range(s) \subseteq X
  BY <1>1 DEF Range
<1>3. s \in Seq(Range(s))
  BY <1>1, <1>2, SeqDef
<1> QED BY <1>2, <1>3 DEF IsSeq

\* The sequences that the adapter returns are built from none, one or more.
LEMMA NoElements == IsSeq(<<>>) /\ Range(<<>>) = {}
<1>1. <<>> \in Seq({})
  OBVIOUS
<1>2. DOMAIN <<>> = {} /\ Range(<<>>) = {}
  BY <1>1 DEF Range
<1> QED BY <1>1, <1>2 DEF IsSeq

LEMMA OneElement ==
    ASSUME NEW x
    PROVE  IsSeq(<<x>>) /\ Range(<<x>>) = {x}
<1>1. <<x>> \in Seq({x}) /\ <<x>>[1] = x /\ 1 \in DOMAIN <<x>>
  OBVIOUS
<1>2. IsSeq(<<x>>) /\ Range(<<x>>) \subseteq {x}
  BY <1>1, SequenceOf, Zenon
<1>3. x \in Range(<<x>>)
  BY <1>1 DEF Range
<1> QED BY <1>2, <1>3

\* What two sequences joined contain, and one with one more.
LEMMA Joined ==
    ASSUME NEW s, NEW t, IsSeq(s), IsSeq(t)
    PROVE  IsSeq(s \o t) /\ Range(s \o t) = Range(s) \cup Range(t)
<1> DEFINE X == Range(s) \cup Range(t)
           st == s \o t
<1>1. s \in Seq(X) /\ t \in Seq(X)
  <2>1. s \in Seq(Range(s)) /\ t \in Seq(Range(t)) /\ Range(s) \subseteq X /\ Range(t) \subseteq X
    BY DEF IsSeq
  <2> HIDE DEF X
  <2> QED BY <2>1
<1> HIDE DEF X
<1>2. /\ st \in Seq(X) /\ Len(st) = Len(s) + Len(t)
      /\ \A i \in 1..Len(s) : st[i] = s[i]
      /\ \A i \in 1..Len(t) : st[Len(s) + i] = t[i]
      /\ Len(s) \in Nat /\ Len(t) \in Nat /\ DOMAIN s = 1..Len(s) /\ DOMAIN t = 1..Len(t)
  BY <1>1
<1> HIDE DEF st
<1>3. IsSeq(st) /\ Range(st) \subseteq X /\ DOMAIN st = 1..Len(st)
  BY <1>2, SequenceOf
<1>4. Range(s) \subseteq Range(st)
  BY <1>2, <1>3 DEF Range
<1>5. ASSUME NEW x \in Range(t) PROVE x \in Range(st)
  <2>1. PICK i \in 1..Len(t) : x = t[i]
    BY <1>2, <1>5 DEF Range
  <2>2. Len(s) + i \in 1..Len(st) /\ st[Len(s) + i] = x
    BY <1>2, <2>1
  <2> QED BY <1>3, <2>2 DEF Range
<1> QED BY <1>3, <1>4, <1>5 DEF X, st

LEMMA OneMore ==
    ASSUME NEW s, NEW x, IsSeq(s)
    PROVE  /\ IsSeq(Append(s, x)) /\ Range(Append(s, x)) = Range(s) \cup {x}
           /\ Append(s, x) # <<>> /\ Len(Append(s, x)) = Len(s) + 1
           /\ Append(s, x)[Len(Append(s, x))] = x
<1> DEFINE X == Range(s) \cup {x}
           t == Append(s, x)
<1>1. s \in Seq(X)
  <2>1. s \in Seq(Range(s)) /\ Range(s) \subseteq X
    BY DEF IsSeq
  <2> HIDE DEF X
  <2> QED BY <2>1
<1>2. x \in X
  OBVIOUS
<1> HIDE DEF X
<1>3. /\ t \in Seq(X) /\ Len(t) = Len(s) + 1 /\ t[Len(t)] = x
      /\ \A i \in 1..Len(s) : t[i] = s[i]
      /\ Len(s) \in Nat /\ DOMAIN s = 1..Len(s) /\ DOMAIN t = 1..Len(t) /\ t # <<>>
  BY <1>1, <1>2
<1> HIDE DEF t
<1>4. IsSeq(t) /\ Range(t) \subseteq X
  BY <1>3, SequenceOf
<1>5. Range(s) \subseteq Range(t) /\ x \in Range(t)
  BY <1>3 DEF Range
<1> QED BY <1>3, <1>4, <1>5 DEF X, t

\* A set of positions has a least one.
LEMMA LeastPosition ==
    ASSUME NEW T, T \subseteq Nat, T # {}
    PROVE  \E x \in T : \A y \in T : x <= y
<1> DEFINE R == OpToRel(<, Nat)
<1>1. IsWellFoundedOn(R, Nat)
  BY NatLessThanWellFounded, Zenon
<1>2. \A x, y \in Nat : x < y => <<x, y>> \in R
  BY SMT DEF OpToRel
<1> HIDE DEF R
<1>3. PICK x \in T : \A y \in T : ~ (<<y, x>> \in R)
  BY <1>1, WFMin, Zenon
<1>4. \A y \in T : ~ (y < x)
  BY <1>2, <1>3, Zenon
<1>5. \A y \in T : x <= y
  BY <1>4
<1> QED BY <1>5

\* From a position to the next one, all the way.
LEMMA AlongPositions ==
    ASSUME NEW n \in Nat \ {0}, NEW S, 1 \in S, \A i \in 2..n : i - 1 \in S => i \in S
    PROVE  n \in S
<1> DEFINE T == (1..n) \ S
<1>1. SUFFICES ASSUME T # {} PROVE FALSE
  OBVIOUS
<1>2. T \subseteq Nat
  OBVIOUS
<1>3. PICK x \in T : \A y \in T : x <= y
  <2> HIDE DEF T
  <2> QED BY <1>1, <1>2, LeastPosition, Zenon
<1>4. x # 1 /\ x \in 2..n /\ x - 1 \in 1..n
  BY <1>3
<1>5. x - 1 \in S
  BY <1>3, <1>4
<1> QED
  BY <1>3, <1>4, <1>5

\* FlattenSeq as a recursive function that exists.
LEMMA FlattenFunction ==
    ASSUME NEW X, NEW ss \in Seq(X), ss # <<>>
    PROVE  \E f : /\ f = [i \in 1..Len(ss) |-> IF i = 1 THEN ss[i] ELSE f[i - 1] \o ss[i]]
                  /\ FlattenSeq(ss) = f[Len(ss)]
<1> DEFINE n == Len(ss)
           Longer(f, i) == f[i - 1] \o ss[i]
           IsUpTo(f, k) == f = [i \in 1..k |-> IF i = 1 THEN ss[i] ELSE Longer(f, i)]
           Good == {k \in 1..n : \E f : IsUpTo(f, k)}
<1>1. n \in Nat \ {0}
  OBVIOUS
<1>2. 1 \in Good
  <2>1. IsUpTo([i \in 1..1 |-> ss[1]], 1)
    OBVIOUS
  <2>2. \E f : IsUpTo(f, 1)
    BY <2>1, Zenon
  <2> HIDE DEF IsUpTo
  <2> QED BY <1>1, <2>2
<1>3. ASSUME NEW k \in 2..n, k - 1 \in Good PROVE k \in Good
  <2>1. PICK f : IsUpTo(f, k - 1)
    BY <1>3, Zenon
  <2> DEFINE g == [i \in 1..k |-> IF i = k THEN Longer(f, k) ELSE f[i]]
  <2>2. \A i \in 1..k : g[i] = IF i = 1 THEN ss[i] ELSE Longer(g, i)
    <3> SUFFICES ASSUME NEW i \in 1..k PROVE g[i] = IF i = 1 THEN ss[i] ELSE Longer(g, i)
      BY Zenon
    <3>1. CASE i = k
      <4>1. i # 1 /\ k - 1 # k /\ k - 1 \in 1..k /\ k \in 1..k
        BY <1>1, <3>1
      <4>2. g[k - 1] = f[k - 1] /\ g[k] = Longer(f, k)
        BY <4>1, Zenon
      <4> HIDE DEF g
      <4> QED BY <3>1, <4>1, <4>2, Zenon
    <3>2. CASE i # k
      <4>1. i \in 1..(k - 1) /\ g[i] = f[i]
        BY <3>2
      <4>2. f[i] = IF i = 1 THEN ss[i] ELSE Longer(f, i)
        BY <4>1, <2>1, Zenon
      <4>3. i # 1 => i - 1 # k /\ i - 1 \in 1..k
        BY <4>1
      <4>4. i # 1 => g[i - 1] = f[i - 1]
        BY <4>3
      <4> HIDE DEF g
      <4> QED BY <4>1, <4>2, <4>4
    <3> QED BY <3>1, <3>2
  <2>3. IsUpTo(g, k)
    BY <2>2, Zenon
  <2>4. \E h : IsUpTo(h, k)
    <3> HIDE DEF g, IsUpTo
    <3> QED BY <2>3
  <2> HIDE DEF IsUpTo
  <2> QED BY <1>1, <2>4
<1>4. n \in Good
  <2> HIDE DEF Good
  <2> QED BY <1>1, <1>2, <1>3, AlongPositions
<1> DEFINE h == CHOOSE f : IsUpTo(f, n)
<1>5. IsUpTo(h, n)
  BY <1>4, Zenon
<1>6. FlattenSeq(ss) = h[n]
  BY <1>1 DEF FlattenSeq
<1> HIDE DEF h
<1> QED BY <1>5, <1>6, Zenon

\* A sequence of sequences, one after the other.
LEMMA Flattened ==
    ASSUME NEW ss, IsSeq(ss), \A i \in DOMAIN ss : IsSeq(ss[i])
    PROVE  /\ IsSeq(FlattenSeq(ss))
           /\ \A x \in Range(FlattenSeq(ss)) : \E i \in DOMAIN ss : x \in Range(ss[i])
<1>1. CASE ss = <<>>
  <2>1. FlattenSeq(ss) = <<>>
    BY <1>1 DEF FlattenSeq
  <2> QED BY <2>1, NoElements
<1>2. CASE ss # <<>>
  <2> DEFINE n == Len(ss)
             First(k) == UNION {Range(ss[i]) : i \in 1..k}
  <2>1. n \in Nat \ {0} /\ DOMAIN ss = 1..n
    <3>1. ss \in Seq(Range(ss))
      BY DEF IsSeq
    <3> QED BY <1>2, <3>1
  <2>2. PICK f : /\ f = [i \in 1..n |-> IF i = 1 THEN ss[i] ELSE f[i - 1] \o ss[i]]
                 /\ FlattenSeq(ss) = f[n]
    BY <1>2, FlattenFunction, Zenon DEF IsSeq
  <2> DEFINE Good == {k \in 1..n : IsSeq(f[k]) /\ Range(f[k]) \subseteq First(k)}
  <2>3. 1 \in Good
    <3>1. f[1] = ss[1] /\ 1 \in 1..n
      BY <2>1, <2>2
    <3> QED BY <2>1, <3>1
  <2>4. ASSUME NEW k \in 2..n, k - 1 \in Good PROVE k \in Good
    <3>1. f[k] = f[k - 1] \o ss[k] /\ k \in 1..n
      <4>1. k \in 1..n /\ k # 1
        BY <2>1
      <4> HIDE DEF n, Good, First
      <4> QED BY <2>2, <4>1, Zenon
    <3>2. IsSeq(f[k - 1]) /\ Range(f[k - 1]) \subseteq First(k - 1) /\ IsSeq(ss[k])
      BY <2>1, <2>4, <3>1
    <3>3. First(k - 1) \subseteq First(k) /\ Range(ss[k]) \subseteq First(k)
      BY <2>1
    <3> HIDE DEF First
    <3>4. IsSeq(f[k]) /\ Range(f[k]) \subseteq First(k)
      BY <3>1, <3>2, <3>3, Joined
    <3> QED BY <3>1, <3>4, Zenon
  <2>5. n \in Good
    <3> HIDE DEF Good, n
    <3> QED BY <2>1, <2>3, <2>4, AlongPositions
  <2>6. IsSeq(f[n]) /\ Range(f[n]) \subseteq First(n)
    BY <2>5
  <2>7. \A x \in First(n) : \E i \in 1..n : x \in Range(ss[i])
    OBVIOUS
  <2> HIDE DEF First, n
  <2> QED BY <2>1, <2>2, <2>6, <2>7, Zenon
<1> QED BY <1>1, <1>2

-----------------------------------------------------------------------------
(* One message, for any adapter *)

IsAdapter(ad) ==
    DOMAIN ad = {"tools", "changes", "streams", "blocks", "replies", "envelopes", "mainText"}

Tame(e) == "block" \notin DOMAIN e.data /\ "stream" \notin DOMAIN e.data

SameNames(ad, new) ==
    /\ IsAdapter(new)
    /\ new.streams = ad.streams /\ new.blocks = ad.blocks
    /\ new.replies = ad.replies /\ new.envelopes = ad.envelopes

\* NamesItsBlock in a turn t.
NamesIn(t, e) ==
    "block" \in DOMAIN e.data /\ e.data.block[1][1] \in Agents =>
        LET k == e.data.block IN
        /\ k[1][1] = e.parent
        /\ IF "stream" \in DOMAIN e.data
           THEN Range(e.data.text) \subseteq Range(t[k[1][1]][k[1][2]][k[2] + 1].text)
           ELSE e.data.text = t[k[1][1]][k[1][2]][k[2] + 1].text

\* The changes of files have no block.
LEMMA ChangesKeepNames ==
    ASSUME NEW done, IsAdapter(done.ad), IsSeq(done.events)
    PROVE  /\ SameNames(done.ad, WithChanges(done).ad) /\ IsSeq(WithChanges(done).events)
           /\ \A e \in Range(WithChanges(done).events) : e \in Range(done.events) \/ Tame(e)
<1> DEFINE now  == WithChanges(done)
           news == [event |-> "files.changed", parent |-> Main,
                     data |-> [files |-> Snapshot(Gathered(done))]]
<1>1. CASE Gathered(done) = done.ad.changes
  <2>1. now = done
    BY <1>1 DEF WithChanges
  <2> QED BY <2>1 DEF SameNames
<1>2. CASE Gathered(done) # done.ad.changes
  <2>1. now = [ad |-> [done.ad EXCEPT !.changes = Gathered(done)], events |-> Append(done.events, news)]
    BY <1>2 DEF WithChanges
  <2>2. Tame(news)
    BY DEF Tame
  <2> HIDE DEF news
  <2>3. SameNames(done.ad, now.ad)
    BY <2>1 DEF SameNames, IsAdapter
  <2>4. IsSeq(now.events) /\ Range(now.events) = Range(done.events) \cup {news}
    BY <2>1, OneMore
  <2> QED BY <2>2, <2>3, <2>4
<1> QED BY <1>1, <1>2

\* What a user or a task says has no block.
LEMMA UserKeepsNames ==
    ASSUME NEW ad, NEW m, IsAdapter(ad), m.type = "user", IsSeq(m.content)
    PROVE  /\ SameNames(ad, Adapt(ad, m).ad) /\ IsSeq(Adapt(ad, m).events)
           /\ \A e \in Range(Adapt(ad, m).events) : Tame(e)
<1> DEFINE done == AdaptUser(ad, m)
           es   == done.events
           One(b) == IF b.kind = "result" THEN ToolResult(ad, m, b)
                     ELSE Event(UserText(m), m, [text |-> b.text, note |-> m.note])
<1>1. Adapt(ad, m) = WithChanges(done)
  BY DEF Adapt
<1>2. done.ad = ad /\ es = [i \in DOMAIN m.content |-> One(m.content[i])]
  BY DEF AdaptUser
<1>3. \A b : Tame(One(b))
  BY DEF Tame, ToolResult, Event
<1> HIDE DEF One, done
<1>4. DOMAIN m.content = 1..Len(m.content) /\ Len(m.content) \in Nat
  BY Elements
<1>5. IsSeq(es)
  <2> DEFINE X == {One(m.content[i]) : i \in DOMAIN m.content}
  <2>1. es \in [1..Len(m.content) -> X]
    BY <1>2, <1>4
  <2> HIDE DEF X
  <2>2. es \in Seq(X)
    BY <1>4, <2>1, SeqDef
  <2> QED BY <2>2, SequenceOf
<1>6. \A e \in Range(es) : Tame(e)
  BY <1>2, <1>3 DEF Range
<1> QED BY <1>1, <1>2, <1>5, <1>6, ChangesKeepNames

\* What is told of a task has no block either.
LEMMA TaskKeepsNames ==
    ASSUME NEW ad, NEW m, IsAdapter(ad), m.type = "task"
    PROVE  /\ SameNames(ad, Adapt(ad, m).ad) /\ IsSeq(Adapt(ad, m).events)
           /\ \A e \in Range(Adapt(ad, m).events) : Tame(e)
<1> DEFINE e == Event(m.event, m, [task |-> m.task, tool |-> m.tool, usage |-> m.usage])
<1>1. Adapt(ad, m) = [ad |-> ad, events |-> <<e>>]
  BY DEF Adapt
<1>2. Tame(e)
  BY DEF Tame, Event
<1> HIDE DEF e
<1> QED BY <1>1, <1>2, OneElement DEF SameNames

\* What an envelope leaves: its message continues after it, and the event of
\* every block has its place.
EnvelopeKnown(ad, m) ==
    Get(ad.envelopes, <<m.parent, m.message>>, [next |-> 0, offsets |-> <<>>, texts |-> <<>>])

ShownAt(m, offset, e) ==
    \/ Tame(e)
    \/ \E i \in DOMAIN m.content :
         /\ e.parent = m.parent /\ "stream" \notin DOMAIN e.data
         /\ e.data.block = <<m.message, offset + i - 1>>
         /\ e.data.text = m.content[i].text

EnvelopeArrived(ad, m) ==
    LET new    == Adapt(ad, m).ad
        known  == EnvelopeKnown(ad, m)
        offset == Offset(known, m)
    IN  /\ IsAdapter(new) /\ new.streams = ad.streams
        /\ new.blocks = ad.blocks /\ new.replies = ad.replies
        /\ \E texts : new.envelopes = Put(ad.envelopes, <<m.parent, m.message>>,
              [next    |-> IF m.uuid \in DOMAIN known.offsets THEN known.next
                           ELSE known.next + Len(m.content),
               offsets |-> Put(known.offsets, m.uuid, offset),
               texts   |-> texts])
        /\ IsSeq(Adapt(ad, m).events)
        /\ \A e \in Range(Adapt(ad, m).events) : ShownAt(m, offset, e)

LEMMA EnvelopeArrives ==
    ASSUME NEW ad, NEW m, IsAdapter(ad), m.type = "assistant", IsSeq(m.content),
           \A i \in DOMAIN m.content : m.content[i].kind \in {"text", "thinking", "tool"}
    PROVE  EnvelopeArrived(ad, m)
<1> DEFINE known == EnvelopeKnown(ad, m)
           offset == Offset(known, m)
           done == AdaptAssistant(ad, m)
           place(i) == offset + i - 1
           texts == Over([k \in {place(i) : i \in ShownTexts(m)} |-> m.content[k - offset + 1].text], known.texts)
           pieces == [i \in DOMAIN m.content |-> BlockEvents(m, place(i), m.content[i])]
           last  == Event("assistant.message.completed", m,
                          [message |-> m.message, usage |-> m.usage, stop |-> m.stop])
           Good(e) == \E i \in DOMAIN m.content :
                         /\ e.parent = m.parent /\ "stream" \notin DOMAIN e.data
                         /\ e.data.block = <<m.message, offset + i - 1>>
                         /\ e.data.text = m.content[i].text
<1>1. Adapt(ad, m) = WithChanges(done)
  BY DEF Adapt
<1>2. /\ done.ad = [ad EXCEPT
                !.envelopes = Put(@, <<m.parent, m.message>>,
                     [next    |-> IF m.uuid \in DOMAIN known.offsets THEN known.next
                                  ELSE known.next + Len(m.content),
                      offsets |-> Put(known.offsets, m.uuid, offset),
                      texts   |-> texts]),
                !.tools = Over(Calls(m), @),
                !.mainText = IF ShownTexts(m) = {} THEN @ ELSE InBlockOrder(texts)]
      /\ done.events = FlattenSeq(pieces) \o <<last>>
  BY DEF AdaptAssistant, EnvelopeKnown
<1> HIDE DEF done, texts, known, offset
<1>3. /\ IsAdapter(done.ad) /\ done.ad.streams = ad.streams
      /\ done.ad.blocks = ad.blocks /\ done.ad.replies = ad.replies
      /\ done.ad.envelopes = Put(ad.envelopes, <<m.parent, m.message>>,
                     [next    |-> IF m.uuid \in DOMAIN known.offsets THEN known.next
                                  ELSE known.next + Len(m.content),
                      offsets |-> Put(known.offsets, m.uuid, offset),
                      texts   |-> texts])
  BY <1>2 DEF IsAdapter
<1>4. ASSUME NEW i \in DOMAIN m.content
      PROVE  IsSeq(pieces[i]) /\ \A e \in Range(pieces[i]) : Tame(e) \/ Good(e)
  <2> DEFINE b == m.content[i]
             es == BlockEvents(m, place(i), b)
             said == [block |-> <<m.message, offset + i - 1>>, text |-> b.text]
  <2>1. pieces[i] = es /\ b.kind \in {"text", "thinking", "tool"}
    OBVIOUS
  <2>2. \A name : Good(Event(name, m, said))
    BY DEF Event
  <2>3. \A name : Tame(Event(name, m, [tool |-> b.tool]))
    BY Zenon DEF Event, Tame
  <2>4. \/ es = <<>>
        \/ \E name : es = <<Event(name, m, said)>>
        \/ \E name : es = <<Event(name, m, [tool |-> b.tool])>>
    BY <2>1 DEF BlockEvents
  <2> HIDE DEF es, Good, said, b, pieces
  <2> QED BY <2>1, <2>2, <2>3, <2>4, NoElements, OneElement
<1>5. IsSeq(pieces) /\ DOMAIN pieces = DOMAIN m.content
  <2> DEFINE X == {BlockEvents(m, place(i), m.content[i]) : i \in DOMAIN m.content}
  <2>1. Len(m.content) \in Nat /\ DOMAIN m.content = 1..Len(m.content)
    BY Elements
  <2>2. pieces \in [1..Len(m.content) -> X]
    BY <2>1
  <2> HIDE DEF X, pieces
  <2>3. pieces \in Seq(X)
    BY <2>1, <2>2, SeqDef
  <2> QED BY <2>1, <2>2, <2>3, SequenceOf
<1>6. Tame(last)
  BY DEF Tame, Event
<1> HIDE DEF last, pieces, Good
<1>7. IsSeq(FlattenSeq(pieces)) /\ \A e \in Range(FlattenSeq(pieces)) : Tame(e) \/ Good(e)
  BY <1>4, <1>5, Flattened
<1>8. IsSeq(done.events) /\ \A e \in Range(done.events) : Tame(e) \/ Good(e)
  <2>1. IsSeq(<<last>>) /\ Range(<<last>>) = {last}
    BY OneElement
  <2>2. /\ IsSeq(FlattenSeq(pieces) \o <<last>>)
        /\ Range(FlattenSeq(pieces) \o <<last>>) = Range(FlattenSeq(pieces)) \cup {last}
    BY <1>7, <2>1, Joined
  <2> QED BY <1>2, <1>6, <1>7, <2>2
<1>9. /\ SameNames(done.ad, Adapt(ad, m).ad) /\ IsSeq(Adapt(ad, m).events)
      /\ \A e \in Range(Adapt(ad, m).events) : Tame(e) \/ Good(e)
  BY <1>1, <1>3, <1>8, ChangesKeepNames
<1> QED BY <1>3, <1>9, Zenon DEF SameNames, Good, ShownAt, known, offset, EnvelopeArrived

-----------------------------------------------------------------------------
(* One frame, for any adapter.  p is how far the agents are, fs the names of  *)
(* the frames so far and t what is said in the turn.                          *)

\* Every stream is of the message its agent is at, or has a name of its own.
StreamsOK(ad, p, fs) ==
    \A a \in DOMAIN ad.streams :
        /\ a \in Agents /\ ad.streams[a].stream \in fs
        /\ ad.streams[a].message \in {ad.streams[a].stream, <<a, p[a].n>>}
        /\ \A b \in DOMAIN ad.streams : ad.streams[b].stream = ad.streams[a].stream => a = b

\* Only a running stream has blocks.
BlocksOK(ad) ==
    \A k \in DOMAIN ad.blocks : \E a \in DOMAIN ad.streams : ad.streams[a].stream = k[1]

\* What is held back of a reply is of its block.
Held(ad, p, t, k) ==
    \A a \in DOMAIN ad.streams :
        ad.streams[a].stream = k[1] /\ ad.streams[a].message = <<a, p[a].n>> =>
            Range(ad.replies[k].pending) \subseteq Range(t[a][p[a].n][k[2] + 1].text)
RepliesOK(ad, p, fs, t) ==
    \A k \in DOMAIN ad.replies :
        /\ k[1] \in fs /\ DOMAIN ad.replies[k] = {"start", "pending", "visible"}
        /\ IsSeq(ad.replies[k].pending) /\ Held(ad, p, t, k)

Streaming(ad, p, fs, t) ==
    IsAdapter(ad) /\ StreamsOK(ad, p, fs) /\ BlocksOK(ad) /\ RepliesOK(ad, p, fs, t)

\* Every frame has a name of its own; what m.parent is at changes only with a
\* new message.
IsFrame(m, p, q, fs) ==
    /\ m.parent \in Agents /\ m.uuid \notin fs /\ m.uuid[1] = "frame"
    /\ m.message = <<m.parent, q[m.parent].n>>
    /\ \A b \in Agents \ {m.parent} : q[b].n = p[b].n
    /\ m.raw # "message_start" => q[m.parent].n = p[m.parent].n

\* Who keeps the streams and moves no agent that is streamed keeps the names.
LEMMA StreamsGoOn ==
    ASSUME NEW ad, NEW new, NEW p, NEW q, NEW fs, NEW t, Streaming(ad, p, fs, t), IsAdapter(new),
           new.streams = ad.streams, new.blocks = ad.blocks, new.replies = ad.replies,
           \A b \in DOMAIN ad.streams : q[b].n = p[b].n
    PROVE  Streaming(new, q, fs, t)
<1>1. StreamsOK(new, q, fs) /\ BlocksOK(new)
  BY DEF Streaming, StreamsOK, BlocksOK
<1>2. \A k : Held(ad, p, t, k) => Held(new, q, t, k)
  BY DEF Held
<1>3. RepliesOK(new, q, fs, t)
  BY <1>2 DEF Streaming, RepliesOK
<1> QED BY <1>1, <1>3 DEF Streaming

\* The stream that a frame belongs to.
LEMMA StreamIsKnown ==
    ASSUME NEW ad, NEW m, NEW p, NEW q, NEW fs, NEW t, NEW gs, gs = fs \cup {m.uuid},
           Streaming(ad, p, fs, t), IsFrame(m, p, q, fs)
    PROVE  LET now == WithStream(ad, m)
           IN  /\ Streaming(now, q, gs, t) /\ now.envelopes = ad.envelopes
               /\ m.parent \in DOMAIN now.streams
               /\ DOMAIN now.streams = DOMAIN ad.streams \cup {m.parent}
<1> DEFINE now == WithStream(ad, m)
           a   == m.parent
           new == [stream |-> m.uuid, message |-> IF m.raw = "message_start" THEN m.message ELSE m.uuid]
<1>1. CASE m.raw # "message_start" /\ a \in DOMAIN ad.streams
  <2>1. now = ad
    BY <1>1 DEF WithStream
  <2>2. \A b \in Agents : q[b].n = p[b].n
    BY <1>1 DEF IsFrame
  <2>3. StreamsOK(ad, q, gs)
    BY <2>2 DEF Streaming, StreamsOK
  <2>4. RepliesOK(ad, q, gs, t)
    <3>1. \A b \in DOMAIN ad.streams : b \in Agents
      BY DEF Streaming, StreamsOK
    <3> QED BY <2>2, <3>1, Zenon DEF Streaming, RepliesOK, Held
  <2> QED BY <1>1, <2>1, <2>3, <2>4 DEF Streaming
<1>2. CASE m.raw = "message_start" \/ a \notin DOMAIN ad.streams
  <2> DEFINE ends == m.raw = "message_start" /\ a \in DOMAIN ad.streams
             gone == ad.streams[a].stream
             old  == IF ends THEN Without(ad, gone) ELSE ad
  <2>1. now = [old EXCEPT !.streams = Put(@, a, new)]
    BY <1>2 DEF WithStream
  <2>2. /\ IsAdapter(old) /\ old.streams = ad.streams /\ old.envelopes = ad.envelopes
        /\ \A k \in DOMAIN old.blocks : k \in DOMAIN ad.blocks /\ (ends => k[1] # gone)
        /\ \A k \in DOMAIN old.replies :
             k \in DOMAIN ad.replies /\ old.replies[k] = ad.replies[k] /\ (ends => k[1] # gone)
    <3>1. CASE ends
      <4> DEFINE X == {k \in DOMAIN ad.blocks : k[1] # gone}
                 Y == {k \in DOMAIN ad.replies : k[1] # gone}
      <4>1. old = [ad EXCEPT !.blocks = Restrict(ad.blocks, X), !.replies = Restrict(ad.replies, Y)]
        BY <3>1 DEF Without, Streaming, IsAdapter
      <4>2. /\ IsAdapter(old) /\ old.streams = ad.streams /\ old.envelopes = ad.envelopes
            /\ old.blocks = Restrict(ad.blocks, X) /\ old.replies = Restrict(ad.replies, Y)
        <5> HIDE DEF X, Y, old
        <5> QED BY <4>1 DEF Streaming, IsAdapter
      <4> HIDE DEF old
      <4> QED BY <4>2 DEF Restrict
    <3>2. CASE ~ ends
      BY <3>2 DEF Streaming
    <3> QED BY <3>1, <3>2
  <2> HIDE DEF old, new
  <2>3. /\ IsAdapter(now) /\ now.envelopes = ad.envelopes /\ now.blocks = old.blocks
        /\ now.replies = old.replies /\ now.streams = Put(ad.streams, a, new)
    BY <2>1, <2>2 DEF IsAdapter
  <2>4. /\ DOMAIN now.streams = DOMAIN ad.streams \cup {a} /\ now.streams[a] = new
        /\ \A b \in DOMAIN ad.streams \ {a} : now.streams[b] = ad.streams[b]
    BY <2>3 DEF Put
  <2>5. /\ new.stream = m.uuid /\ m.uuid \notin fs /\ a \in Agents
        /\ new.message \in {m.uuid, <<a, q[a].n>>}
    BY DEF new, IsFrame
  <2>6. \A b \in DOMAIN ad.streams :
          /\ b \in Agents /\ ad.streams[b].stream \in fs
          /\ ad.streams[b].message \in {ad.streams[b].stream, <<b, p[b].n>>}
          /\ \A c \in DOMAIN ad.streams : ad.streams[c].stream = ad.streams[b].stream => b = c
    BY DEF Streaming, StreamsOK
  <2>7. \A b \in Agents \ {a} : q[b].n = p[b].n
    BY DEF IsFrame
  <2> HIDE DEF now
  <2>8. StreamsOK(now, q, gs)
    <3> SUFFICES ASSUME NEW b \in DOMAIN now.streams
                 PROVE  /\ b \in Agents /\ now.streams[b].stream \in gs
                        /\ now.streams[b].message \in {now.streams[b].stream, <<b, q[b].n>>}
                        /\ \A c \in DOMAIN now.streams :
                             now.streams[c].stream = now.streams[b].stream => b = c
      BY DEF StreamsOK
    <3>1. CASE b = a
      BY <2>4, <2>5, <2>6, <3>1
    <3>2. CASE b # a
      BY <2>4, <2>5, <2>6, <2>7, <3>2
    <3> QED BY <3>1, <3>2
  <2>9. BlocksOK(now)
    <3> SUFFICES ASSUME NEW k \in DOMAIN now.blocks
                 PROVE  \E b \in DOMAIN now.streams : now.streams[b].stream = k[1]
      BY DEF BlocksOK
    <3>1. k \in DOMAIN ad.blocks /\ (ends => k[1] # gone)
      BY <2>2, <2>3
    <3>2. PICK b \in DOMAIN ad.streams : ad.streams[b].stream = k[1]
      BY <3>1 DEF Streaming, BlocksOK
    <3>3. b # a
      BY <1>2, <3>1, <3>2
    <3> QED BY <2>4, <3>2, <3>3
  <2>10. RepliesOK(now, q, gs, t)
    <3> SUFFICES ASSUME NEW k \in DOMAIN now.replies
                 PROVE  /\ k[1] \in gs /\ DOMAIN now.replies[k] = {"start", "pending", "visible"}
                        /\ IsSeq(now.replies[k].pending) /\ Held(now, q, t, k)
      BY DEF RepliesOK
    <3>1. k \in DOMAIN ad.replies /\ now.replies[k] = ad.replies[k]
      BY <2>2, <2>3
    <3>2. /\ k[1] \in fs /\ DOMAIN ad.replies[k] = {"start", "pending", "visible"}
          /\ IsSeq(ad.replies[k].pending) /\ Held(ad, p, t, k)
      BY <3>1 DEF Streaming, RepliesOK
    <3>3. Held(now, q, t, k)
      <4> SUFFICES ASSUME NEW b \in DOMAIN now.streams, now.streams[b].stream = k[1],
                          now.streams[b].message = <<b, q[b].n>>
                   PROVE  Range(now.replies[k].pending) \subseteq Range(t[b][q[b].n][k[2] + 1].text)
        BY DEF Held
      <4>1. b # a /\ b \in DOMAIN ad.streams
        BY <2>4, <2>5, <3>2
      <4>2. b \in Agents /\ q[b].n = p[b].n /\ now.streams[b] = ad.streams[b]
        BY <2>4, <2>6, <2>7, <4>1
      <4> QED BY <3>1, <3>2, <4>1, <4>2 DEF Held
    <3> QED BY <3>1, <3>2, <3>3
  <2> QED BY <2>3, <2>4, <2>8, <2>9, <2>10 DEF Streaming, now
<1> QED BY <1>1, <1>2

\* The frames are the only names that are no agent's.
AreFrames(fs) == \A f \in fs : f[1] = "frame"

\* An event of a stream has the name of its block, or one of its own.
LEMMA StreamNamesBlock ==
    ASSUME NEW ad, NEW m, NEW q, NEW gs, NEW t, NEW name, NEW text,
           AreFrames(gs), StreamsOK(ad, q, gs), m.parent \in DOMAIN ad.streams,
           ad.streams[m.parent].message = <<m.parent, q[m.parent].n>> =>
               Range(text) \subseteq Range(t[m.parent][q[m.parent].n][m.index + 1].text)
    PROVE  NamesIn(t, Event(name, m, StreamData(ad.streams[m.parent], m, text)))
<1> DEFINE a == m.parent
           s == ad.streams[a]
           e == Event(name, m, StreamData(s, m, text))
<1> SUFFICES NamesIn(t, e)
  OBVIOUS
<1>1. /\ e.parent = a /\ "stream" \in DOMAIN e.data /\ e.data.text = text
      /\ e.data.block = <<s.message, m.index>>
  BY DEF Event, StreamData
<1>2. /\ s.stream \in gs /\ s.stream[1] = "frame" /\ s.message \in {s.stream, <<a, q[a].n>>}
  BY Zenon DEF StreamsOK, AreFrames
<1> HIDE DEF e
<1>3. CASE s.message = s.stream
  <2>1. e.data.block[1][1] \notin Agents
    BY <1>1, <1>2, <1>3, ScriptsAssumption
  <2> QED BY <2>1, Zenon DEF NamesIn
<1>4. CASE s.message = <<a, q[a].n>>
  <2>1. e.data.block[1] = <<a, q[a].n>> /\ e.data.block[2] = m.index
    BY <1>1, <1>4
  <2>2. e.data.block[1][1] = a /\ e.data.block[1][2] = q[a].n
    BY <2>1
  <2>3. Range(e.data.text) \subseteq Range(t[a][q[a].n][m.index + 1].text)
    BY <1>1, <1>4
  <2> HIDE DEF a
  <2> QED BY <1>1, <2>1, <2>2, <2>3, Zenon DEF NamesIn
<1> QED BY <1>2, <1>3, <1>4

\* What shows no text names any block rightly.
LEMMA NothingNamesBlock ==
    ASSUME NEW ad, NEW m, NEW q, NEW gs, NEW t, NEW name,
           AreFrames(gs), StreamsOK(ad, q, gs), m.parent \in DOMAIN ad.streams
    PROVE  NamesIn(t, Event(name, m, StreamData(ad.streams[m.parent], m, <<>>)))
  BY StreamNamesBlock, NoElements, Zenon

\* A block that is opened, or a reply that is shown or held back, belongs to
\* the stream of the frame.
LEMMA BlockIsOpened ==
    ASSUME NEW ad, NEW q, NEW gs, NEW t, Streaming(ad, q, gs, t),
           NEW a \in DOMAIN ad.streams, NEW i, NEW kind
    PROVE  LET new == [ad EXCEPT !.blocks = Put(@, <<ad.streams[a].stream, i>>, kind)]
           IN  /\ Streaming(new, q, gs, t) /\ new.envelopes = ad.envelopes
               /\ new.streams = ad.streams /\ new.replies = ad.replies
<1> DEFINE key == <<ad.streams[a].stream, i>>
           new == [ad EXCEPT !.blocks = Put(@, key, kind)]
<1>1. /\ IsAdapter(new) /\ new.envelopes = ad.envelopes /\ new.streams = ad.streams
      /\ new.replies = ad.replies /\ new.blocks = Put(ad.blocks, key, kind)
  BY DEF Streaming, IsAdapter
<1> HIDE DEF new
<1>2. DOMAIN new.blocks = DOMAIN ad.blocks \cup {key} /\ key[1] = ad.streams[a].stream
  BY <1>1 DEF Put
<1> HIDE DEF key
<1>3. BlocksOK(new)
  BY <1>1, <1>2 DEF Streaming, BlocksOK
<1>4. StreamsOK(new, q, gs)
  BY <1>1 DEF Streaming, StreamsOK
<1>5. RepliesOK(new, q, gs, t)
  BY <1>1, Zenon DEF Streaming, RepliesOK, Held
<1> QED BY <1>1, <1>3, <1>4, <1>5 DEF Streaming, key, new

\* A reply that is kept, with what is held back of it, belongs to its stream.
LEMMA ReplyIsKept ==
    ASSUME NEW ad, NEW q, NEW gs, NEW t, Streaming(ad, q, gs, t),
           NEW a \in DOMAIN ad.streams, NEW i, NEW r,
           DOMAIN r = {"start", "pending", "visible"}, IsSeq(r.pending),
           ad.streams[a].message = <<a, q[a].n>> =>
               Range(r.pending) \subseteq Range(t[a][q[a].n][i + 1].text)
    PROVE  LET new == [ad EXCEPT !.replies = Put(@, <<ad.streams[a].stream, i>>, r)]
           IN  /\ Streaming(new, q, gs, t) /\ new.envelopes = ad.envelopes
               /\ new.streams = ad.streams
<1> DEFINE key == <<ad.streams[a].stream, i>>
           new == [ad EXCEPT !.replies = Put(@, key, r)]
<1>1. /\ IsAdapter(new) /\ new.envelopes = ad.envelopes /\ new.streams = ad.streams
      /\ new.blocks = ad.blocks /\ new.replies = Put(ad.replies, key, r)
  BY DEF Streaming, IsAdapter
<1> HIDE DEF new
<1>2. /\ DOMAIN new.replies = DOMAIN ad.replies \cup {key} /\ new.replies[key] = r
      /\ \A k \in DOMAIN ad.replies \ {key} : new.replies[k] = ad.replies[k]
  BY <1>1 DEF Put
<1>3. key[1] = ad.streams[a].stream /\ key[2] = i
  OBVIOUS
<1> HIDE DEF key
<1>4. BlocksOK(new)
  BY <1>1 DEF Streaming, BlocksOK
<1>5. StreamsOK(new, q, gs)
  BY <1>1 DEF Streaming, StreamsOK
<1>6. RepliesOK(new, q, gs, t)
  <2> SUFFICES ASSUME NEW k \in DOMAIN new.replies
               PROVE  /\ k[1] \in gs /\ DOMAIN new.replies[k] = {"start", "pending", "visible"}
                      /\ IsSeq(new.replies[k].pending) /\ Held(new, q, t, k)
    BY DEF RepliesOK
  <2>1. CASE k = key
    <3>1. k[1] \in gs
      BY <1>3, <2>1 DEF Streaming, StreamsOK
    <3>2. Held(new, q, t, k)
      <4> SUFFICES ASSUME NEW b \in DOMAIN ad.streams, ad.streams[b].stream = key[1],
                          ad.streams[b].message = <<b, q[b].n>>
                   PROVE  Range(r.pending) \subseteq Range(t[b][q[b].n][i + 1].text)
        BY <1>1, <1>2, <1>3, <2>1 DEF Held
      <4>1. b = a
        BY <1>3 DEF Streaming, StreamsOK
      <4> QED BY <4>1
    <3> QED BY <1>2, <2>1, <3>1, <3>2
  <2>2. CASE k # key
    <3>1. k \in DOMAIN ad.replies /\ new.replies[k] = ad.replies[k]
      BY <1>2, <2>2
    <3> QED BY <1>1, <3>1, Zenon DEF Streaming, RepliesOK, Held
  <2> QED BY <2>1, <2>2
<1> QED BY <1>1, <1>4, <1>5, <1>6 DEF Streaming, key, new

\* Replies that are over leave nothing.
LEMMA ReplyIsOver ==
    ASSUME NEW ad, NEW q, NEW gs, NEW t, Streaming(ad, q, gs, t), NEW key
    PROVE  LET new == [ad EXCEPT !.replies = Restrict(@, DOMAIN @ \ {key})]
           IN  /\ Streaming(new, q, gs, t) /\ new.envelopes = ad.envelopes
               /\ new.streams = ad.streams
<1> DEFINE new == [ad EXCEPT !.replies = Restrict(@, DOMAIN @ \ {key})]
<1>1. /\ IsAdapter(new) /\ new.envelopes = ad.envelopes /\ new.streams = ad.streams
      /\ new.blocks = ad.blocks /\ new.replies = Restrict(ad.replies, DOMAIN ad.replies \ {key})
  BY DEF Streaming, IsAdapter
<1> HIDE DEF new
<1>2. \A k \in DOMAIN new.replies : k \in DOMAIN ad.replies /\ new.replies[k] = ad.replies[k]
  BY <1>1 DEF Restrict
<1>3. BlocksOK(new) /\ StreamsOK(new, q, gs)
  BY <1>1 DEF Streaming, BlocksOK, StreamsOK
<1>4. RepliesOK(new, q, gs, t)
  BY <1>1, <1>2, Zenon DEF Streaming, RepliesOK, Held
<1> QED BY <1>1, <1>3, <1>4 DEF Streaming, new

\* A message that is over leaves no stream and no blocks.
LEMMA StreamIsOver ==
    ASSUME NEW ad, NEW m, NEW q, NEW gs, NEW t, Streaming(ad, q, gs, t), m.parent \in DOMAIN ad.streams
    PROVE  LET new == FinishStream(ad, m)
           IN  /\ Streaming(new, q, gs, t) /\ new.envelopes = ad.envelopes
               /\ DOMAIN new.streams = DOMAIN ad.streams \ {m.parent}
<1> DEFINE new == FinishStream(ad, m)
           a   == m.parent
           gone == ad.streams[a].stream
           X == {k \in DOMAIN ad.blocks : k[1] # gone}
           Y == {k \in DOMAIN ad.replies : k[1] # gone}
           Z == DOMAIN ad.streams \ {a}
           mid == [ad EXCEPT !.streams = Restrict(@, Z)]
<1>1. /\ IsAdapter(mid) /\ mid.envelopes = ad.envelopes /\ mid.streams = Restrict(ad.streams, Z)
      /\ mid.blocks = ad.blocks /\ mid.replies = ad.replies
  <2> HIDE DEF Z
  <2> QED BY DEF Streaming, IsAdapter
<1>2. new = Without(mid, gone)
  BY DEF FinishStream, Streaming, IsAdapter
<1> HIDE DEF mid, new
<1>3. new = [mid EXCEPT !.blocks = Restrict(ad.blocks, X), !.replies = Restrict(ad.replies, Y)]
  BY <1>1, <1>2 DEF Without, IsAdapter
<1>4. /\ IsAdapter(new) /\ new.envelopes = ad.envelopes /\ new.streams = Restrict(ad.streams, Z)
      /\ new.blocks = Restrict(ad.blocks, X) /\ new.replies = Restrict(ad.replies, Y)
  <2> HIDE DEF X, Y, Z
  <2> QED BY <1>1, <1>3 DEF IsAdapter
<1>5. /\ DOMAIN new.streams = Z /\ \A b \in Z : new.streams[b] = ad.streams[b]
      /\ DOMAIN new.blocks = X /\ DOMAIN new.replies = Y
      /\ \A k \in Y : new.replies[k] = ad.replies[k]
  <2> HIDE DEF X, Y, Z
  <2> QED BY <1>4 DEF Restrict
<1>6. StreamsOK(new, q, gs)
  BY <1>5 DEF Streaming, StreamsOK
<1>7. BlocksOK(new)
  BY <1>5 DEF Streaming, BlocksOK
<1>8. RepliesOK(new, q, gs, t)
  <2> SUFFICES ASSUME NEW k \in Y
               PROVE  /\ k[1] \in gs /\ DOMAIN new.replies[k] = {"start", "pending", "visible"}
                      /\ IsSeq(new.replies[k].pending) /\ Held(new, q, t, k)
    BY <1>5 DEF RepliesOK
  <2>1. k \in DOMAIN ad.replies /\ new.replies[k] = ad.replies[k]
    BY <1>5
  <2> QED BY <1>5, <2>1, Zenon DEF Streaming, RepliesOK, Held
<1> QED BY <1>4, <1>5, <1>6, <1>7, <1>8 DEF Streaming, new

\* A frame may show these texts.
Showable(m, q, t, text) ==
    IsSeq(text) /\ Range(text) \subseteq Range(t[m.parent][q[m.parent].n][m.index + 1].text)

\* A piece of text is held back or shown under the name of its block.
LEMMA TextNamesBlock ==
    ASSUME NEW ad, NEW m, NEW q, NEW gs, NEW t, AreFrames(gs), Streaming(ad, q, gs, t),
           m.parent \in DOMAIN ad.streams, Showable(m, q, t, m.text)
    PROVE  LET r == TextDelta(ad, ad.streams[m.parent], m)
           IN  /\ Streaming(r.ad, q, gs, t) /\ r.ad.envelopes = ad.envelopes
               /\ r.ad.streams = ad.streams /\ IsSeq(r.events)
               /\ \A e \in Range(r.events) : NamesIn(t, e)
<1> DEFINE a     == m.parent
           s     == ad.streams[a]
           key   == <<s.stream, m.index>>
           reply == Get(ad.replies, key, [start |-> FALSE, pending |-> <<>>, visible |-> FALSE])
           text  == IF reply.visible THEN m.text ELSE Revealed(reply, m)
           seen  == [start |-> FALSE, pending |-> <<>>, visible |-> TRUE]
           held  == [reply EXCEPT !.pending = text]
           saved(r) == [ad EXCEPT !.replies = Put(@, key, r)]
           start == Event("assistant.reply.started", m, StreamData(s, m, <<>>))
           delta == Event("assistant.reply.delta", m, StreamData(s, m, text))
           began == IF reply.start THEN <<start>> ELSE <<>>
           r     == TextDelta(ad, s, m)
           Current == s.message = <<a, q[a].n>>
           Of(x) == Current => Range(x) \subseteq Range(t[a][q[a].n][m.index + 1].text)
<1>1. r = IF reply.visible \/ HasText(text)
          THEN [ad |-> saved(seen), events |-> began \o <<delta>>]
          ELSE [ad |-> saved(held), events |-> <<>>]
  BY DEF TextDelta
<1>2. DOMAIN reply = {"start", "pending", "visible"} /\ IsSeq(reply.pending) /\ Of(reply.pending)
  <2>1. CASE key \in DOMAIN ad.replies
    <3>1. reply = ad.replies[key]
      BY <2>1 DEF Get
    <3>2. key[1] = s.stream /\ key[2] = m.index
      OBVIOUS
    <3> HIDE DEF key, reply
    <3>3. Held(ad, q, t, key) /\ DOMAIN ad.replies[key] = {"start", "pending", "visible"}
          /\ IsSeq(ad.replies[key].pending)
      BY <2>1 DEF Streaming, RepliesOK
    <3> QED BY <3>1, <3>2, <3>3 DEF Held
  <2>2. CASE key \notin DOMAIN ad.replies
    <3>1. reply = [start |-> FALSE, pending |-> <<>>, visible |-> FALSE]
      BY <2>2 DEF Get
    <3> HIDE DEF reply
    <3> QED BY <3>1, NoElements
  <2> QED BY <2>1, <2>2
<1> HIDE DEF reply
<1>3. IsSeq(m.text) /\ Of(m.text)
  BY DEF Showable
<1>4. IsSeq(text) /\ Of(text)
  <2>1. CASE reply.visible
    BY <1>3, <2>1
  <2>2. CASE ~ reply.visible
    <3>1. text = reply.pending \o m.text
      BY <2>2, Zenon DEF Revealed
    <3>2. IsSeq(text) /\ Range(text) = Range(reply.pending) \cup Range(m.text)
      BY <1>2, <1>3, <3>1, Joined, Zenon
    <3> QED BY <1>2, <1>3, <3>2
  <2> QED BY <2>1, <2>2
<1> HIDE DEF text
<1>5. /\ DOMAIN seen = {"start", "pending", "visible"} /\ IsSeq(seen.pending) /\ Of(seen.pending)
      /\ DOMAIN held = {"start", "pending", "visible"} /\ held.pending = text
  BY <1>2, NoElements
<1>6. \A x \in {seen, held} :
        /\ Streaming(saved(x), q, gs, t) /\ saved(x).envelopes = ad.envelopes
        /\ saved(x).streams = ad.streams
  <2> SUFFICES ASSUME NEW x \in {seen, held}
               PROVE  /\ Streaming(saved(x), q, gs, t) /\ saved(x).envelopes = ad.envelopes
                      /\ saved(x).streams = ad.streams
    BY Zenon
  <2>1. DOMAIN x = {"start", "pending", "visible"} /\ IsSeq(x.pending) /\ Of(x.pending)
    BY <1>4, <1>5
  <2> HIDE DEF seen, held
  <2>2. a \in DOMAIN ad.streams /\ Streaming(ad, q, gs, t)
    OBVIOUS
  <2>3. s.message = <<a, q[a].n>> => Range(x.pending) \subseteq Range(t[a][q[a].n][m.index + 1].text)
    BY <2>1
  <2> HIDE DEF a, Current, Of
  <2> QED BY <2>1, <2>2, <2>3, ReplyIsKept
<1>7. NamesIn(t, start) /\ NamesIn(t, delta)
  BY <1>4, StreamNamesBlock, NothingNamesBlock, Zenon DEF Streaming
<1> HIDE DEF start, delta, seen, held
<1>8. /\ IsSeq(began \o <<delta>>) /\ IsSeq(<<>>)
      /\ \A e \in Range(began \o <<delta>>) : NamesIn(t, e)
      /\ \A e \in Range(<<>>) : NamesIn(t, e)
  <2>1. IsSeq(<<delta>>) /\ Range(<<delta>>) = {delta} /\ IsSeq(<<start>>) /\ Range(<<start>>) = {start}
        /\ IsSeq(<<>>) /\ Range(<<>>) = {}
    BY OneElement, NoElements
  <2>2. IsSeq(began) /\ Range(began) \subseteq {start}
    BY <2>1
  <2> HIDE DEF began
  <2>3. IsSeq(began \o <<delta>>) /\ Range(began \o <<delta>>) = Range(began) \cup {delta}
    BY <2>1, <2>2, Joined
  <2> QED BY <1>7, <2>1, <2>2, <2>3
<1> HIDE DEF saved, began
<1>9. CASE reply.visible \/ HasText(text)
  <2>1. r.ad = saved(seen) /\ r.events = began \o <<delta>>
    BY <1>1, <1>9
  <2> HIDE DEF r
  <2>2. /\ Streaming(r.ad, q, gs, t) /\ r.ad.envelopes = ad.envelopes
        /\ r.ad.streams = ad.streams /\ IsSeq(r.events)
        /\ \A e \in Range(r.events) : NamesIn(t, e)
    BY <1>6, <1>8, <2>1
  <2> QED BY <2>2 DEF r
<1>10. CASE ~ (reply.visible \/ HasText(text))
  <2>1. r.ad = saved(held) /\ r.events = <<>>
    BY <1>1, <1>10
  <2> HIDE DEF r
  <2>2. /\ Streaming(r.ad, q, gs, t) /\ r.ad.envelopes = ad.envelopes
        /\ r.ad.streams = ad.streams /\ IsSeq(r.events)
        /\ \A e \in Range(r.events) : NamesIn(t, e)
    BY <1>6, <1>8, <2>1
  <2> QED BY <2>2 DEF r
<1> QED BY <1>9, <1>10

\* What a frame within a message, whose stream is known, does.
KeepsNames(ad, m, q, gs, t, r) ==
    /\ Streaming(r.ad, q, gs, t) /\ r.ad.envelopes = ad.envelopes
    /\ r.ad.streams = ad.streams /\ IsSeq(r.events)
    /\ \A e \in Range(r.events) : NamesIn(t, e)

\* One event of a stream, or none.
LEMMA TellingIsNamed ==
    ASSUME NEW ad, NEW m, NEW q, NEW gs, NEW t, NEW name, AreFrames(gs), Streaming(ad, q, gs, t),
           m.parent \in DOMAIN ad.streams, NEW text,
           text = <<>> \/ Showable(m, q, t, text)
    PROVE  /\ KeepsNames(ad, m, q, gs, t, [ad |-> ad,
                events |-> <<Event(name, m, StreamData(ad.streams[m.parent], m, text))>>])
           /\ KeepsNames(ad, m, q, gs, t, [ad |-> ad, events |-> <<>>])
<1> DEFINE e == Event(name, m, StreamData(ad.streams[m.parent], m, text))
<1>1. NamesIn(t, e)
  BY StreamNamesBlock, NoElements, Zenon DEF Streaming, Showable
<1> HIDE DEF e
<1>2. IsSeq(<<e>>) /\ Range(<<e>>) = {e} /\ IsSeq(<<>>) /\ Range(<<>>) = {}
  BY OneElement, NoElements
<1>3. KeepsNames(ad, m, q, gs, t, [ad |-> ad, events |-> <<e>>])
  BY <1>1, <1>2 DEF KeepsNames
<1>4. KeepsNames(ad, m, q, gs, t, [ad |-> ad, events |-> <<>>])
  BY <1>2 DEF KeepsNames
<1> QED BY <1>3, <1>4, Zenon DEF e

\* _stream_block_start, _stream_block_delta and _stream_block_stop keep the names.
LEMMA StartIsNamed ==
    ASSUME NEW ad, NEW m, NEW q, NEW gs, NEW t, AreFrames(gs), Streaming(ad, q, gs, t),
           m.parent \in DOMAIN ad.streams, m.kind \in {"text", "thinking", "tool"}
    PROVE  KeepsNames(ad, m, q, gs, t, BlockStart(ad, ad.streams[m.parent], m))
<1> DEFINE s    == ad.streams[m.parent]
           key  == <<s.stream, m.index>>
           open == [ad EXCEPT !.blocks = Put(@, key, m.kind)]
           new  == [start |-> TRUE, pending |-> <<>>, visible |-> FALSE]
           saved == [open EXCEPT !.replies = Put(@, key, new)]
           e    == Event("assistant.thinking.started", m, StreamData(s, m, <<>>))
           r    == BlockStart(ad, s, m)
<1>1. \/ r = [ad |-> saved, events |-> <<>>]
      \/ r = [ad |-> open, events |-> <<e>>]
      \/ r = [ad |-> open, events |-> <<>>]
  BY DEF BlockStart
<1>2. /\ Streaming(open, q, gs, t) /\ open.envelopes = ad.envelopes /\ open.streams = ad.streams
  BY BlockIsOpened
<1> HIDE DEF open
<1>3. DOMAIN new = {"start", "pending", "visible"} /\ new.pending = <<>>
  OBVIOUS
<1> HIDE DEF new
<1>4. /\ Streaming(saved, q, gs, t) /\ saved.envelopes = ad.envelopes /\ saved.streams = ad.streams
  BY <1>2, <1>3, NoElements, ReplyIsKept
<1>5. NamesIn(t, e)
  BY NothingNamesBlock DEF Streaming
<1> HIDE DEF saved, e, r
<1>6. KeepsNames(ad, m, q, gs, t, r)
  BY <1>1, <1>2, <1>4, <1>5, NoElements, OneElement DEF KeepsNames
<1> QED BY <1>6 DEF r

LEMMA DeltaIsNamed ==
    ASSUME NEW ad, NEW m, NEW q, NEW gs, NEW t, AreFrames(gs), Streaming(ad, q, gs, t),
           m.parent \in DOMAIN ad.streams, m.kind \in {"text", "thinking", "tool"},
           Showable(m, q, t, m.text)
    PROVE  KeepsNames(ad, m, q, gs, t, BlockDelta(ad, ad.streams[m.parent], m))
<1> DEFINE s == ad.streams[m.parent]
           thought == Event("assistant.thinking.delta", m, StreamData(s, m, m.text))
           input == Event(IF m.parent = Main THEN "tool.input.delta" ELSE "subagent.tool.input.delta",
                          m, StreamData(s, m, <<>>))
<1>1. KeepsNames(ad, m, q, gs, t, TextDelta(ad, s, m))
  BY TextNamesBlock DEF KeepsNames
<1>2. KeepsNames(ad, m, q, gs, t, [ad |-> ad, events |-> <<thought>>])
  BY TellingIsNamed, Zenon
<1>3. KeepsNames(ad, m, q, gs, t, [ad |-> ad, events |-> <<input>>])
  BY TellingIsNamed, Zenon
<1>4. BlockDelta(ad, s, m) = IF m.kind = "text" THEN TextDelta(ad, s, m)
                             ELSE IF m.kind = "thinking" THEN [ad |-> ad, events |-> <<thought>>]
                             ELSE [ad |-> ad, events |-> <<input>>]
  BY DEF BlockDelta, Named
<1> HIDE DEF thought, input
<1> QED BY <1>1, <1>2, <1>3, <1>4

LEMMA StopIsNamed ==
    ASSUME NEW ad, NEW m, NEW q, NEW gs, NEW t, AreFrames(gs), Streaming(ad, q, gs, t),
           m.parent \in DOMAIN ad.streams
    PROVE  KeepsNames(ad, m, q, gs, t, BlockStop(ad, ad.streams[m.parent], m))
<1> DEFINE s   == ad.streams[m.parent]
           key == <<s.stream, m.index>>
           over == [ad EXCEPT !.replies = Restrict(@, DOMAIN @ \ {key})]
           end(name) == Event(name, m, StreamData(s, m, <<>>))
           r   == BlockStop(ad, s, m)
<1>1. \/ r = [ad |-> over, events |-> <<>>]
      \/ r = [ad |-> ad, events |-> <<>>]
      \/ \E name : r = [ad |-> over, events |-> <<end(name)>>]
      \/ \E name : r = [ad |-> ad, events |-> <<end(name)>>]
  BY Zenon DEF BlockStop
<1>2. Streaming(over, q, gs, t) /\ over.envelopes = ad.envelopes /\ over.streams = ad.streams
  BY ReplyIsOver, Zenon
<1>3. \A name : NamesIn(t, end(name))
  BY NothingNamesBlock, Zenon DEF Streaming
<1> HIDE DEF over, end, r
<1>4. KeepsNames(ad, m, q, gs, t, r)
  BY <1>1, <1>2, <1>3, NoElements, OneElement DEF KeepsNames
<1> QED BY <1>4 DEF r

\* Any frame, whoever lost what came before it.
LEMMA FrameArrives ==
    ASSUME NEW ad, NEW m, NEW p, NEW q, NEW fs, NEW t, NEW gs, gs = fs \cup {m.uuid},
           Streaming(ad, p, fs, t), IsFrame(m, p, q, fs), AreFrames(fs),
           m.raw \in {"message_start", "content_block_start", "content_block_delta",
                      "content_block_stop", "message_stop"},
           m.raw \in {"content_block_start", "content_block_delta"} =>
               m.kind \in {"text", "thinking", "tool"},
           m.raw = "content_block_delta" => Showable(m, q, t, m.text)
    PROVE  LET r == AdaptStream(ad, m)
           IN  /\ Streaming(r.ad, q, gs, t) /\ r.ad.envelopes = ad.envelopes
               /\ DOMAIN r.ad.streams \subseteq DOMAIN ad.streams \cup {m.parent}
               /\ m.raw = "message_stop" => m.parent \notin DOMAIN r.ad.streams
               /\ IsSeq(r.events) /\ \A e \in Range(r.events) : NamesIn(t, e)
<1> DEFINE now == WithStream(ad, m)
           s   == now.streams[m.parent]
           r   == AdaptStream(ad, m)
           begun == Event("assistant.message.started", m, StreamData(s, m, <<>>))
           ended == Event("assistant.message.stopped", m, StreamData(s, m, <<>>))
<1>1. /\ Streaming(now, q, gs, t) /\ now.envelopes = ad.envelopes
      /\ m.parent \in DOMAIN now.streams
      /\ DOMAIN now.streams = DOMAIN ad.streams \cup {m.parent}
  BY StreamIsKnown, Zenon
<1>2. AreFrames(gs)
  BY DEF AreFrames, IsFrame
<1>3. CASE m.raw # "message_stop"
  <2>1. KeepsNames(now, m, q, gs, t, r)
    <3>1. CASE m.raw = "message_start"
      <4>1. r = [ad |-> now, events |-> <<begun>>]
        BY <3>1 DEF AdaptStream
      <4> HIDE DEF now, r
      <4> QED BY <1>1, <1>2, <4>1, TellingIsNamed, Zenon
    <3>2. CASE m.raw = "content_block_start"
      <4>1. r = BlockStart(now, s, m)
        BY <3>2 DEF AdaptStream
      <4> HIDE DEF now, r
      <4> QED BY <1>1, <1>2, <3>2, <4>1, StartIsNamed
    <3>3. CASE m.raw = "content_block_delta"
      <4>1. r = BlockDelta(now, s, m)
        BY <3>3 DEF AdaptStream
      <4> HIDE DEF now, r
      <4> QED BY <1>1, <1>2, <3>3, <4>1, DeltaIsNamed
    <3>4. CASE m.raw = "content_block_stop"
      <4>1. r = BlockStop(now, s, m)
        BY <3>4 DEF AdaptStream
      <4> HIDE DEF now, r
      <4> QED BY <1>1, <1>2, <4>1, StopIsNamed
    <3> QED BY <1>3, <3>1, <3>2, <3>3, <3>4
  <2> HIDE DEF now, r
  <2>2. /\ Streaming(r.ad, q, gs, t) /\ r.ad.envelopes = ad.envelopes
        /\ DOMAIN r.ad.streams \subseteq DOMAIN ad.streams \cup {m.parent}
        /\ IsSeq(r.events) /\ \A e \in Range(r.events) : NamesIn(t, e)
    BY <1>1, <2>1 DEF KeepsNames
  <2> QED BY <1>3, <2>2 DEF r
<1>4. CASE m.raw = "message_stop"
  <2>1. r = [ad |-> FinishStream(now, m), events |-> <<ended>>]
    BY <1>4 DEF AdaptStream
  <2>2. NamesIn(t, ended)
    <3> HIDE DEF now
    <3> QED BY <1>1, <1>2, NothingNamesBlock, Zenon DEF Streaming
  <2> HIDE DEF now, r, ended
  <2>3. /\ Streaming(r.ad, q, gs, t) /\ r.ad.envelopes = ad.envelopes
        /\ DOMAIN r.ad.streams = DOMAIN now.streams \ {m.parent}
    BY <1>1, <2>1, StreamIsOver, Zenon
  <2>4. IsSeq(r.events) /\ \A e \in Range(r.events) : NamesIn(t, e)
    BY <2>1, <2>2, OneElement
  <2>5. /\ Streaming(r.ad, q, gs, t) /\ r.ad.envelopes = ad.envelopes
        /\ DOMAIN r.ad.streams \subseteq DOMAIN ad.streams \cup {m.parent}
        /\ m.parent \notin DOMAIN r.ad.streams
        /\ IsSeq(r.events) /\ \A e \in Range(r.events) : NamesIn(t, e)
    BY <1>1, <2>3, <2>4
  <2> QED BY <2>5 DEF r
<1> QED BY <1>3, <1>4

-----------------------------------------------------------------------------
(* How far the agents are *)

Place  == [n : Nat, closed : BOOLEAN, open : Nat, piece : Nat, done : Nat, sent : Nat]
Counts == [frame : Nat, packet : Nat, lost : Nat, repeats : Nat, untold : Nat, foreign : Nat]

PlaceOK(a) ==
    LET p == at[a] IN
    /\ p \in Place
    /\ p.n <= Len(Said(a))
    /\ p.n = 0 => p.closed
    /\ p.n > 0 => p.done <= Len(Blocks(a)) /\ p.sent <= Len(Blocks(a)) /\ p.open <= Len(Blocks(a))
    /\ p.open \in {0, p.done + 1}
    /\ p.open > 0 => a \in script.streamed /\ ~ p.closed
    /\ a \in script.streamed => p.sent <= p.done

Places ==
    /\ script \in Scripts /\ turn \in DOMAIN Script /\ DOMAIN at = Agents
    /\ count \in Counts
    /\ IsSeq(main) /\ IsSeq(subs)
    /\ \A a \in Agents : PlaceOK(a)

\* What an agent says are sequences.
LEMMA SaidWell ==
    ASSUME Places, NEW a \in Agents
    PROVE  /\ Len(Said(a)) \in Nat
           /\ \A n \in 1..Len(Said(a)) :
                /\ IsSeq(Said(a)[n]) /\ Len(Said(a)[n]) \in Nat
                /\ DOMAIN Said(a)[n] = 1..Len(Said(a)[n])
                /\ \A i \in 1..Len(Said(a)[n]) :
                     /\ Said(a)[n][i].kind \in {"text", "thinking", "tool"}
                     /\ IsSeq(Said(a)[n][i].text)
<1>1. IsSaid(Said(a))
  BY ScriptsAssumption DEF Places, Said, Script
<1> DEFINE s == Said(a)
<1> HIDE DEF s
<1>2. IsSaid(s)
  BY <1>1 DEF s
<1>3. Len(s) \in Nat /\ DOMAIN s = 1..Len(s)
  BY <1>2, Elements DEF IsSaid
<1>4. ASSUME NEW n \in 1..Len(s)
      PROVE  /\ IsSeq(s[n]) /\ Len(s[n]) \in Nat /\ DOMAIN s[n] = 1..Len(s[n])
             /\ \A i \in 1..Len(s[n]) :
                  s[n][i].kind \in {"text", "thinking", "tool"} /\ IsSeq(s[n][i].text)
  <2>1. IsSeq(s[n])
    BY <1>2, <1>3 DEF IsSaid
  <2>2. Len(s[n]) \in Nat /\ DOMAIN s[n] = 1..Len(s[n])
    BY <2>1, Elements
  <2> QED BY <1>2, <1>3, <2>1, <2>2 DEF IsSaid
<1> QED BY <1>3, <1>4 DEF s

\* One agent goes to another place.
LEMMA MovesOn ==
    ASSUME Places, script' = script, turn' = turn, NEW a \in Agents, NEW to, Moves(a, to),
           to \in Place, to.n <= Len(Said(a)), to.n = 0 => to.closed,
           to.n > 0 => /\ to.done <= Len(Said(a)[to.n]) /\ to.sent <= Len(Said(a)[to.n])
                       /\ to.open <= Len(Said(a)[to.n]),
           to.open \in {0, to.done + 1}, to.open > 0 => a \in script.streamed /\ ~ to.closed,
           a \in script.streamed => to.sent <= to.done,
           count' \in Counts,
           IsSeq(main'), IsSeq(subs')
    PROVE  /\ Places' /\ at'[a] = to /\ \A b \in Agents \ {a} : at'[b] = at[b]
<1>1. DOMAIN at' = Agents /\ at'[a] = to /\ \A b \in Agents \ {a} : at'[b] = at[b]
  BY DEF Moves, Places
<1>2. ASSUME NEW b \in Agents PROVE PlaceOK(b)'
  <2>1. Said(b)' = Said(b) /\ script' = script
    BY DEF Said, Script
  <2>2. CASE b = a
    BY <1>1, <2>1, <2>2 DEF PlaceOK, Blocks
  <2>3. CASE b # a
    <3>1. at'[b] = at[b] /\ PlaceOK(b)
      BY <1>1, <2>3 DEF Places
    <3> QED BY <2>1, <3>1 DEF PlaceOK, Blocks
  <2> QED BY <2>2, <2>3
<1>3. (script \in Scripts)' /\ (turn \in DOMAIN Script)'
  BY DEF Places, Script
<1> QED BY <1>1, <1>2, <1>3 DEF Places

\* Nobody moves.
LEMMA StaysThere ==
    ASSUME Places, script' = script, turn' = turn, at' = at,
           count' \in Counts,
           IsSeq(main'), IsSeq(subs')
    PROVE  Places'
<1>1. ASSUME NEW b \in Agents PROVE PlaceOK(b)'
  <2>1. PlaceOK(b) /\ Said(b)' = Said(b) /\ script' = script /\ at' = at
    BY DEF Places, Said, Script
  <2> QED BY <2>1 DEF PlaceOK, Blocks
<1> QED BY <1>1 DEF Places, Script

\* What is written down are sequences.
LEMMA WritesDown ==
    ASSUME Places, NEW a, NEW m, WriteDown(a, m)
    PROVE  IsSeq(main') /\ IsSeq(subs')
  BY OneMore, Zenon DEF Places, WriteDown

\* Frames are counted, also those that were lost.
LEMMA FrameCounts ==
    ASSUME Places, NEW a, NEW raw, NEW index, NEW kind, NEW text, Frame(a, raw, index, kind, text)
    PROVE  count' \in Counts
<1>1. \/ count' = [count EXCEPT !.frame = @ + 1]
      \/ count' = [count EXCEPT !.frame = @ + 1, !.lost = @ + 1]
  BY DEF Frame
<1>2. count \in Counts
  BY DEF Places
<1> DEFINE mid == [count EXCEPT !.frame = @ + 1]
<1>3. mid \in Counts
  BY <1>2 DEF Counts
<1>4. count' \in {mid, [mid EXCEPT !.lost = @ + 1]}
  BY <1>1, <1>2 DEF Counts
<1> HIDE DEF mid
<1> QED BY <1>3, <1>4 DEF Counts

\* The place at the beginning of a message.
LEMMA BegunPlace ==
    ASSUME NEW a, at[a].n \in Nat
    PROVE  /\ Begun(a) \in Place /\ Begun(a).n = at[a].n + 1 /\ Begun(a).closed = FALSE
           /\ Begun(a).open = 0 /\ Begun(a).done = 0 /\ Begun(a).sent = 0
<1> DEFINE mid == [NotBegun EXCEPT !.n = at[a].n + 1]
<1>1. Begun(a) = [mid EXCEPT !.closed = FALSE]
  BY DEF Begun
<1>2. mid \in Place /\ mid.n = at[a].n + 1 /\ mid.open = 0 /\ mid.done = 0 /\ mid.sent = 0
  <2>1. NotBegun \in Place /\ NotBegun.open = 0 /\ NotBegun.done = 0 /\ NotBegun.sent = 0
    BY DEF NotBegun, Place
  <2> QED BY <2>1 DEF Place
<1> HIDE DEF mid
<1> QED BY <1>1, <1>2, Zenon DEF Place

\* Every step of a stream, and an envelope, leaves its agent at a place of what it says.
LEMMA StreamPlaces ==
    ASSUME Places, NEW a \in Agents,
           Begin(a) \/ OpenBlock(a) \/ Piece(a) \/ CloseBlock(a) \/ CloseMessage(a)
    PROVE  Places'
<1> DEFINE p == at[a]
           Step == Begin(a) \/ OpenBlock(a) \/ Piece(a) \/ CloseBlock(a) \/ CloseMessage(a)
<1>1. script' = script /\ turn' = turn /\ main' = main /\ subs' = subs
  BY DEF Begin, OpenBlock, Piece, CloseBlock, CloseMessage, Calm, kept
<1>2. IsSeq(main') /\ IsSeq(subs')
  BY <1>1 DEF Places
<1>3. count' \in Counts
  BY FrameCounts DEF Begin, OpenBlock, Piece, CloseBlock, CloseMessage
<1>4. Len(Said(a)) \in Nat /\ \A n \in 1..Len(Said(a)) : Len(Said(a)[n]) \in Nat
  BY SaidWell
<1>5. p \in Place
  BY DEF Places, PlaceOK
<1>6. p.n \in Nat /\ p.closed \in BOOLEAN /\ p.open \in Nat /\ p.piece \in Nat /\ p.done \in Nat /\ p.sent \in Nat
  BY <1>5 DEF Place
<1>7. /\ p.n <= Len(Said(a)) /\ (p.n = 0 => p.closed) /\ p.open \in {0, p.done + 1}
      /\ p.open > 0 => a \in script.streamed /\ ~ p.closed
      /\ a \in script.streamed => p.sent <= p.done
      /\ Blocks(a) = Said(a)[p.n]
  BY DEF Places, PlaceOK, Blocks
<1>8. p.n > 0 => /\ p.done <= Len(Said(a)[p.n]) /\ p.sent <= Len(Said(a)[p.n])
                 /\ p.open <= Len(Said(a)[p.n])
  BY DEF Places, PlaceOK, Blocks
<1>9. ~ p.closed => p.n > 0 /\ p.n \in 1..Len(Said(a)) /\ Len(Blocks(a)) \in Nat
  <2> HIDE DEF p
  <2> QED BY <1>4, <1>6, <1>7
<1>10. CASE Begin(a)
  <2> DEFINE to == Begun(a)
  <2>1. Moves(a, to) /\ p.n < Len(Said(a))
    BY <1>10 DEF Begin, MayBegin
  <2>2. /\ to \in Place /\ to.n = p.n + 1 /\ to.closed = FALSE
        /\ to.open = 0 /\ to.done = 0 /\ to.sent = 0
    BY <1>6, BegunPlace, Zenon
  <2> HIDE DEF to, p
  <2>3. to.n \in 1..Len(Said(a))
    BY <1>4, <1>6, <2>1, <2>2
  <2>4. Len(Said(a)[to.n]) \in Nat
    BY <1>4, <2>3
  <2> QED BY <1>1, <1>2, <1>3, <2>1, <2>2, <2>3, <2>4, MovesOn
<1>11. CASE OpenBlock(a)
  <2> DEFINE to == [p EXCEPT !.open = p.done + 1, !.piece = 0]
  <2>1. Moves(a, to) /\ a \in script.streamed /\ ~ p.closed /\ p.done < Len(Blocks(a))
    BY <1>11 DEF OpenBlock
  <2> HIDE DEF p
  <2>2. /\ to \in Place /\ to.n = p.n /\ to.closed = p.closed
        /\ to.open = p.done + 1 /\ to.done = p.done /\ to.sent = p.sent
    <3> DEFINE mid == [p EXCEPT !.open = p.done + 1]
    <3>1. to = [mid EXCEPT !.piece = 0]
      OBVIOUS
    <3>2. /\ mid \in Place /\ mid.n = p.n /\ mid.closed = p.closed
          /\ mid.open = p.done + 1 /\ mid.done = p.done /\ mid.sent = p.sent
      BY <1>5, <1>6 DEF Place
    <3> HIDE DEF mid, to
    <3> QED BY <3>1, <3>2 DEF Place
  <2> HIDE DEF to
  <2> QED BY <1>1, <1>2, <1>3, <1>4, <1>6, <1>7, <1>8, <1>9, <2>1, <2>2, MovesOn
<1>12. CASE Piece(a)
  <2> DEFINE to == [p EXCEPT !.piece = p.piece + 1]
  <2>1. Moves(a, to)
    BY <1>12 DEF Piece
  <2> HIDE DEF p
  <2>2. /\ to \in Place /\ to.n = p.n /\ to.closed = p.closed
        /\ to.open = p.open /\ to.done = p.done /\ to.sent = p.sent
    BY <1>5, <1>6 DEF Place
  <2> HIDE DEF to
  <2> QED BY <1>1, <1>2, <1>3, <1>6, <1>7, <1>8, <2>1, <2>2, MovesOn
<1>13. CASE CloseBlock(a)
  <2> DEFINE to == [p EXCEPT !.open = 0, !.done = p.done + 1]
  <2>1. Moves(a, to) /\ p.open > 0
    BY <1>13 DEF CloseBlock
  <2> HIDE DEF p
  <2>2. /\ to \in Place /\ to.n = p.n /\ to.closed = p.closed
        /\ to.open = 0 /\ to.done = p.done + 1 /\ to.sent = p.sent
    <3> DEFINE mid == [p EXCEPT !.open = 0]
    <3>1. to = [mid EXCEPT !.done = p.done + 1]
      OBVIOUS
    <3>2. /\ mid \in Place /\ mid.n = p.n /\ mid.closed = p.closed
          /\ mid.open = 0 /\ mid.done = p.done /\ mid.sent = p.sent
      BY <1>5, <1>6 DEF Place
    <3> HIDE DEF mid, to
    <3> QED BY <1>6, <3>1, <3>2 DEF Place
  <2> HIDE DEF to
  <2>3. p.open = p.done + 1 /\ ~ p.closed
    BY <1>6, <1>7, <2>1
  <2> QED BY <1>1, <1>2, <1>3, <1>4, <1>6, <1>7, <1>8, <1>9, <2>1, <2>2, <2>3, MovesOn
<1>14. CASE CloseMessage(a)
  <2> DEFINE to == [p EXCEPT !.closed = TRUE]
  <2>1. Moves(a, to) /\ ~ p.closed /\ a \in script.streamed /\ p.sent = Len(Blocks(a))
    BY <1>14 DEF CloseMessage
  <2> HIDE DEF p
  <2>2. /\ to \in Place /\ to.n = p.n /\ to.closed = TRUE
        /\ to.open = p.open /\ to.done = p.done /\ to.sent = p.sent
    BY <1>5, <1>6, Zenon DEF Place
  <2> HIDE DEF to
  <2>3. p.open = 0
    BY <1>6, <1>7, <1>8, <1>9, <2>1
  <2> QED BY <1>1, <1>2, <1>3, <1>4, <1>6, <1>7, <1>8, <1>9, <2>1, <2>2, <2>3, MovesOn
<1> QED BY <1>10, <1>11, <1>12, <1>13, <1>14

\* The place of an agent whose envelope is sent, and the envelope.
Now(a) == IF a \notin script.streamed /\ MayBegin(a) THEN Begun(a) ELSE at[a]
Sent(a, to) == Envelope(a, Now(a).n, Now(a).sent + 1, to)

\* What SendEnvelope does, said by Now and Sent.
LEMMA SendIs ==
    ASSUME NEW a, NEW to, SendEnvelope(a, to)
    PROVE  /\ ~ Now(a).closed /\ Now(a).sent < to
           /\ to <= (IF a \notin script.streamed THEN Len(Said(a)[Now(a).n]) ELSE Now(a).done)
           /\ Deliver(Sent(a, to)) /\ WriteDown(a, Sent(a, to))
           /\ Moves(a, [Now(a) EXCEPT !.sent = to,
                           !.closed = a \notin script.streamed /\ to = Len(Said(a)[Now(a).n])])
           /\ count' = [count EXCEPT !.packet = @ + 1]
           /\ script' = script /\ turn' = turn
  BY DEF SendEnvelope, Now, Sent

\* An envelope continues the message its agent is at, or begins the next.
LEMMA NowPlace ==
    ASSUME Places, NEW a \in Agents, ~ Now(a).closed
    PROVE  /\ Now(a) \in Place /\ Now(a).n \in 1..Len(Said(a)) /\ Now(a).sent <= Len(Said(a)[Now(a).n])
           /\ Now(a).done <= Len(Said(a)[Now(a).n])
           /\ Now(a).open <= Len(Said(a)[Now(a).n]) /\ Now(a).open \in {0, Now(a).done + 1}
           /\ Now(a).open > 0 => a \in script.streamed
           /\ Now(a) = at[a] \/ (Now(a).n = at[a].n + 1 /\ Now(a).sent = 0 /\ at[a].closed)
<1>1. /\ at[a] \in Place /\ at[a].n <= Len(Said(a)) /\ (at[a].n = 0 => at[a].closed)
      /\ at[a].open \in {0, at[a].done + 1} /\ (at[a].open > 0 => a \in script.streamed)
      /\ at[a].n > 0 => /\ at[a].done <= Len(Said(a)[at[a].n]) /\ at[a].sent <= Len(Said(a)[at[a].n])
                        /\ at[a].open <= Len(Said(a)[at[a].n])
  BY DEF Places, PlaceOK, Blocks
<1>2. Len(Said(a)) \in Nat /\ \A n \in 1..Len(Said(a)) : Len(Said(a)[n]) \in Nat
  BY SaidWell
<1>3. at[a].n \in Nat /\ at[a].closed \in BOOLEAN
  BY <1>1 DEF Place
<1>4. CASE a \notin script.streamed /\ MayBegin(a)
  <2>1. Now(a) = Begun(a) /\ at[a].n < Len(Said(a)) /\ at[a].closed
    BY <1>4 DEF Now, MayBegin
  <2>2. /\ Begun(a) \in Place /\ Begun(a).n = at[a].n + 1 /\ Begun(a).closed = FALSE
        /\ Begun(a).open = 0 /\ Begun(a).done = 0 /\ Begun(a).sent = 0
    BY <1>3, BegunPlace, Zenon
  <2>3. Begun(a).n \in 1..Len(Said(a))
    BY <1>2, <1>3, <2>1, <2>2
  <2>4. Len(Said(a)[Begun(a).n]) \in Nat
    BY <1>2, <2>3
  <2> QED BY <2>1, <2>2, <2>3, <2>4
<1>5. CASE ~ (a \notin script.streamed /\ MayBegin(a))
  <2>1. Now(a) = at[a]
    BY <1>5 DEF Now
  <2>2. at[a].n > 0 /\ at[a].n \in 1..Len(Said(a))
    BY <1>1, <1>2, <1>3, <2>1
  <2> QED BY <1>1, <2>1, <2>2
<1> QED BY <1>4, <1>5

\* It leaves the agent behind the last block that it sent.
LEMMA SendPlaces ==
    ASSUME Places, NEW a \in Agents, NEW to \in 1..MaxBlocks, SendEnvelope(a, to)
    PROVE  /\ Places' /\ at'[a].n = Now(a).n /\ at'[a].sent = to
           /\ \A b \in Agents \ {a} : at'[b] = at[b]
           /\ to \in Nat /\ to > Now(a).sent /\ to <= Len(Said(a)[Now(a).n])
           /\ a \in script.streamed => ~ at'[a].closed
<1> DEFINE now == Now(a)
           mid == [now EXCEPT !.sent = to]
           new == [mid EXCEPT !.closed = a \notin script.streamed /\ to = Len(Said(a)[now.n])]
<1>1. /\ ~ now.closed /\ now.sent < to
      /\ to <= (IF a \notin script.streamed THEN Len(Said(a)[now.n]) ELSE now.done)
      /\ WriteDown(a, Sent(a, to)) /\ Moves(a, new)
      /\ count' = [count EXCEPT !.packet = @ + 1] /\ script' = script /\ turn' = turn
  BY SendIs, Zenon
<1>2. /\ now \in Place /\ now.n \in 1..Len(Said(a)) /\ now.sent <= Len(Said(a)[now.n])
      /\ now.done <= Len(Said(a)[now.n])
      /\ now.open <= Len(Said(a)[now.n]) /\ now.open \in {0, now.done + 1}
      /\ now.open > 0 => a \in script.streamed
  BY <1>1, NowPlace
<1>3. Len(Said(a)) \in Nat /\ Len(Said(a)[now.n]) \in Nat
  <2> HIDE DEF now
  <2> QED BY <1>2, SaidWell
<1> HIDE DEF now
<1>4. now.n \in Nat /\ now.done \in Nat /\ now.sent \in Nat /\ now.open \in Nat
  BY <1>2 DEF Place
<1>5. to \in Nat /\ to <= Len(Said(a)[now.n]) /\ (a \in script.streamed => to <= now.done)
  BY <1>1, <1>2, <1>3, <1>4
<1>6. mid \in Place /\ mid.n = now.n /\ mid.open = now.open /\ mid.done = now.done /\ mid.sent = to
  BY <1>2, <1>5, Zenon DEF Place
<1> HIDE DEF mid
<1>7. /\ new \in Place /\ new.n = now.n /\ new.open = now.open /\ new.done = now.done /\ new.sent = to
      /\ new.closed = (a \notin script.streamed /\ to = Len(Said(a)[now.n]))
  BY <1>6, Zenon DEF Place
<1>8. IsSeq(main') /\ IsSeq(subs')
  BY <1>1, WritesDown
<1>9. count' \in Counts
  <2>1. count \in Counts
    BY DEF Places
  <2> QED BY <1>1, <2>1 DEF Counts
<1> HIDE DEF new
<1>10. Places' /\ at'[a] = new /\ \A b \in Agents \ {a} : at'[b] = at[b]
  <2>1. new.n <= Len(Said(a)) /\ new.n > 0
    BY <1>2, <1>3, <1>4, <1>7
  <2>2. new.open > 0 => a \in script.streamed /\ ~ new.closed
    BY <1>2, <1>7, Zenon
  <2>3. new.n = 0 => new.closed
    BY <1>4, <1>7, <2>1
  <2>4. a \in script.streamed => new.sent <= new.done
    BY <1>5, <1>7
  <2>5. /\ new.done <= Len(Said(a)[new.n]) /\ new.sent <= Len(Said(a)[new.n])
        /\ new.open <= Len(Said(a)[new.n]) /\ new.open \in {0, new.done + 1}
    BY <1>2, <1>5, <1>7
  <2> QED BY <1>1, <1>7, <1>8, <1>9, <2>1, <2>2, <2>3, <2>4, <2>5, MovesOn
<1> QED BY <1>1, <1>5, <1>7, <1>10, Zenon DEF now

\* The other actions leave everybody where it is.
Answering == \E a, b : \/ \E tells \in BOOLEAN : FileAnswers(a, b, tells)
                        \/ ToolAnswers(a, b) \/ Notify(b)
                        \/ \E tool : Launch(a, b, tool)

\* An answer is delivered and written down, or a task is told of.
LEMMA AnsweringIs ==
    ASSUME Answering
    PROVE  /\ \E m : Deliver(m) /\ (m.type = "task" \/ (m.type = "user" /\ IsSeq(m.content)))
           /\ \/ \E a, m : m.type = "user" /\ WriteDown(a, m)
              \/ main' = main /\ subs' = subs
<1>1. ASSUME NEW a, NEW b, NEW edit, Answers(a, b, edit)
      PROVE  \E m : m.type = "user" /\ IsSeq(m.content) /\ Deliver(m) /\ WriteDown(a, m)
  <2> DEFINE m == [type |-> "user", parent |-> a, uuid |-> <<"result", b.tool>>, said |-> "none",
                   note |-> NoNote, origin |-> "none",
                   content |-> <<[kind |-> "result", tool |-> b.tool, error |-> FALSE, edit |-> edit]>>]
  <2>1. Deliver(m) /\ WriteDown(a, m)
    BY <1>1 DEF Answers
  <2>2. m.type = "user" /\ IsSeq(m.content)
    BY OneElement
  <2> HIDE DEF m
  <2> QED BY <2>1, <2>2
<1>2. ASSUME NEW a, NEW b, NEW tells, FileAnswers(a, b, tells) PROVE \E edit : Answers(a, b, edit)
  BY <1>2 DEF FileAnswers
<1>3. ASSUME NEW a, NEW b, ToolAnswers(a, b) PROVE \E edit : Answers(a, b, edit)
  BY <1>3 DEF ToolAnswers
<1>4. ASSUME NEW b, Notify(b)
      PROVE  (\E m : m.type = "task" /\ Deliver(m)) /\ \E m : m.type = "user" /\ WriteDown(Main, m)
  <2> DEFINE m == [type |-> "user", parent |-> Main, uuid |-> <<"note", b.tool>>, said |-> "notification",
                   content |-> <<[kind |-> "text", text |-> <<"notification">>]>>,
                   note |-> [task |-> <<"task", b.tool>>, tool |-> b.tool, total |-> Tokens(b.tool)]]
             news == Task("task.completed", b, b.tool, Tokens(b.tool))
  <2>1. Deliver(news) /\ WriteDown(Main, m)
    BY <1>4 DEF Notify
  <2>2. news.type = "task" /\ m.type = "user"
    BY DEF Task
  <2> HIDE DEF m, news
  <2> QED BY <2>1, <2>2
<1>5. ASSUME NEW a, NEW b, NEW tool, Launch(a, b, tool)
      PROVE  (\E m : m.type = "task" /\ Deliver(m)) /\ main' = main /\ subs' = subs
  <2> DEFINE news == Task("task.started", b, tool, NoUsage)
  <2>1. Deliver(news) /\ main' = main /\ subs' = subs
    BY <1>5 DEF Launch, kept
  <2>2. news.type = "task"
    BY DEF Task
  <2> HIDE DEF news
  <2> QED BY <2>1, <2>2
<1>6. PICK a, b : \/ \E tells \in BOOLEAN : FileAnswers(a, b, tells)
                  \/ ToolAnswers(a, b) \/ Notify(b)
                  \/ \E tool : Launch(a, b, tool)
  BY Zenon DEF Answering
<1>7. CASE \E edit : Answers(a, b, edit)
  BY <1>1, <1>7
<1>8. CASE Notify(b) \/ \E tool : Launch(a, b, tool)
  BY <1>4, <1>5, <1>8
<1> QED BY <1>2, <1>3, <1>6, <1>7, <1>8

\* An answer counts at most what was not told.
LEMMA AnsweringCounts ==
    ASSUME Answering
    PROVE  \/ count' = count
           \/ \E tells \in BOOLEAN : count' = [count EXCEPT !.untold = @ + (IF tells THEN 0 ELSE 1)]
<1>1. PICK a, b : \/ \E tells \in BOOLEAN : FileAnswers(a, b, tells)
                  \/ ToolAnswers(a, b) \/ Notify(b)
                  \/ \E tool : Launch(a, b, tool)
  BY Zenon DEF Answering
<1>2. CASE \E tells \in BOOLEAN : FileAnswers(a, b, tells)
  BY <1>2 DEF FileAnswers
<1>3. CASE ToolAnswers(a, b) \/ Notify(b) \/ \E tool : Launch(a, b, tool)
  BY <1>3 DEF ToolAnswers, Notify, Launch
<1> QED BY <1>1, <1>2, <1>3

\* Neither an answer nor a repeated envelope moves an agent.
LEMMA QuietPlaces ==
    ASSUME Places,
           \/ Answering \/ PrintOutput \/ EndTurn \/ UNCHANGED vars
           \/ \E a \in Agents : RepeatEnvelope(a)
           \/ \E f, c : Foreign(f, c)
    PROVE  Places' /\ script' = script /\ turn' = turn /\ at' = at
<1>1. script' = script /\ turn' = turn /\ at' = at
  <2>1. CASE Answering
    <3>1. PICK a, b : \/ \E tells \in BOOLEAN : FileAnswers(a, b, tells)
                      \/ ToolAnswers(a, b) \/ Notify(b)
                      \/ \E tool : Launch(a, b, tool)
      BY <2>1 DEF Answering
    <3>2. CASE \E tells \in BOOLEAN : FileAnswers(a, b, tells)
      BY <3>2 DEF FileAnswers
    <3>3. CASE ToolAnswers(a, b) \/ Notify(b) \/ \E tool : Launch(a, b, tool)
      BY <3>3 DEF ToolAnswers, Notify, Launch
    <3> QED BY <3>1, <3>2, <3>3
  <2>2. CASE PrintOutput \/ EndTurn
    <3>1. UNCHANGED work
      BY <2>2 DEF PrintOutput, EndTurn
    <3> QED BY <3>1 DEF work
  <2>3. CASE UNCHANGED vars
    <3>1. UNCHANGED work
      BY <2>3 DEF vars
    <3> QED BY <3>1 DEF work
  <2>4. CASE (\E a \in Agents : RepeatEnvelope(a)) \/ \E f, c : Foreign(f, c)
    <3>1. UNCHANGED work
      BY <2>4 DEF RepeatEnvelope, Foreign
    <3> QED BY <3>1 DEF work
  <2> QED BY <2>1, <2>2, <2>3, <2>4
<1>2. IsSeq(main') /\ IsSeq(subs')
  <2>0. IsSeq(main) /\ IsSeq(subs)
    BY DEF Places
  <2>1. CASE Answering
    BY <2>0, <2>1, AnsweringIs, WritesDown
  <2>2. CASE PrintOutput
    <3>1. \E a, m : WriteDown(a, m)
      BY <2>2 DEF PrintOutput
    <3> QED BY <3>1, WritesDown
  <2>3. CASE EndTurn \/ UNCHANGED vars \/ (\E a \in Agents : RepeatEnvelope(a)) \/ \E f, c : Foreign(f, c)
    <3>1. main' = main /\ subs' = subs
      BY <2>3 DEF EndTurn, RepeatEnvelope, Foreign, vars, kept
    <3> QED BY <2>0, <3>1
  <2> QED BY <2>1, <2>2, <2>3
<1>3. count' \in Counts
  <2>0. count \in Counts
    BY DEF Places
  <2>1. \/ count' = count \/ count' = [count EXCEPT !.repeats = @ + 1]
        \/ count' = [count EXCEPT !.foreign = @ + 1]
        \/ \E tells \in BOOLEAN : count' = [count EXCEPT !.untold = @ + (IF tells THEN 0 ELSE 1)]
    BY AnsweringCounts DEF PrintOutput, EndTurn, RepeatEnvelope, Foreign, vars
  <2> QED BY <2>0, <2>1 DEF Counts
<1> QED BY <1>1, <1>2, <1>3, StaysThere

\* With a new turn nobody has begun.
LEMMA PromptPlaces ==
    ASSUME Places, NextPrompt
    PROVE  Places'
<1>1. /\ script' = script /\ turn' = turn + 1 /\ turn < Len(Script)
      /\ at' = [a \in Agents |-> NotBegun] /\ main' = Append(main, Prompt(turn + 1))
      /\ subs' = subs /\ count' = count
  BY DEF NextPrompt
<1>2. IsSeq(Script) /\ Script' = Script
  BY <1>1, ScriptsAssumption DEF Places, Script
<1>3. turn \in Nat /\ DOMAIN Script = 1..Len(Script) /\ Len(Script) \in Nat
  BY <1>2, Elements DEF Places
<1>4. turn' \in DOMAIN Script
  BY <1>1, <1>3
<1>5. IsSeq(main') /\ IsSeq(subs')
  BY <1>1, OneMore DEF Places
<1>6. ASSUME NEW a \in Agents PROVE PlaceOK(a)'
  <2>1. at'[a] = NotBegun
    BY <1>1
  <2>2. /\ NotBegun \in Place /\ NotBegun.n = 0 /\ NotBegun.closed = TRUE /\ NotBegun.open = 0
        /\ NotBegun.sent = 0 /\ NotBegun.done = 0
    BY DEF NotBegun, Place
  <2>3. Len(Said(a)') \in Nat
    <3>1. IsSaid(script.turns[turn'][a])
      BY <1>2, <1>4, ScriptsAssumption DEF Places, Script
    <3>2. Said(a)' = script.turns[turn'][a]
      BY <1>1 DEF Said, Script
    <3> QED BY <3>1, <3>2, Elements DEF IsSaid
  <2> HIDE DEF NotBegun
  <2> QED BY <2>1, <2>2, <2>3 DEF PlaceOK
<1>7. DOMAIN at' = Agents
  BY <1>1
<1>8. script' \in Scripts /\ count' \in Counts
  BY <1>1 DEF Places
<1> QED BY <1>2, <1>4, <1>5, <1>6, <1>7, <1>8 DEF Places

-----------------------------------------------------------------------------
(* The names *)

Frames  == {<<"frame", j>> : j \in 0..(count.frame - 1)}
Packets == {<<"packet", j>> : j \in 0..(count.packet - 1)}

\* A stream runs until its message ends, unless a frame was lost.
StreamNames ==
    /\ Streaming(adapter, at, Frames, Script[turn])
    /\ \A a \in DOMAIN adapter.streams :
         a \in script.streamed /\ (at[a].closed => count.lost > 0)

EventNames == IsSeq(events) /\ \A e \in Range(events) : NamesIn(Script[turn], e)

\* The envelopes of a message are counted as they were cut.
KeyOf(a, n) == <<a, <<a, n>>>>
EnvelopesOK(env, p, ps) ==
    /\ \A key \in DOMAIN env :
         /\ key[1] \in Agents /\ key[2][1] = key[1] /\ key[2][2] \in 1..p[key[1]].n
         /\ env[key].next \in Nat /\ DOMAIN env[key].offsets \subseteq ps
    /\ \A a \in Agents :
         IF KeyOf(a, p[a].n) \in DOMAIN env THEN env[KeyOf(a, p[a].n)].next = p[a].sent
         ELSE p[a].sent = 0

\* The envelope m of this turn was counted where it belongs.
Counted(m, env, p, t) ==
    LET a == m.parent
        n == m.message[2]
        offsets == env[<<a, m.message>>].offsets
    IN  /\ n <= p[a].n /\ <<a, m.message>> \in DOMAIN env
        /\ m.uuid \in DOMAIN offsets /\ offsets[m.uuid] \in Nat /\ IsSeq(m.content)
        /\ offsets[m.uuid] + Len(m.content) <= Len(t[a][n])
        /\ \A i \in DOMAIN m.content : m.content[i] = t[a][n][offsets[m.uuid] + i]

\* The envelope that came last, and may come again, was counted, or a subagent
\* of an earlier turn sent it.
Repeatable(all, env, p, turns, k) ==
    all # <<>> /\ all[Len(all)].type = "assistant" =>
        LET m == all[Len(all)] IN
        /\ m.parent \in Agents /\ m.message = <<m.parent, m.message[2]>> /\ m.message[2] \in Nat \ {0}
        /\ \/ Counted(m, env, p, turns[k])
           \/ m.parent # Main /\ \E j \in DOMAIN turns : j < k /\ turns[j][m.parent] # <<>>

MayRepeat(all) == Repeatable(all, adapter.envelopes, at, Script, turn)

BySubagent(all) == all # <<>> /\ all[Len(all)].type = "assistant" => all[Len(all)].parent # Main

EnvelopeNames ==
    /\ EnvelopesOK(adapter.envelopes, at, Packets)
    /\ MayRepeat(main) /\ MayRepeat(subs) /\ BySubagent(subs)

Names == StreamNames /\ EventNames /\ EnvelopeNames

\* The inductive invariant.
NamesKept == Places /\ (count.lost <= 1 => Names)

\* The name of the next frame is new, and so is that of the next envelope.
LEMMA NextFrame ==
    ASSUME Places, count'.frame = count.frame + 1
    PROVE  /\ Frames' = Frames \cup {<<"frame", count.frame>>} /\ <<"frame", count.frame>> \notin Frames
           /\ AreFrames(Frames)
<1>1. count.frame \in Nat
  BY DEF Places, Counts
<1>2. ASSUME NEW j \in 0..(count.frame - 1) PROVE <<"frame", j>> # <<"frame", count.frame>>
  BY <1>1
<1>3. 0..(count.frame' - 1) = 0..(count.frame - 1) \cup {count.frame}
  BY <1>1
<1> QED BY <1>1, <1>2, <1>3 DEF Frames, AreFrames

LEMMA NextPacket ==
    ASSUME Places, count'.packet = count.packet + 1
    PROVE  /\ Packets' = Packets \cup {<<"packet", count.packet>>}
           /\ <<"packet", count.packet>> \notin Packets
<1>1. count.packet \in Nat
  BY DEF Places, Counts
<1>2. ASSUME NEW j \in 0..(count.packet - 1) PROVE <<"packet", j>> # <<"packet", count.packet>>
  BY <1>1
<1>3. 0..(count.packet' - 1) = 0..(count.packet - 1) \cup {count.packet}
  BY <1>1
<1> QED BY <1>1, <1>2, <1>3 DEF Packets

\* What was counted stays so while the envelopes do and the agents go on.
LEMMA StaysRepeatable ==
    ASSUME NEW all, NEW env, NEW p, NEW q, NEW turns, NEW k, Repeatable(all, env, p, turns, k),
           \A a \in Agents : p[a].n \in Nat /\ q[a].n \in Nat /\ q[a].n >= p[a].n
    PROVE  Repeatable(all, env, q, turns, k)
<1> DEFINE m == all[Len(all)]
<1> SUFFICES ASSUME all # <<>>, m.type = "assistant"
             PROVE  /\ m.parent \in Agents /\ m.message = <<m.parent, m.message[2]>>
                    /\ m.message[2] \in Nat \ {0}
                    /\ \/ Counted(m, env, q, turns[k])
                       \/ m.parent # Main /\ \E j \in DOMAIN turns : j < k /\ turns[j][m.parent] # <<>>
  BY DEF Repeatable
<1>1. /\ m.parent \in Agents /\ m.message = <<m.parent, m.message[2]>> /\ m.message[2] \in Nat \ {0}
      /\ \/ Counted(m, env, p, turns[k])
         \/ m.parent # Main /\ \E j \in DOMAIN turns : j < k /\ turns[j][m.parent] # <<>>
  BY DEF Repeatable
<1> HIDE DEF m
<1>2. CASE Counted(m, env, p, turns[k])
  <2>1. m.message[2] <= q[m.parent].n
    <3>1. m.message[2] <= p[m.parent].n
      BY <1>2, Zenon DEF Counted
    <3>2. q[m.parent].n >= p[m.parent].n /\ p[m.parent].n \in Nat /\ q[m.parent].n \in Nat
      BY <1>1, Zenon
    <3> QED BY <1>1, <3>1, <3>2
  <2>2. Counted(m, env, q, turns[k])
    BY <1>2, <2>1, Zenon DEF Counted
  <2> QED BY <1>1, <2>2
<1> QED BY <1>1, <1>2

\* What is no envelope does not come again.
LEMMA OnlyEnvelopes ==
    ASSUME NEW s, NEW m, IsSeq(s), m.type # "assistant", NEW env, NEW p, NEW turns, NEW k
    PROVE  Repeatable(Append(s, m), env, p, turns, k) /\ BySubagent(Append(s, m))
  BY OneMore DEF Repeatable, BySubagent

\* A frame arrives or is lost.
LEMMA FrameKeepsNames ==
    ASSUME NamesKept, Places', NEW a \in Agents, NEW raw, NEW index, NEW kind, NEW text,
           Frame(a, raw, index, kind, text), Calm, a \in script.streamed,
           \A b \in Agents \ {a} : at'[b] = at[b],
           raw \in {"message_start", "content_block_start", "content_block_delta",
                    "content_block_stop", "message_stop"},
           raw = "message_start" => at[a].closed /\ at'[a].n = at[a].n + 1 /\ at'[a].sent = 0,
           raw # "message_start" => at'[a].n = at[a].n /\ at'[a].sent = at[a].sent,
           raw # "message_stop" => ~ at'[a].closed,
           raw \in {"content_block_start", "content_block_delta"} => kind \in {"text", "thinking", "tool"},
           raw = "content_block_delta" =>
               IsSeq(text) /\ Range(text) \subseteq Range(Said(a)[at'[a].n][index + 1].text)
    PROVE  NamesKept'
<1> DEFINE m == [type |-> "stream", raw |-> raw, parent |-> a, uuid |-> <<"frame", count.frame>>,
                 message |-> <<a, at'[a].n>>, index |-> index, kind |-> kind, text |-> text]
           t == Script[turn]
<1> SUFFICES ASSUME count'.lost <= 1 PROVE Names'
  BY DEF NamesKept
<1>1. /\ script' = script /\ turn' = turn /\ Script' = Script
      /\ main' = main /\ subs' = subs
  BY DEF Calm, kept, Script
<1>2. count.frame \in Nat /\ count.lost \in Nat /\ count \in Counts /\ count'.lost \in Nat
  BY DEF NamesKept, Places, Counts
<1>3. \/ Deliver(m) /\ count' = [count EXCEPT !.frame = @ + 1]
      \/ live' = live /\ count' = [count EXCEPT !.frame = @ + 1, !.lost = @ + 1]
  BY DEF Frame
<1>4. /\ count'.frame = count.frame + 1 /\ count'.packet = count.packet /\ count'.lost >= count.lost
      /\ \/ Deliver(m) /\ count'.lost = count.lost
         \/ adapter' = adapter /\ events' = events /\ count'.lost = count.lost + 1
  <2> HIDE DEF m
  <2>1. DOMAIN count = {"frame", "packet", "lost", "repeats", "untold", "foreign"}
    BY <1>2 DEF Counts
  <2>2. CASE Deliver(m) /\ count' = [count EXCEPT !.frame = @ + 1]
    BY <1>2, <2>1, <2>2
  <2>3. CASE live' = live /\ count' = [count EXCEPT !.frame = @ + 1, !.lost = @ + 1]
    BY <1>2, <2>1, <2>3 DEF live
  <2> QED BY <1>3, <2>2, <2>3
<1>5. Names
  BY <1>2, <1>4 DEF NamesKept
<1>6. /\ Frames' = Frames \cup {<<"frame", count.frame>>} /\ <<"frame", count.frame>> \notin Frames
      /\ AreFrames(Frames)
  BY <1>4, NextFrame DEF NamesKept
<1>7. Streaming(adapter, at, Frames, t) /\ EventNames
  BY <1>5 DEF Names, StreamNames
<1>8. at[a].n \in Nat /\ \A b \in Agents : at[b].n \in Nat /\ at'[b].n \in Nat
  BY Zenon DEF NamesKept, Places, PlaceOK, Place
<1>9. StreamNames' /\ EventNames' /\ adapter'.envelopes = adapter.envelopes
  <2>1. CASE Deliver(m) /\ count'.lost = count.lost
    <3> DEFINE r == AdaptStream(adapter, m)
    <3>1. adapter' = r.ad /\ events' = events \o r.events
      BY <2>1 DEF Deliver, Adapt
    <3>2. IsFrame(m, at, at', Frames)
      BY <1>6 DEF IsFrame
    <3>3. /\ m.raw \in {"message_start", "content_block_start", "content_block_delta",
                        "content_block_stop", "message_stop"}
          /\ m.raw \in {"content_block_start", "content_block_delta"} => m.kind \in {"text", "thinking", "tool"}
          /\ m.raw = "content_block_delta" => Showable(m, at', t, m.text)
          /\ m.parent = a /\ m.raw = raw /\ m.uuid = <<"frame", count.frame>>
      BY DEF Showable, Said
    <3> HIDE DEF m, t
    <3>4. /\ Streaming(r.ad, at', Frames', t) /\ r.ad.envelopes = adapter.envelopes
          /\ DOMAIN r.ad.streams \subseteq DOMAIN adapter.streams \cup {m.parent}
          /\ m.raw = "message_stop" => m.parent \notin DOMAIN r.ad.streams
          /\ IsSeq(r.events) /\ \A e \in Range(r.events) : NamesIn(t, e)
      <4>1. Frames' = Frames \cup {m.uuid}
        BY <1>6, <3>3
      <4>2. at'[m.parent].n \in Nat
        BY <1>8, <3>2 DEF IsFrame
      <4> QED BY <1>6, <1>7, <3>2, <3>3, <4>1, <4>2, FrameArrives, Zenon
    <3> HIDE DEF r
    <3>5. IsSeq(events') /\ Range(events') = Range(events) \cup Range(r.events)
      BY <1>7, <3>1, <3>4, Joined DEF EventNames
    <3>6. EventNames'
      BY <1>1, <1>7, <3>4, <3>5 DEF EventNames, t
    <3>7. ASSUME NEW b \in DOMAIN adapter'.streams
          PROVE  b \in script'.streamed /\ (at'[b].closed => count'.lost > 0)
      <4>1. CASE b = a
        BY <1>1, <3>1, <3>3, <3>4, <4>1
      <4>2. CASE b # a
        <5>1. b \in DOMAIN adapter.streams
          BY <3>1, <3>3, <3>4, <4>2
        <5>2. b \in Agents
          BY <1>7, <5>1 DEF Streaming, StreamsOK
        <5> QED BY <1>1, <1>5, <2>1, <4>2, <5>1, <5>2 DEF Names, StreamNames
      <4> QED BY <4>1, <4>2
    <3>8. StreamNames'
      BY <1>1, <3>1, <3>4, <3>7 DEF StreamNames, t
    <3> QED BY <3>1, <3>4, <3>6, <3>8
  <2>2. CASE adapter' = adapter /\ events' = events /\ count'.lost = count.lost + 1
    <3>1. count.lost = 0 /\ count'.lost > 0
      BY <1>2, <2>2
    <3>2. raw = "message_start" => a \notin DOMAIN adapter.streams
      BY <1>5, <3>1 DEF Names, StreamNames
    <3>3. \A b \in DOMAIN adapter.streams : b \in Agents /\ at'[b].n = at[b].n
      BY <1>7, <3>2 DEF Streaming, StreamsOK
    <3>4. StreamsOK(adapter, at', Frames')
      BY <1>6, <1>7, <3>3 DEF Streaming, StreamsOK
    <3>5. RepliesOK(adapter, at', Frames', t)
      <4> HIDE DEF t
      <4>1. \A k : Held(adapter, at, t, k) => Held(adapter, at', t, k)
        BY <3>3 DEF Held
      <4> QED BY <1>6, <1>7, <4>1 DEF Streaming, RepliesOK
    <3>6. Streaming(adapter', at', Frames', Script'[turn'])
      BY <1>1, <1>7, <2>2, <3>4, <3>5 DEF Streaming
    <3>7. StreamNames'
      BY <1>1, <1>5, <2>2, <3>1, <3>6 DEF Names, StreamNames
    <3>8. EventNames'
      BY <1>1, <1>7, <2>2 DEF EventNames
    <3> QED BY <2>2, <3>7, <3>8
  <2> QED BY <1>4, <2>1, <2>2
<1>10. EnvelopeNames'
  <2> DEFINE env == adapter.envelopes
  <2>1. EnvelopesOK(env, at, Packets) /\ MayRepeat(main) /\ MayRepeat(subs) /\ BySubagent(subs)
    BY <1>5 DEF Names, EnvelopeNames
  <2>2. Packets' = Packets
    BY <1>4 DEF Packets
  <2>3. at'[a].n >= at[a].n /\ \A b \in Agents : at'[b].n >= at[b].n
    BY <1>8
  <2>4. ASSUME NEW key \in DOMAIN env
        PROVE  /\ key[1] \in Agents /\ key[2][1] = key[1] /\ key[2][2] \in 1..at'[key[1]].n
               /\ env[key].next \in Nat /\ DOMAIN env[key].offsets \subseteq Packets'
    <3>1. /\ key[1] \in Agents /\ key[2][1] = key[1] /\ key[2][2] \in 1..at[key[1]].n
          /\ env[key].next \in Nat /\ DOMAIN env[key].offsets \subseteq Packets
      BY <2>1 DEF EnvelopesOK
    <3>2. at[key[1]].n \in Nat /\ at'[key[1]].n \in Nat /\ at'[key[1]].n >= at[key[1]].n
      BY <1>8, <2>3, <3>1
    <3> QED BY <2>2, <3>1, <3>2
  <2>5. ASSUME NEW b \in Agents
        PROVE  IF KeyOf(b, at'[b].n) \in DOMAIN env THEN env[KeyOf(b, at'[b].n)].next = at'[b].sent
               ELSE at'[b].sent = 0
    <3>1. CASE at'[b].n = at[b].n /\ at'[b].sent = at[b].sent
      BY <2>1, <3>1 DEF EnvelopesOK
    <3>2. CASE b = a /\ raw = "message_start"
      <4>1. KeyOf(a, at'[a].n)[1] = a /\ KeyOf(a, at'[a].n)[2][2] = at[a].n + 1
        BY <3>2 DEF KeyOf
      <4>2. KeyOf(a, at'[a].n) \notin DOMAIN env
        <5> SUFFICES ASSUME KeyOf(a, at'[a].n) \in DOMAIN env PROVE FALSE
          OBVIOUS
        <5>1. at[a].n + 1 \in 1..at[a].n
          BY <2>1, <4>1 DEF EnvelopesOK
        <5> QED BY <1>8, <5>1
      <4> QED BY <3>2, <4>2
    <3> QED BY <3>1, <3>2
  <2>6. EnvelopesOK(env, at', Packets')
    BY <2>4, <2>5 DEF EnvelopesOK
  <2>7. MayRepeat(main)' /\ MayRepeat(subs)' /\ BySubagent(subs)'
    BY <1>1, <1>8, <1>9, <2>1, <2>3, StaysRepeatable DEF MayRepeat
  <2> QED BY <1>1, <1>5, <1>9, <2>6, <2>7 DEF Names, EnvelopeNames
<1> QED BY <1>9, <1>10 DEF Names

\* Every step of a stream keeps the names.
LEMMA StreamKeepsNames ==
    ASSUME NamesKept, NEW a \in Agents,
           Begin(a) \/ OpenBlock(a) \/ Piece(a) \/ CloseBlock(a) \/ CloseMessage(a)
    PROVE  NamesKept'
<1>1. Places /\ Places'
  BY StreamPlaces DEF NamesKept
<1>2. /\ at[a] \in Place /\ DOMAIN at = Agents
      /\ at[a].n <= Len(Said(a)) /\ (at[a].n = 0 => at[a].closed)
      /\ at[a].open \in {0, at[a].done + 1}
      /\ at[a].open > 0 => a \in script.streamed /\ ~ at[a].closed
      /\ at[a].n > 0 => at[a].open <= Len(Said(a)[at[a].n])
      /\ Blocks(a) = Said(a)[at[a].n]
  BY <1>1 DEF Places, PlaceOK, Blocks
<1> DEFINE p == at[a]
<1>3. /\ DOMAIN p = {"n", "closed", "open", "piece", "done", "sent"}
      /\ p.n \in Nat /\ p.closed \in BOOLEAN /\ p.open \in Nat /\ p.done \in Nat /\ p.piece \in Nat
  BY <1>2 DEF Place
<1>4. /\ Len(Said(a)) \in Nat
      /\ \A n \in 1..Len(Said(a)) :
           /\ IsSeq(Said(a)[n]) /\ Len(Said(a)[n]) \in Nat
           /\ \A i \in 1..Len(Said(a)[n]) :
                Said(a)[n][i].kind \in {"text", "thinking", "tool"} /\ IsSeq(Said(a)[n][i].text)
  BY <1>1, SaidWell, Zenon
<1>5. ASSUME NEW to, Moves(a, to) PROVE at'[a] = to /\ \A b \in Agents \ {a} : at'[b] = at[b]
  BY <1>2, <1>5 DEF Moves
<1>6. CASE Begin(a)
  <2>1. /\ Moves(a, Begun(a)) /\ Frame(a, "message_start", 0, "none", <<>>) /\ Calm
        /\ a \in script.streamed /\ p.closed
    BY <1>6 DEF Begin, MayBegin
  <2>2. /\ Begun(a).n = p.n + 1 /\ Begun(a).closed = FALSE /\ Begun(a).sent = 0
    BY <1>3, BegunPlace, Zenon
  <2>3. at'[a] = Begun(a) /\ \A b \in Agents \ {a} : at'[b] = at[b]
    BY <1>5, <2>1
  <2> QED BY <1>1, <2>1, <2>2, <2>3, FrameKeepsNames
<1>7. CASE OpenBlock(a)
  <2> DEFINE to == [p EXCEPT !.open = p.done + 1, !.piece = 0]
             kind == Blocks(a)[p.done + 1].kind
  <2>1. /\ Moves(a, to) /\ Frame(a, "content_block_start", p.done, kind, <<>>) /\ Calm
        /\ a \in script.streamed /\ ~ p.closed /\ p.done < Len(Blocks(a))
    BY <1>7 DEF OpenBlock
  <2>2. at'[a] = to /\ \A b \in Agents \ {a} : at'[b] = at[b]
    BY <1>5, <2>1
  <2>3. to.n = p.n /\ to.closed = p.closed /\ to.sent = p.sent
    <3> HIDE DEF p
    <3> QED BY <1>3
  <2>4. kind \in {"text", "thinking", "tool"}
    <3>1. p.n \in 1..Len(Said(a))
      BY <1>2, <1>3, <1>4, <2>1
    <3>2. p.done + 1 \in 1..Len(Said(a)[p.n])
      BY <1>2, <1>3, <1>4, <2>1, <3>1
    <3> QED BY <1>2, <1>4, <3>1, <3>2
  <2> HIDE DEF to, kind
  <2> QED BY <1>1, <2>1, <2>2, <2>3, <2>4, FrameKeepsNames
<1>8. CASE Piece(a)
  <2> DEFINE to == [p EXCEPT !.piece = p.piece + 1]
             b == Blocks(a)[p.open]
             text == <<b.text[p.piece + 1]>>
  <2>1. /\ Moves(a, to) /\ Frame(a, "content_block_delta", p.done, b.kind, text) /\ Calm
        /\ p.open > 0 /\ p.piece < Len(b.text)
    BY <1>8 DEF Piece
  <2>2. at'[a] = to /\ \A c \in Agents \ {a} : at'[c] = at[c]
    BY <1>5, <2>1
  <2>3. to.n = p.n /\ to.closed = p.closed /\ to.sent = p.sent
    <3> HIDE DEF p
    <3> QED BY <1>3
  <2>4. /\ p.n \in 1..Len(Said(a)) /\ p.open \in 1..Len(Said(a)[p.n]) /\ p.open = p.done + 1
        /\ ~ p.closed /\ a \in script.streamed
    <3>1. p.open = p.done + 1 /\ ~ p.closed /\ a \in script.streamed
      <4>1. p.open \in {0, p.done + 1} /\ (p.open > 0 => a \in script.streamed /\ ~ p.closed)
        BY <1>2
      <4>2. p.open \in Nat /\ p.done \in Nat /\ p.open > 0
        BY <1>3, <2>1
      <4> HIDE DEF p
      <4> QED BY <4>1, <4>2
    <3>2. p.n > 0 /\ p.n <= Len(Said(a)) /\ p.open <= Len(Said(a)[p.n])
      BY <1>2, <1>3, <3>1
    <3>3. p.n \in 1..Len(Said(a)) /\ Len(Said(a)[p.n]) \in Nat
      BY <1>3, <1>4, <3>2
    <3> HIDE DEF p
    <3> QED BY <1>3, <2>1, <3>1, <3>2, <3>3
  <2>5. b = Said(a)[p.n][p.done + 1] /\ b.kind \in {"text", "thinking", "tool"} /\ IsSeq(b.text)
    BY <1>2, <1>4, <2>4
  <2>6. b.text[p.piece + 1] \in Range(b.text)
    <3>1. p.piece + 1 \in 1..Len(b.text)
      <4>1. Len(b.text) \in Nat
        BY <2>5, Elements
      <4> HIDE DEF b, p
      <4> QED BY <1>3, <2>1, <4>1
    <3> HIDE DEF b, p
    <3> QED BY <2>5, <3>1, Elements
  <2>7. IsSeq(text) /\ Range(text) \subseteq Range(b.text)
    BY <2>6, OneElement
  <2> HIDE DEF to, b, text
  <2>8. Range(text) \subseteq Range(Said(a)[at'[a].n][p.done + 1].text)
    BY <2>2, <2>3, <2>5, <2>7
  <2> QED BY <1>1, <2>1, <2>2, <2>3, <2>4, <2>5, <2>7, <2>8, FrameKeepsNames, Zenon
<1>9. CASE CloseBlock(a)
  <2> DEFINE to == [p EXCEPT !.open = 0, !.done = p.done + 1]
  <2>1. /\ Moves(a, to) /\ Frame(a, "content_block_stop", p.done, "none", <<>>) /\ Calm /\ p.open > 0
    BY <1>9 DEF CloseBlock
  <2>2. at'[a] = to /\ \A b \in Agents \ {a} : at'[b] = at[b]
    BY <1>5, <2>1
  <2>3. to.n = p.n /\ to.closed = p.closed /\ to.sent = p.sent
    <3> HIDE DEF p
    <3> QED BY <1>3
  <2>4. ~ p.closed /\ a \in script.streamed
    BY <1>2, <2>1
  <2> HIDE DEF to
  <2> QED BY <1>1, <2>1, <2>2, <2>3, <2>4, FrameKeepsNames
<1>10. CASE CloseMessage(a)
  <2> DEFINE to == [p EXCEPT !.closed = TRUE]
  <2>1. /\ Moves(a, to) /\ Frame(a, "message_stop", 0, "none", <<>>) /\ Calm /\ a \in script.streamed
    BY <1>10 DEF CloseMessage
  <2>2. at'[a] = to /\ \A b \in Agents \ {a} : at'[b] = at[b]
    BY <1>5, <2>1
  <2>3. to.n = p.n /\ to.sent = p.sent
    <3> HIDE DEF p
    <3> QED BY <1>3
  <2> HIDE DEF to
  <2> QED BY <1>1, <2>1, <2>2, <2>3, FrameKeepsNames
<1> QED BY <1>6, <1>7, <1>8, <1>9, <1>10

\* A message without blocks, and what is written down but no envelope, change no name.
LEMMA QuietKeepsNames ==
    ASSUME NamesKept, Places', script' = script, turn' = turn, at' = at,
           count'.frame = count.frame, count'.packet = count.packet, count'.lost = count.lost,
           \/ UNCHANGED live
           \/ \E m : Deliver(m) /\ (m.type = "task" \/ (m.type = "user" /\ IsSeq(m.content))),
           \/ \E a, m : m.type = "user" /\ WriteDown(a, m)
           \/ main' = main /\ subs' = subs
    PROVE  NamesKept'
<1> SUFFICES ASSUME count'.lost <= 1 PROVE Names'
  BY DEF NamesKept
<1>1. Names /\ Script' = Script /\ Frames' = Frames /\ Packets' = Packets
  BY DEF NamesKept, Script, Frames, Packets
<1>2. IsAdapter(adapter) /\ IsSeq(events)
  BY <1>1 DEF Names, StreamNames, Streaming, EventNames
<1>3. /\ SameNames(adapter, adapter') /\ IsSeq(events')
      /\ \A e \in Range(events') : e \in Range(events) \/ Tame(e)
  <2>1. CASE UNCHANGED live
    BY <1>2, <2>1 DEF live, SameNames
  <2>2. CASE \E m : Deliver(m) /\ (m.type = "task" \/ (m.type = "user" /\ IsSeq(m.content)))
    <3>1. PICK m : Deliver(m) /\ (m.type = "task" \/ (m.type = "user" /\ IsSeq(m.content)))
      BY <2>2
    <3> DEFINE r == Adapt(adapter, m)
    <3>2. adapter' = r.ad /\ events' = events \o r.events
      BY <3>1 DEF Deliver
    <3>3. SameNames(adapter, r.ad) /\ IsSeq(r.events) /\ \A e \in Range(r.events) : Tame(e)
      BY <1>2, <3>1, UserKeepsNames, TaskKeepsNames
    <3> HIDE DEF r
    <3>4. IsSeq(events') /\ Range(events') = Range(events) \cup Range(r.events)
      BY <1>2, <3>2, <3>3, Joined
    <3> QED BY <3>2, <3>3, <3>4
  <2> QED BY <2>1, <2>2
<1>4. StreamNames'
  <2>1. Streaming(adapter', at, Frames, Script[turn])
    <3>1. Streaming(adapter, at, Frames, Script[turn])
      BY <1>1 DEF Names, StreamNames
    <3> QED BY <1>3, <3>1, StreamsGoOn DEF SameNames
  <2>2. \A a \in DOMAIN adapter'.streams : a \in script.streamed /\ (at[a].closed => count.lost > 0)
    BY <1>1, <1>3 DEF SameNames, Names, StreamNames
  <2> QED BY <1>1, <2>1, <2>2 DEF StreamNames
<1>5. EventNames'
  <2>1. \A e : Tame(e) => NamesIn(Script[turn], e)
    BY Zenon DEF Tame, NamesIn
  <2> QED BY <1>1, <1>3, <2>1, Zenon DEF Names, EventNames
<1>6. EnvelopeNames'
  <2>0. adapter'.envelopes = adapter.envelopes
    BY <1>3 DEF SameNames
  <2>1. EnvelopesOK(adapter'.envelopes, at', Packets')
    BY <1>1, <2>0 DEF Names, EnvelopeNames
  <2>2. MayRepeat(main)' /\ MayRepeat(subs)' /\ BySubagent(subs)'
    <3>1. /\ Repeatable(main, adapter'.envelopes, at', Script', turn')
          /\ Repeatable(subs, adapter'.envelopes, at', Script', turn') /\ BySubagent(subs)
      BY <1>1, <2>0 DEF Names, EnvelopeNames, MayRepeat
    <3>2. CASE main' = main /\ subs' = subs
      BY <3>1, <3>2 DEF MayRepeat
    <3>3. CASE \E a, m : m.type = "user" /\ WriteDown(a, m)
      <4>1. PICK a, m : m.type = "user" /\ WriteDown(a, m)
        BY <3>3
      <4>2. IsSeq(main) /\ IsSeq(subs)
        BY DEF NamesKept, Places
      <4>3. CASE main' = Append(main, m) /\ subs' = subs
        BY <3>1, <4>1, <4>2, <4>3, OnlyEnvelopes DEF MayRepeat
      <4>4. CASE subs' = Append(subs, m) /\ main' = main
        BY <3>1, <4>1, <4>2, <4>4, OnlyEnvelopes DEF MayRepeat
      <4> QED BY <4>1, <4>3, <4>4 DEF WriteDown
    <3> QED BY <3>2, <3>3
  <2> QED BY <2>1, <2>2 DEF EnvelopeNames
<1> QED BY <1>4, <1>5, <1>6 DEF Names

\* What is known of the message that agent a is at.
KnownAt(env, a, q) == Get(env, KeyOf(a, q[a].n), [next |-> 0, offsets |-> <<>>, texts |-> <<>>])

\* new are the envelopes after one with the name uuid, of the message that
\* agent a is at, was counted at its offset.
CountsIt(env, p, q, ps, a, uuid, offset, new) ==
    /\ EnvelopesOK(env, p, ps) /\ a \in Agents
    /\ \A b \in Agents : p[b].n \in Nat /\ q[b].n \in Nat /\ q[b].n >= p[b].n
    /\ \A b \in Agents \ {a} : q[b].n = p[b].n /\ q[b].sent = p[b].sent
    /\ q[a].n > 0 /\ q[a].sent \in Nat
    /\ uuid \in DOMAIN KnownAt(env, a, q).offsets => KnownAt(env, a, q).offsets[uuid] = offset
    /\ \E texts : new = Put(env, KeyOf(a, q[a].n),
                           [next |-> q[a].sent, texts |-> texts,
                            offsets |-> Put(KnownAt(env, a, q).offsets, uuid, offset)])

\* It leaves the others counted.
IsCounted(env, p, q, ps, a, uuid, offset, new) ==
    /\ EnvelopesOK(new, q, ps \cup {uuid})
    /\ DOMAIN KnownAt(env, a, q).offsets \subseteq ps
    /\ KeyOf(a, q[a].n) \in DOMAIN new
    /\ new[KeyOf(a, q[a].n)].offsets = Put(KnownAt(env, a, q).offsets, uuid, offset)
    /\ \A all, turns, k : Repeatable(all, env, p, turns, k) => Repeatable(all, new, q, turns, k)

\* An envelope that is counted where its agent is leaves the others as they were.
LEMMA EnvelopeCounts ==
    ASSUME NEW env, NEW p, NEW q, NEW ps, NEW a, NEW uuid, NEW offset, NEW new,
           CountsIt(env, p, q, ps, a, uuid, offset, new)
    PROVE  IsCounted(env, p, q, ps, a, uuid, offset, new)
<1> DEFINE known == KnownAt(env, a, q)
<1>0. PICK texts :
        /\ EnvelopesOK(env, p, ps) /\ a \in Agents
        /\ \A b \in Agents : p[b].n \in Nat /\ q[b].n \in Nat /\ q[b].n >= p[b].n
        /\ \A b \in Agents \ {a} : q[b].n = p[b].n /\ q[b].sent = p[b].sent
        /\ q[a].n > 0 /\ q[a].sent \in Nat
        /\ known = Get(env, KeyOf(a, q[a].n), [next |-> 0, offsets |-> <<>>, texts |-> <<>>])
        /\ uuid \in DOMAIN known.offsets => known.offsets[uuid] = offset
        /\ new = Put(env, KeyOf(a, q[a].n),
                     [next |-> q[a].sent, texts |-> texts, offsets |-> Put(known.offsets, uuid, offset)])
  BY Zenon DEF CountsIt, KnownAt
<1> HIDE DEF known
<1> USE <1>0
<1> DEFINE key == KeyOf(a, q[a].n)
           entry == [next |-> q[a].sent, texts |-> texts, offsets |-> Put(known.offsets, uuid, offset)]
<1>1. /\ DOMAIN new = DOMAIN env \cup {key} /\ new[key] = entry
      /\ \A j \in DOMAIN env \ {key} : new[j] = env[j]
  BY DEF Put
<1>2. key[1] = a /\ key[2][1] = a /\ key[2][2] = q[a].n
  BY DEF KeyOf
<1>3. /\ DOMAIN known.offsets \subseteq ps
      /\ key \in DOMAIN env => known = env[key]
  <2> HIDE DEF key
  <2>1. CASE key \in DOMAIN env
    BY <2>1 DEF Get, EnvelopesOK, key
  <2>2. CASE key \notin DOMAIN env
    <3>1. known.offsets = <<>>
      BY <2>2 DEF Get, key
    <3> QED BY <2>2, <3>1
  <2> QED BY <2>1, <2>2
<1>4. /\ DOMAIN Put(known.offsets, uuid, offset) = DOMAIN known.offsets \cup {uuid}
      /\ \A u \in DOMAIN known.offsets : Put(known.offsets, uuid, offset)[u] = known.offsets[u]
  BY DEF Put
<1>5. entry.next = q[a].sent /\ entry.offsets = Put(known.offsets, uuid, offset)
  OBVIOUS
<1> HIDE DEF key, entry
<1>6. ASSUME NEW j \in DOMAIN new
      PROVE  /\ j[1] \in Agents /\ j[2][1] = j[1] /\ j[2][2] \in 1..q[j[1]].n
             /\ new[j].next \in Nat /\ DOMAIN new[j].offsets \subseteq ps \cup {uuid}
  <2>1. CASE j = key
    <3>1. a \in Agents /\ q[a].n \in Nat /\ q[a].n > 0
      BY <1>0
    <3>2. new[j].next = q[a].sent /\ new[j].offsets = Put(known.offsets, uuid, offset)
      BY <1>1, <1>5, <2>1
    <3>3. j[1] = a /\ j[2][1] = a /\ j[2][2] \in 1..q[a].n
      BY <1>2, <2>1, <3>1
    <3> QED BY <1>0, <1>3, <1>4, <3>1, <3>2, <3>3
  <2>2. CASE j # key
    <3>1. /\ j \in DOMAIN env /\ new[j] = env[j]
          /\ j[1] \in Agents /\ j[2][1] = j[1] /\ j[2][2] \in 1..p[j[1]].n
          /\ env[j].next \in Nat /\ DOMAIN env[j].offsets \subseteq ps
      BY <1>1, <2>2 DEF EnvelopesOK
    <3>2. p[j[1]].n \in Nat /\ q[j[1]].n \in Nat /\ q[j[1]].n >= p[j[1]].n
      BY <3>1
    <3>3. j[2][2] \in 1..q[j[1]].n
      BY <3>1, <3>2
    <3> QED BY <3>1, <3>3
  <2> QED BY <2>1, <2>2
<1>7. ASSUME NEW b \in Agents
      PROVE  IF KeyOf(b, q[b].n) \in DOMAIN new THEN new[KeyOf(b, q[b].n)].next = q[b].sent
             ELSE q[b].sent = 0
  <2>1. CASE b = a
    BY <1>1, <1>5, <2>1 DEF key
  <2>2. CASE b # a
    <3>1. q[b].n = p[b].n /\ q[b].sent = p[b].sent
      BY <2>2
    <3>2. KeyOf(b, q[b].n)[1] = b
      BY DEF KeyOf
    <3>3. KeyOf(b, q[b].n) # key
      BY <1>2, <2>2, <3>2
    <3>4. IF KeyOf(b, q[b].n) \in DOMAIN env THEN env[KeyOf(b, q[b].n)].next = q[b].sent
          ELSE q[b].sent = 0
      BY <3>1 DEF EnvelopesOK
    <3> QED BY <1>1, <3>3, <3>4
  <2> QED BY <2>1, <2>2
<1>8. EnvelopesOK(new, q, ps \cup {uuid})
  BY <1>6, <1>7 DEF EnvelopesOK
<1>9. ASSUME NEW all, NEW turns, NEW k, Repeatable(all, env, p, turns, k)
      PROVE  Repeatable(all, new, q, turns, k)
  <2>1. Repeatable(all, env, q, turns, k)
    BY <1>9, StaysRepeatable, Zenon
  <2>2. ASSUME NEW m, Counted(m, env, q, turns[k]) PROVE Counted(m, new, q, turns[k])
    <3> DEFINE j == <<m.parent, m.message>>
    <3>1. /\ j \in DOMAIN env /\ m.uuid \in DOMAIN env[j].offsets
      BY <2>2, Zenon DEF Counted
    <3>2. /\ j \in DOMAIN new /\ m.uuid \in DOMAIN new[j].offsets
          /\ new[j].offsets[m.uuid] = env[j].offsets[m.uuid]
      <4>1. CASE j = key
        <5>1. known.offsets = env[j].offsets /\ new[j].offsets = Put(known.offsets, uuid, offset)
          BY <1>1, <1>3, <1>5, <3>1, <4>1
        <5> QED BY <1>1, <1>4, <3>1, <4>1, <5>1
      <4>2. CASE j # key
        BY <1>1, <3>1, <4>2
      <4> QED BY <4>1, <4>2
    <3> QED BY <2>2, <3>2, Zenon DEF Counted
  <2> QED BY <2>1, <2>2 DEF Repeatable
<1> QED BY <1>1, <1>3, <1>5, <1>8, <1>9 DEF key, known, IsCounted

\* The envelope m was cut from what its agent says in a turn, behind offset
\* blocks; then its events have the right names.
CutFrom(m, t, offset) ==
    /\ offset \in Nat /\ m.message = <<m.parent, m.message[2]>> /\ IsSeq(m.content)
    /\ \A i \in DOMAIN m.content : m.content[i] = t[m.parent][m.message[2]][offset + i]

LEMMA EnvelopeNamesBlocks ==
    ASSUME NEW m, NEW t, NEW offset, NEW e, CutFrom(m, t, offset), ShownAt(m, offset, e)
    PROVE  NamesIn(t, e)
<1> DEFINE n == m.message[2]
<1>1. CASE Tame(e)
  BY <1>1, Zenon DEF Tame, NamesIn
<1>2. CASE ~ Tame(e)
  <2>1. PICK i \in DOMAIN m.content :
                /\ e.parent = m.parent /\ "stream" \notin DOMAIN e.data
                /\ e.data.block = <<m.message, offset + i - 1>> /\ e.data.text = m.content[i].text
    BY <1>2 DEF ShownAt
  <2>2. i \in Nat /\ (offset + i - 1) + 1 = offset + i
    BY Elements DEF CutFrom
  <2>3. m.message = <<m.parent, n>> /\ m.content[i] = t[m.parent][n][offset + i]
    BY DEF CutFrom
  <2> HIDE DEF n
  <2>4. e.data.block[1] = m.message /\ e.data.block[2] + 1 = offset + i
    BY <2>1, <2>2
  <2>5. e.data.block[1][1] = m.parent /\ e.data.block[1][2] = n
    BY <2>3, <2>4
  <2> QED BY <2>1, <2>3, <2>4, <2>5 DEF NamesIn
<1> QED BY <1>1, <1>2, Zenon

\* An envelope is cut from what its agent says, behind the blocks that were sent.
LEMMA SentIs ==
    ASSUME Places, NEW a \in Agents, NEW to \in 1..MaxBlocks, SendEnvelope(a, to)
    PROVE  LET m == Sent(a, to)
               now == Now(a)
               t == Script[turn]
           IN  /\ m.type = "assistant" /\ m.parent = a /\ m.uuid = <<"packet", count.packet>>
               /\ m.message = <<a, now.n>>
               /\ IsSeq(m.content) /\ Len(m.content) = to - now.sent /\ DOMAIN m.content = 1..(to - now.sent)
               /\ \A i \in DOMAIN m.content : m.content[i] = t[a][now.n][now.sent + i]
               /\ \A i \in DOMAIN m.content : m.content[i].kind \in {"text", "thinking", "tool"}
<1> DEFINE now == Now(a)
           m   == Sent(a, to)
           bs  == Said(a)[now.n]
           c   == m.content
<1>1. ~ now.closed
  BY SendIs, Zenon
<1>2. to \in Nat /\ to > now.sent /\ to <= Len(Said(a)[now.n])
  BY SendPlaces
<1>3. now \in Place /\ now.n \in 1..Len(Said(a))
  BY <1>1, NowPlace
<1>4. now.sent \in Nat
  <2> HIDE DEF now
  <2> QED BY <1>3 DEF Place
<1>5. /\ m.type = "assistant" /\ m.parent = a /\ m.uuid = <<"packet", count.packet>>
      /\ m.message = <<a, now.n>> /\ c = SubSeq(bs, now.sent + 1, to)
  BY Zenon DEF Sent, Envelope
<1>6. /\ IsSeq(bs) /\ Len(bs) \in Nat
      /\ \A i \in 1..Len(bs) : bs[i].kind \in {"text", "thinking", "tool"}
  <2> HIDE DEF now
  <2> QED BY <1>3, SaidWell, Zenon
<1> HIDE DEF m, now, bs, c
<1>7. \A i \in (now.sent + 1)..to : bs[i] \in Range(bs)
  BY <1>2, <1>4, <1>6, Elements DEF bs
<1>8. now.sent + 1 \in Int /\ to \in Int /\ now.sent + 1 <= to
  BY <1>2, <1>4
<1>9. /\ c \in Seq(Range(bs)) /\ Len(c) = to - (now.sent + 1) + 1
      /\ \A i \in 1..(to - (now.sent + 1) + 1) : c[i] = bs[now.sent + 1 + i - 1]
  BY <1>5, <1>7, <1>8, SubSeqProperties
<1>10. to - (now.sent + 1) + 1 = to - now.sent /\ to - now.sent \in Nat
  BY <1>2, <1>4
<1>11. IsSeq(c) /\ Len(c) = to - now.sent /\ DOMAIN c = 1..(to - now.sent)
  BY <1>9, <1>10, SequenceOf, Elements
<1>12. ASSUME NEW i \in 1..(to - now.sent)
       PROVE  c[i] = bs[now.sent + i] /\ now.sent + i \in 1..Len(bs)
  <2>1. now.sent + 1 + i - 1 = now.sent + i /\ now.sent + i \in 1..Len(bs)
    BY <1>2, <1>4, <1>6 DEF bs
  <2> QED BY <1>9, <1>10, <2>1
<1>13. bs = Script[turn][a][now.n]
  BY DEF bs, Said
<1> QED BY <1>5, <1>6, <1>11, <1>12, <1>13, Zenon DEF c, m, now

\* A new envelope continues the blocks of its message.
LEMMA SendKeepsNames ==
    ASSUME NamesKept, NEW a \in Agents, NEW to \in 1..MaxBlocks, SendEnvelope(a, to)
    PROVE  NamesKept'
<1> DEFINE now == Now(a)
           m   == Sent(a, to)
           t   == Script[turn]
           env == adapter.envelopes
           known == EnvelopeKnown(adapter, m)
           offset == Offset(known, m)
           r   == Adapt(adapter, m)
<1>1. Places /\ Places'
  BY SendPlaces DEF NamesKept
<1> SUFFICES ASSUME count'.lost <= 1 PROVE Names'
  BY <1>1 DEF NamesKept
<1>2. /\ ~ now.closed /\ Deliver(m) /\ WriteDown(a, m)
      /\ count' = [count EXCEPT !.packet = @ + 1] /\ script' = script /\ turn' = turn
  BY SendIs, Zenon
<1>3. /\ at'[a].n = now.n /\ at'[a].sent = to /\ \A b \in Agents \ {a} : at'[b] = at[b]
      /\ to \in Nat /\ to > now.sent /\ to <= Len(Said(a)[now.n])
      /\ a \in script.streamed => ~ at'[a].closed
  BY <1>1, SendPlaces
<1>4. /\ now \in Place /\ now.n \in 1..Len(Said(a))
      /\ now = at[a] \/ (now.n = at[a].n + 1 /\ now.sent = 0 /\ at[a].closed)
  BY <1>1, <1>2, NowPlace
<1>5. now.sent \in Nat /\ now.n \in Nat \ {0}
  <2> HIDE DEF now
  <2>1. Len(Said(a)) \in Nat
    BY <1>1, SaidWell
  <2> QED BY <1>4, <2>1 DEF Place
<1>6. /\ count'.packet = count.packet + 1 /\ count'.frame = count.frame /\ count'.lost = count.lost
  BY <1>1, <1>2 DEF Places, Counts
<1>7. /\ Names /\ Script' = Script /\ Frames' = Frames
      /\ Packets' = Packets \cup {<<"packet", count.packet>>} /\ <<"packet", count.packet>> \notin Packets
  BY <1>1, <1>2, <1>6, NextPacket DEF NamesKept, Script, Frames
<1>8. EnvelopesOK(env, at, Packets) /\ IsAdapter(adapter) /\ IsSeq(events) /\ IsSeq(main) /\ IsSeq(subs)
  BY <1>1, <1>7 DEF Names, EnvelopeNames, StreamNames, Streaming, EventNames, Places
<1>9. \A b \in Agents : at[b].n \in Nat /\ at'[b].n \in Nat /\ at'[b].n >= at[b].n
  <2>1. \A b \in Agents : at[b].n \in Nat /\ at'[b].n \in Nat
    BY <1>1 DEF Places, PlaceOK, Place
  <2>2. at'[a].n >= at[a].n
    BY <1>3, <1>4, <2>1
  <2>3. \A b \in Agents \ {a} : at'[b].n >= at[b].n
    BY <1>3, <2>1
  <2> QED BY <2>1, <2>2, <2>3
\* the envelope
<1>10. /\ m.type = "assistant" /\ m.parent = a /\ m.uuid = <<"packet", count.packet>>
       /\ m.message = <<a, now.n>>
       /\ IsSeq(m.content) /\ Len(m.content) = to - now.sent /\ DOMAIN m.content = 1..(to - now.sent)
       /\ \A i \in DOMAIN m.content : m.content[i] = t[a][now.n][now.sent + i]
       /\ \A i \in DOMAIN m.content : m.content[i].kind \in {"text", "thinking", "tool"}
  BY <1>1, SentIs, Zenon
<1>11. IsSeq(m.content) /\ Len(m.content) = to - now.sent
  BY <1>10
<1> HIDE DEF m, now, t
<1>12. /\ known = Get(env, KeyOf(a, at'[a].n), [next |-> 0, offsets |-> <<>>, texts |-> <<>>])
       /\ known = KnownAt(env, a, at')
  BY <1>3, <1>10 DEF EnvelopeKnown, KeyOf, KnownAt
<1>13. known.next = now.sent /\ DOMAIN known.offsets \subseteq Packets
  <2> DEFINE key == KeyOf(a, now.n)
  <2>1. known = Get(env, key, [next |-> 0, offsets |-> <<>>, texts |-> <<>>])
    BY <1>3, <1>12
  <2>2. key \in DOMAIN env => now.n = at[a].n
    <3> SUFFICES ASSUME key \in DOMAIN env, now.n = at[a].n + 1 PROVE FALSE
      BY <1>4
    <3>1. key[1] = a /\ key[2][2] = now.n
      BY DEF KeyOf
    <3>2. now.n \in 1..at[a].n
      BY <1>8, <3>1 DEF EnvelopesOK
    <3> QED BY <1>9, <3>2
  <2> HIDE DEF known, key, env
  <2>3. CASE key \in DOMAIN env
    <3>1. known = env[key]
      BY <2>1, <2>3 DEF Get
    <3>2. now.sent = at[a].sent
      BY <1>4, <1>9, <2>2, <2>3
    <3>3. env[key].next = at[a].sent
      BY <1>8, <2>2, <2>3 DEF EnvelopesOK, key
    <3>4. DOMAIN env[key].offsets \subseteq Packets
      BY <1>8, <2>3 DEF EnvelopesOK
    <3> QED BY <3>1, <3>2, <3>3, <3>4
  <2>4. CASE key \notin DOMAIN env
    <3>1. known = [next |-> 0, offsets |-> <<>>, texts |-> <<>>]
      BY <2>1, <2>4 DEF Get
    <3>2. known.next = 0 /\ DOMAIN known.offsets = {}
      BY <3>1
    <3>3. now.sent = 0
      BY <1>4, <1>8, <2>4 DEF EnvelopesOK, key
    <3> QED BY <3>2, <3>3
  <2> QED BY <2>3, <2>4
<1>14. m.uuid \notin DOMAIN known.offsets /\ offset = now.sent
  <2>1. m.uuid \notin DOMAIN known.offsets
    BY <1>7, <1>10, <1>13
  <2> QED BY <1>13, <2>1 DEF Offset, Get
<1> HIDE DEF known, offset
<1>15. adapter' = r.ad /\ events' = events \o r.events
  BY <1>2 DEF Deliver
<1>16. PICK texts :
         /\ IsAdapter(r.ad) /\ r.ad.streams = adapter.streams
         /\ r.ad.blocks = adapter.blocks /\ r.ad.replies = adapter.replies
         /\ r.ad.envelopes = Put(adapter.envelopes, <<m.parent, m.message>>,
               [next    |-> IF m.uuid \in DOMAIN known.offsets THEN known.next
                            ELSE known.next + Len(m.content),
                offsets |-> Put(known.offsets, m.uuid, offset),
                texts   |-> texts])
         /\ IsSeq(r.events)
         /\ \A e \in Range(r.events) : ShownAt(m, offset, e)
  <2>1. known = EnvelopeKnown(adapter, m) /\ offset = Offset(known, m)
    BY DEF known, offset
  <2>2. IsSeq(m.content) /\ \A i \in DOMAIN m.content : m.content[i].kind \in {"text", "thinking", "tool"}
    BY <1>10
  <2>3. IsAdapter(adapter) /\ m.type = "assistant"
    BY <1>8, <1>10
  <2>4. EnvelopeArrived(adapter, m)
    BY <2>2, <2>3, EnvelopeArrives
  <2> QED BY <2>1, <2>4, Zenon DEF EnvelopeArrived
<1> HIDE DEF r
<1>17. adapter'.envelopes = Put(env, KeyOf(a, at'[a].n),
          [next |-> at'[a].sent, texts |-> texts, offsets |-> Put(known.offsets, m.uuid, offset)])
  <2>1. <<m.parent, m.message>> = KeyOf(a, at'[a].n)
    BY <1>3, <1>10 DEF KeyOf
  <2>2. known.next + Len(m.content) = at'[a].sent
    BY <1>3, <1>5, <1>11, <1>13
  <2> QED BY <1>14, <1>15, <1>16, <2>1, <2>2, Zenon
<1>18. /\ EnvelopesOK(adapter'.envelopes, at', Packets')
       /\ KeyOf(a, at'[a].n) \in DOMAIN adapter'.envelopes
       /\ adapter'.envelopes[KeyOf(a, at'[a].n)].offsets = Put(known.offsets, m.uuid, offset)
       /\ \A all, turns, k : Repeatable(all, env, at, turns, k) =>
                             Repeatable(all, adapter'.envelopes, at', turns, k)
  <2>1. \A b \in Agents \ {a} : at'[b].n = at[b].n /\ at'[b].sent = at[b].sent
    BY <1>3
  <2>2. at'[a].n > 0 /\ at'[a].sent \in Nat
    BY <1>3, <1>5
  <2>3. Packets' = Packets \cup {m.uuid}
    BY <1>7, <1>10
  <2> HIDE DEF env
  <2>4. CountsIt(env, at, at', Packets, a, m.uuid, offset, adapter'.envelopes)
    BY <1>8, <1>9, <1>12, <1>14, <1>17, <2>1, <2>2, Zenon DEF CountsIt
  <2>5. IsCounted(env, at, at', Packets, a, m.uuid, offset, adapter'.envelopes)
    BY <2>4, EnvelopeCounts
  <2> QED BY <1>12, <2>3, <2>5 DEF IsCounted
<1>19. EnvelopeNames'
  <2>1. /\ Repeatable(main, adapter'.envelopes, at', Script', turn')
        /\ Repeatable(subs, adapter'.envelopes, at', Script', turn') /\ BySubagent(subs)
    BY <1>2, <1>7, <1>18 DEF Names, EnvelopeNames, MayRepeat
  <2>2. Counted(m, adapter'.envelopes, at', t)
    <3> DEFINE offsets == Put(known.offsets, m.uuid, offset)
    <3>1. m.uuid \in DOMAIN offsets /\ offsets[m.uuid] = now.sent
      BY <1>14 DEF Put
    <3> HIDE DEF offsets
    <3>2. <<m.parent, m.message>> = KeyOf(a, at'[a].n) /\ m.message[2] = now.n
      BY <1>3, <1>10 DEF KeyOf
    <3>3. adapter'.envelopes[<<m.parent, m.message>>].offsets = offsets
      BY <1>18, <3>2 DEF offsets
    <3>4. now.sent + Len(m.content) <= Len(t[a][now.n])
      BY <1>3, <1>5, <1>11 DEF t, Said
    <3>5. m.message[2] <= at'[m.parent].n /\ <<m.parent, m.message>> \in DOMAIN adapter'.envelopes
      <4>1. <<m.parent, m.message>> \in DOMAIN adapter'.envelopes
        BY <1>18, <3>2
      <4>2. m.message[2] = now.n /\ at'[m.parent].n = now.n /\ now.n \in Nat
        BY <1>3, <1>5, <1>10, <3>2
      <4> QED BY <4>1, <4>2
    <3>6. \A i \in DOMAIN m.content : m.content[i] = t[m.parent][m.message[2]][now.sent + i]
      BY <1>10, <3>2, Zenon
    <3>7. now.sent + Len(m.content) <= Len(t[m.parent][m.message[2]])
      BY <1>10, <3>2, <3>4, Zenon
    <3>8. now.sent \in Nat /\ IsSeq(m.content)
      BY <1>5, <1>11
    <3> QED BY <3>1, <3>3, <3>5, <3>6, <3>7, <3>8, Zenon DEF Counted
  <2>3. ASSUME NEW s, IsSeq(s)
        PROVE  /\ Repeatable(Append(s, m), adapter'.envelopes, at', Script', turn')
               /\ a # Main => BySubagent(Append(s, m))
    <3>1. Append(s, m) # <<>> /\ Append(s, m)[Len(Append(s, m))] = m
      BY <2>3, OneMore
    <3>2. m.parent \in Agents /\ m.message = <<m.parent, m.message[2]>> /\ m.message[2] \in Nat \ {0}
      BY <1>5, <1>10
    <3>3. Counted(m, adapter'.envelopes, at', Script'[turn'])
      BY <1>2, <1>7, <2>2 DEF t
    <3> QED BY <1>10, <3>1, <3>2, <3>3, Zenon DEF Repeatable, BySubagent
  <2>4. CASE a = Main
    <3>1. main' = Append(main, m) /\ subs' = subs
      BY <1>2, <2>4 DEF WriteDown
    <3> QED BY <1>8, <1>18, <2>1, <2>3, <3>1 DEF EnvelopeNames, MayRepeat
  <2>5. CASE a # Main
    <3>1. subs' = Append(subs, m) /\ main' = main
      BY <1>2, <2>5 DEF WriteDown
    <3> QED BY <1>8, <1>18, <2>1, <2>3, <2>5, <3>1 DEF EnvelopeNames, MayRepeat
  <2> QED BY <2>4, <2>5
<1>20. EventNames'
  <2>1. IsSeq(events') /\ Range(events') = Range(events) \cup Range(r.events)
    BY <1>8, <1>15, <1>16, Joined
  <2>2. ASSUME NEW e \in Range(r.events) PROVE NamesIn(t, e)
    <3>1. ShownAt(m, now.sent, e)
      BY <1>14, <1>16
    <3>2. m.message[2] = now.n /\ m.message = <<m.parent, m.message[2]>>
      BY <1>10
    <3>3. CutFrom(m, t, now.sent)
      BY <1>5, <1>10, <3>2 DEF CutFrom
    <3> QED BY <3>1, <3>3, EnvelopeNamesBlocks
  <2> QED BY <1>2, <1>7, <2>1, <2>2 DEF Names, EventNames, t
<1>21. StreamNames'
  <2>1. Streaming(adapter, at, Frames, t)
    BY <1>7 DEF Names, StreamNames, t
  <2>2. ASSUME NEW b \in DOMAIN adapter.streams
        PROVE  /\ b \in Agents /\ b \in script.streamed /\ at'[b].n = at[b].n
               /\ at'[b].closed => count.lost > 0
    <3>1. b \in Agents /\ b \in script.streamed /\ (at[b].closed => count.lost > 0)
      BY <1>7, <2>1 DEF Names, StreamNames, Streaming, StreamsOK
    <3>2. CASE b # a
      BY <1>3, <3>1, <3>2
    <3>3. CASE b = a
      <4>1. now = at[a]
        BY <3>1, <3>3 DEF now, Now
      <4> QED BY <1>3, <3>1, <3>3, <4>1
    <3> QED BY <3>2, <3>3
  <2>3. /\ IsAdapter(adapter') /\ adapter'.streams = adapter.streams
        /\ adapter'.blocks = adapter.blocks /\ adapter'.replies = adapter.replies
    BY <1>15, <1>16
  <2>4. Streaming(adapter', at', Frames, t)
    BY <2>1, <2>2, <2>3, StreamsGoOn
  <2>5. \A b \in DOMAIN adapter'.streams : b \in script.streamed /\ (at'[b].closed => count.lost > 0)
    BY <2>2, <2>3
  <2> QED BY <1>2, <1>6, <1>7, <2>4, <2>5 DEF StreamNames, t
<1> QED BY <1>19, <1>20, <1>21 DEF Names


\* A place of a part lies within the whole.
LEMMA Within ==
    ASSUME NEW before \in Nat, NEW part \in Nat, NEW whole \in Nat, before + part <= whole,
           NEW i \in 1..part
    PROVE  before + i \in 1..whole
OBVIOUS

\* An envelope that comes again is counted where it was, and shows the same blocks.
LEMMA RepeatKeepsNames ==
    ASSUME NamesKept, NEW a \in Agents, RepeatEnvelope(a)
    PROVE  NamesKept'
<1> DEFINE all == IF a = Main THEN main ELSE subs
           m == all[Len(all)]
           t == Script[turn]
           env == adapter.envelopes
           known == EnvelopeKnown(adapter, m)
           offset == Offset(known, m)
           r == Adapt(adapter, m)
<1>1. Places /\ Places' /\ script' = script /\ turn' = turn /\ at' = at
  BY QuietPlaces DEF NamesKept
<1>2. /\ all # <<>> /\ m.type = "assistant" /\ m.message = <<a, at[a].n>> /\ Deliver(m)
      /\ count' = [count EXCEPT !.repeats = @ + 1] /\ main' = main /\ subs' = subs
  BY DEF RepeatEnvelope, kept
<1>3. count'.frame = count.frame /\ count'.packet = count.packet /\ count'.lost = count.lost
  BY <1>1, <1>2 DEF Places, Counts
<1> SUFFICES ASSUME count'.lost <= 1 PROVE Names'
  BY <1>1 DEF NamesKept
<1>4. Names /\ Script' = Script /\ Frames' = Frames /\ Packets' = Packets
  BY <1>1, <1>3 DEF NamesKept, Script, Frames, Packets
<1>5. EnvelopesOK(env, at, Packets) /\ IsAdapter(adapter) /\ IsSeq(events)
  BY <1>4 DEF Names, EnvelopeNames, StreamNames, Streaming, EventNames
<1>6. /\ \A b \in Agents : at[b] \in Place /\ at[b].n \in Nat /\ at[b].n <= Len(Said(b))
      /\ at[a].sent \in Nat
  BY <1>1 DEF Places, PlaceOK, Place
<1>7. Repeatable(all, env, at, Script, turn)
  BY <1>4 DEF Names, EnvelopeNames, MayRepeat
<1> HIDE DEF all
<1>8. /\ m.message = <<m.parent, m.message[2]>> /\ m.message[2] \in Nat \ {0}
      /\ \/ Counted(m, env, at, t)
         \/ m.parent # Main /\ \E j \in DOMAIN Script : j < turn /\ Script[j][m.parent] # <<>>
  BY <1>2, <1>7 DEF Repeatable
<1> HIDE DEF m
<1>9. m.parent = a /\ m.message[2] = at[a].n /\ at[a].n > 0
  BY <1>2, <1>6, <1>8
<1>10. Counted(m, env, at, t)
  <2> SUFFICES ASSUME NEW j \in DOMAIN Script, j < turn, Script[j][a] # <<>>, a # Main PROVE FALSE
    BY <1>8, <1>9
  <2>1. IsSeq(Script) /\ turn \in DOMAIN Script
    BY <1>1, ScriptsAssumption DEF Places, Script
  <2>2. j \in Int /\ turn \in Int
    BY <2>1, Elements
  <2>3. Said(a) # <<>>
    BY <1>6, <1>9
  <2>4. j = turn
    BY <1>1, <2>1, <2>3, ScriptsAssumption DEF Places, Script, Said
  <2> QED BY <2>2, <2>4
<1>11. /\ <<m.parent, m.message>> = KeyOf(a, at[a].n) /\ KeyOf(a, at[a].n) \in DOMAIN env
       /\ known = env[KeyOf(a, at[a].n)] /\ known = KnownAt(env, a, at)
  <2>1. <<m.parent, m.message>> = KeyOf(a, at[a].n)
    BY <1>2, <1>9, Zenon DEF KeyOf
  <2>2. KeyOf(a, at[a].n) \in DOMAIN env
    BY <1>10, <2>1, Zenon DEF Counted
  <2> QED BY <2>1, <2>2 DEF EnvelopeKnown, KnownAt, Get
<1>12. /\ m.uuid \in DOMAIN known.offsets /\ offset = known.offsets[m.uuid] /\ offset \in Nat
       /\ m.uuid \in Packets /\ IsSeq(m.content) /\ known.next = at[a].sent
       /\ offset + Len(m.content) <= Len(t[a][at[a].n])
       /\ \A i \in DOMAIN m.content : m.content[i] = t[m.parent][m.message[2]][offset + i]
  <2> HIDE DEF known, env, t
  <2>1. /\ m.uuid \in DOMAIN known.offsets /\ known.offsets[m.uuid] \in Nat /\ IsSeq(m.content)
        /\ known.offsets[m.uuid] + Len(m.content) <= Len(t[a][at[a].n])
        /\ \A i \in DOMAIN m.content : m.content[i] = t[m.parent][m.message[2]][known.offsets[m.uuid] + i]
    BY <1>9, <1>10, <1>11, Zenon DEF Counted
  <2>2. known.next = at[a].sent /\ DOMAIN known.offsets \subseteq Packets
    BY <1>5, <1>11, Zenon DEF EnvelopesOK
  <2>3. offset = known.offsets[m.uuid]
    BY <2>1, Zenon DEF Offset, Get
  <2> QED BY <2>1, <2>2, <2>3
<1>13. \A i \in DOMAIN m.content : m.content[i].kind \in {"text", "thinking", "tool"}
  <2> SUFFICES ASSUME NEW i \in DOMAIN m.content
               PROVE  m.content[i].kind \in {"text", "thinking", "tool"}
    OBVIOUS
  <2>1. at[a].n \in 1..Len(Said(a)) /\ Len(Said(a)) \in Nat /\ Len(Said(a)[at[a].n]) \in Nat
    <3>1. Len(Said(a)) \in Nat
      BY <1>1, SaidWell
    <3>2. at[a].n \in 1..Len(Said(a))
      BY <1>6, <1>9, <3>1
    <3> QED BY <1>1, <3>1, <3>2, SaidWell
  <2>2. i \in 1..Len(m.content) /\ Len(m.content) \in Nat
    BY <1>12, Elements
  <2> HIDE DEF offset
  <2>3. offset + i \in 1..Len(Said(a)[at[a].n])
    <3>1. offset \in Nat /\ offset + Len(m.content) <= Len(Said(a)[at[a].n])
      <4> HIDE DEF env
      <4> QED BY <1>12 DEF Said
    <3> HIDE DEF t, env
    <3> QED BY <2>1, <2>2, <3>1, Within, Zenon
  <2>4. Said(a)[at[a].n][offset + i].kind \in {"text", "thinking", "tool"}
    BY <1>1, <2>1, <2>3, SaidWell, Zenon
  <2> QED BY <1>9, <1>12, <2>4, Zenon DEF Said
<1>14. adapter' = r.ad /\ events' = events \o r.events
  BY <1>2 DEF Deliver
<1> HIDE DEF known, offset
<1>15. PICK texts :
         /\ IsAdapter(r.ad) /\ r.ad.streams = adapter.streams
         /\ r.ad.blocks = adapter.blocks /\ r.ad.replies = adapter.replies
         /\ r.ad.envelopes = Put(env, KeyOf(a, at[a].n),
               [next    |-> at[a].sent,
                texts   |-> texts,
                offsets |-> Put(known.offsets, m.uuid, offset)])
         /\ IsSeq(r.events)
         /\ \A e \in Range(r.events) : ShownAt(m, offset, e)
  <2>1. known = EnvelopeKnown(adapter, m) /\ offset = Offset(known, m)
    BY DEF known, offset
  <2>2. EnvelopeArrived(adapter, m)
    BY <1>2, <1>5, <1>12, <1>13, EnvelopeArrives
  <2>3. PICK texts :
         /\ IsAdapter(r.ad) /\ r.ad.streams = adapter.streams
         /\ r.ad.blocks = adapter.blocks /\ r.ad.replies = adapter.replies
         /\ r.ad.envelopes = Put(env, <<m.parent, m.message>>,
               [next    |-> IF m.uuid \in DOMAIN known.offsets THEN known.next
                            ELSE known.next + Len(m.content),
                offsets |-> Put(known.offsets, m.uuid, offset),
                texts   |-> texts])
         /\ IsSeq(r.events)
         /\ \A e \in Range(r.events) : ShownAt(m, offset, e)
    BY <2>1, <2>2, Zenon DEF EnvelopeArrived
  <2>4. r.ad.envelopes = Put(env, KeyOf(a, at[a].n),
               [next    |-> at[a].sent,
                texts   |-> texts,
                offsets |-> Put(known.offsets, m.uuid, offset)])
    <3> HIDE DEF r, env
    <3> QED BY <1>11, <1>12, <2>3, Zenon
  <2> HIDE DEF r
  <2> QED BY <2>3, <2>4, Zenon
<1> HIDE DEF r
<1>16. EnvelopeNames'
  <2>1. CountsIt(env, at, at, Packets, a, m.uuid, offset, adapter'.envelopes)
    <3>1. known = KnownAt(env, a, at)
      BY <1>11
    <3>2. adapter'.envelopes = Put(env, KeyOf(a, at[a].n),
             [next |-> at[a].sent, texts |-> texts, offsets |-> Put(KnownAt(env, a, at).offsets, m.uuid, offset)])
      BY <1>14, <1>15, <3>1
    <3>3. \A b \in Agents : at[b].n \in Nat /\ at[b].n >= at[b].n
      BY <1>6
    <3>4. m.uuid \in DOMAIN KnownAt(env, a, at).offsets => KnownAt(env, a, at).offsets[m.uuid] = offset
      BY <1>12, <3>1
    <3> HIDE DEF env
    <3> QED BY <1>5, <1>6, <1>9, <3>2, <3>3, <3>4, Zenon DEF CountsIt
  <2>2. IsCounted(env, at, at, Packets, a, m.uuid, offset, adapter'.envelopes)
    BY <2>1, EnvelopeCounts
  <2>3. Packets \cup {m.uuid} = Packets
    BY <1>12
  <2>4. /\ EnvelopesOK(adapter'.envelopes, at', Packets')
        /\ Repeatable(main, adapter'.envelopes, at', Script', turn')
        /\ Repeatable(subs, adapter'.envelopes, at', Script', turn') /\ BySubagent(subs)
    BY <1>1, <1>4, <2>2, <2>3, Zenon DEF IsCounted, Names, EnvelopeNames, MayRepeat
  <2> QED BY <1>2, <2>4 DEF EnvelopeNames, MayRepeat
<1>17. EventNames'
  <2>1. IsSeq(events') /\ Range(events') = Range(events) \cup Range(r.events)
    BY <1>5, <1>14, <1>15, Joined
  <2>2. ASSUME NEW e \in Range(r.events) PROVE NamesIn(t, e)
    <3>1. ShownAt(m, offset, e)
      BY <1>15
    <3>2. m.message = <<m.parent, m.message[2]>>
      BY <1>8
    <3> HIDE DEF t, env
    <3>3. CutFrom(m, t, offset)
      BY <1>12, <3>2 DEF CutFrom
    <3> QED BY <3>1, <3>3, EnvelopeNamesBlocks
  <2> QED BY <1>1, <1>4, <2>1, <2>2 DEF Names, EventNames
<1>18. StreamNames'
  <2>1. Streaming(adapter, at, Frames, t)
    BY <1>4 DEF Names, StreamNames
  <2>2. /\ IsAdapter(adapter') /\ adapter'.streams = adapter.streams
        /\ adapter'.blocks = adapter.blocks /\ adapter'.replies = adapter.replies
    BY <1>14, <1>15
  <2>3. Streaming(adapter', at, Frames, t)
    BY <2>1, <2>2, StreamsGoOn
  <2>4. \A b \in DOMAIN adapter'.streams : b \in script.streamed /\ (at[b].closed => count.lost > 0)
    BY <1>4, <2>2 DEF Names, StreamNames
  <2> QED BY <1>1, <1>3, <1>4, <2>3, <2>4 DEF StreamNames
<1> QED BY <1>16, <1>17, <1>18 DEF Names

\* A new turn has no stream, no envelope and no agent that began.
Fresh == NewAdapter(NoChanges)
Unbegun == [a \in Agents |-> NotBegun]

\* A new adapter knows no names.
LEMMA FreshNames ==
    ASSUME NEW fs, NEW ps, NEW t
    PROVE  /\ Streaming(Fresh, Unbegun, fs, t) /\ EnvelopesOK(Fresh.envelopes, Unbegun, ps)
           /\ DOMAIN Fresh.streams = {}
<1>1. /\ IsAdapter(Fresh) /\ DOMAIN Fresh.streams = {} /\ DOMAIN Fresh.blocks = {}
      /\ DOMAIN Fresh.replies = {} /\ DOMAIN Fresh.envelopes = {}
  BY DEF Fresh, NewAdapter, IsAdapter
<1> HIDE DEF Fresh
<1>2. Streaming(Fresh, Unbegun, fs, t)
  BY <1>1 DEF Streaming, StreamsOK, BlocksOK, RepliesOK
<1>3. ASSUME NEW a \in Agents PROVE Unbegun[a].sent = 0
  BY DEF Unbegun, NotBegun
<1> QED BY <1>1, <1>2, <1>3 DEF EnvelopesOK

\* The next turn begins with a new adapter; what may come again is of a subagent of
\* an earlier turn.
LEMMA PromptKeepsNames ==
    ASSUME NamesKept, NextPrompt
    PROVE  NamesKept'
<1>1. Places /\ Places'
  BY PromptPlaces DEF NamesKept
<1>2. /\ script' = script /\ turn' = turn + 1 /\ at' = Unbegun /\ adapter' = Fresh /\ events' = <<>>
      /\ main' = Append(main, Prompt(turn + 1)) /\ subs' = subs /\ count' = count
  BY DEF NextPrompt, Unbegun, Fresh
<1> SUFFICES ASSUME count'.lost <= 1 PROVE Names'
  BY <1>1 DEF NamesKept
<1>3. Names /\ Script' = Script
  BY <1>2 DEF NamesKept, Script
<1>4. StreamNames'
  <2>1. Streaming(adapter', at', Frames', Script'[turn']) /\ DOMAIN adapter'.streams = {}
    BY <1>2, FreshNames
  <2> QED BY <2>1 DEF StreamNames
<1>5. EventNames'
  BY <1>2, NoElements DEF EventNames
<1>6. MayRepeat(main)'
  <2>1. IsSeq(main) /\ Prompt(turn + 1).type # "assistant"
    BY <1>1 DEF Places, Prompt
  <2> QED BY <1>2, <2>1, OnlyEnvelopes DEF MayRepeat
<1>7. Repeatable(subs, adapter'.envelopes, at', Script, turn + 1)
  <2> DEFINE m == subs[Len(subs)]
  <2> SUFFICES ASSUME subs # <<>>, m.type = "assistant"
               PROVE  /\ m.parent \in Agents /\ m.message = <<m.parent, m.message[2]>>
                      /\ m.message[2] \in Nat \ {0} /\ m.parent # Main
                      /\ \E j \in DOMAIN Script : j < turn + 1 /\ Script[j][m.parent] # <<>>
    BY DEF Repeatable
  <2>1. /\ m.parent \in Agents /\ m.message = <<m.parent, m.message[2]>> /\ m.message[2] \in Nat \ {0}
        /\ \/ Counted(m, adapter.envelopes, at, Script[turn])
           \/ m.parent # Main /\ \E j \in DOMAIN Script : j < turn /\ Script[j][m.parent] # <<>>
        /\ m.parent # Main
    BY <1>3 DEF Names, EnvelopeNames, MayRepeat, Repeatable, BySubagent
  <2>2. turn \in DOMAIN Script /\ \A j \in DOMAIN Script : j \in Nat
    <3>1. IsSeq(Script) /\ turn \in DOMAIN Script
      BY <1>1, ScriptsAssumption DEF Places, Script
    <3> QED BY <3>1, Elements
  <2> HIDE DEF m
  <2>3. CASE Counted(m, adapter.envelopes, at, Script[turn])
    <3>1. m.message[2] <= at[m.parent].n
      BY <2>3, Zenon DEF Counted
    <3>2. at[m.parent].n \in Nat /\ at[m.parent].n <= Len(Said(m.parent)) /\ Len(Said(m.parent)) \in Nat
      BY <1>1, <2>1, SaidWell DEF Places, PlaceOK, Place
    <3>3. Said(m.parent) # <<>>
      BY <2>1, <3>1, <3>2
    <3>4. turn < turn + 1
      BY <2>2
    <3> QED BY <2>1, <2>2, <3>3, <3>4, Zenon DEF Said
  <2>4. CASE \E j \in DOMAIN Script : j < turn /\ Script[j][m.parent] # <<>>
    <3>1. PICK j \in DOMAIN Script : j < turn /\ Script[j][m.parent] # <<>>
      BY <2>4
    <3>2. j < turn + 1
      BY <2>2, <3>1
    <3> QED BY <2>1, <3>1, <3>2
  <2> QED BY <2>1, <2>3, <2>4
<1>8. EnvelopeNames'
  <2>1. EnvelopesOK(adapter'.envelopes, at', Packets')
    BY <1>2, FreshNames
  <2>2. MayRepeat(subs)' /\ BySubagent(subs)'
    BY <1>2, <1>3, <1>7 DEF MayRepeat, Names, EnvelopeNames, BySubagent
  <2> QED BY <1>6, <2>1, <2>2 DEF EnvelopeNames
<1> QED BY <1>4, <1>5, <1>8 DEF Names

\* The first turn begins like every other.
LEMMA NamesAtFirst ==
    ASSUME Init
    PROVE  NamesKept
<1>1. /\ script \in Scripts /\ turn = 1 /\ at = Unbegun /\ adapter = Fresh /\ events = <<>>
      /\ main = <<Prompt(1)>> /\ subs = <<>>
      /\ count = [frame |-> 0, packet |-> 0, lost |-> 0, repeats |-> 0, untold |-> 0, foreign |-> 0]
  BY DEF Init, Unbegun, Fresh
<1>2. IsSeq(main) /\ IsSeq(subs)
  BY <1>1, OneElement, NoElements
<1>3. turn \in DOMAIN Script
  <2>1. IsSeq(Script) /\ Script # <<>>
    BY <1>1, ScriptsAssumption DEF Script
  <2>2. Len(Script) \in Nat /\ DOMAIN Script = 1..Len(Script) /\ Script \in Seq(Range(Script))
    BY <2>1, Elements DEF IsSeq
  <2>3. Len(Script) # 0
    BY <2>1, <2>2
  <2> QED BY <1>1, <2>2, <2>3
<1>4. ASSUME NEW a \in Agents PROVE PlaceOK(a)
  <2>1. at[a] = NotBegun
    BY <1>1 DEF Unbegun
  <2>2. /\ NotBegun \in Place /\ NotBegun.n = 0 /\ NotBegun.closed = TRUE /\ NotBegun.open = 0
        /\ NotBegun.sent = 0 /\ NotBegun.done = 0
    BY DEF NotBegun, Place
  <2>3. Len(Said(a)) \in Nat
    <3>1. IsSaid(Said(a))
      BY <1>1, <1>3, ScriptsAssumption DEF Script, Said
    <3> QED BY <3>1, Elements DEF IsSaid
  <2> HIDE DEF NotBegun
  <2> QED BY <2>1, <2>2, <2>3 DEF PlaceOK
<1>5. Places
  <2>1. DOMAIN at = Agents
    BY <1>1 DEF Unbegun
  <2>2. count \in Counts
    BY <1>1 DEF Counts
  <2> QED BY <1>1, <1>2, <1>3, <1>4, <2>1, <2>2 DEF Places
<1>6. StreamNames
  <2>1. Streaming(adapter, at, Frames, Script[turn]) /\ DOMAIN adapter.streams = {}
    BY <1>1, FreshNames
  <2> QED BY <2>1 DEF StreamNames
<1>7. EventNames
  BY <1>1, NoElements DEF EventNames
<1>8. EnvelopeNames
  <2>1. EnvelopesOK(adapter.envelopes, at, Packets)
    BY <1>1, FreshNames
  <2>2. main = Append(<<>>, Prompt(1)) /\ Prompt(1).type # "assistant"
    BY <1>1 DEF Prompt
  <2>3. MayRepeat(main)
    BY <2>2, NoElements, OnlyEnvelopes, Zenon DEF MayRepeat
  <2>4. MayRepeat(subs) /\ BySubagent(subs)
    BY <1>1 DEF MayRepeat, Repeatable, BySubagent
  <2> QED BY <2>1, <2>3, <2>4 DEF EnvelopeNames
<1> QED BY <1>5, <1>6, <1>7, <1>8 DEF NamesKept, Names

\* Every step keeps the names.
LEMMA NamesStay ==
    ASSUME NamesKept, [Next]_vars
    PROVE  NamesKept'
<1> DEFINE Streams(a) == Begin(a) \/ OpenBlock(a) \/ Piece(a) \/ CloseBlock(a) \/ CloseMessage(a)
           Quiet == \/ Answering \/ PrintOutput \/ EndTurn \/ UNCHANGED vars
                    \/ \E f, c : Foreign(f, c)
<1>1. \/ \E a \in Agents : Streams(a)
      \/ \E a \in Agents, to \in 1..MaxBlocks : SendEnvelope(a, to)
      \/ \E a \in Agents : RepeatEnvelope(a)
      \/ NextPrompt
      \/ Quiet
  BY Zenon DEF Next, Says, Works, Answering
<1>2. CASE \E a \in Agents : Streams(a)
  BY <1>2, StreamKeepsNames
<1>3. CASE \E a \in Agents, to \in 1..MaxBlocks : SendEnvelope(a, to)
  BY <1>3, SendKeepsNames
<1>4. CASE \E a \in Agents : RepeatEnvelope(a)
  BY <1>4, RepeatKeepsNames
<1>5. CASE NextPrompt
  BY <1>5, PromptKeepsNames
<1>6. CASE Quiet
  <2>1. Places' /\ script' = script /\ turn' = turn /\ at' = at
    BY <1>6, QuietPlaces DEF NamesKept
  <2>2. count'.frame = count.frame /\ count'.packet = count.packet /\ count'.lost = count.lost
    <3>0. count \in Counts
      BY DEF NamesKept, Places
    <3>1. \/ count' = count \/ count' = [count EXCEPT !.foreign = @ + 1]
          \/ \E tells \in BOOLEAN : count' = [count EXCEPT !.untold = @ + (IF tells THEN 0 ELSE 1)]
      BY <1>6, AnsweringCounts DEF PrintOutput, EndTurn, Foreign, vars
    <3> QED BY <3>0, <3>1 DEF Counts
  <2>3. CASE Answering
    BY <2>1, <2>2, <2>3, AnsweringIs, QuietKeepsNames
  <2>4. CASE PrintOutput
    <3> DEFINE m == [type |-> "user", parent |-> Main, uuid |-> <<"print", turn>>, said |-> "stdout",
                     note |-> NoNote, content |-> <<[kind |-> "text", text |-> Output]>>]
    <3>1. WriteDown(Main, m) /\ UNCHANGED live
      BY <2>4 DEF PrintOutput
    <3>2. m.type = "user"
      OBVIOUS
    <3> HIDE DEF m
    <3>3. \E b, n : n.type = "user" /\ WriteDown(b, n)
      BY <3>1, <3>2
    <3> QED BY <2>1, <2>2, <3>1, <3>3, QuietKeepsNames
  <2>5. CASE EndTurn \/ UNCHANGED vars \/ \E f, c : Foreign(f, c)
    <3>1. UNCHANGED live /\ main' = main /\ subs' = subs
      BY <2>5 DEF EndTurn, Foreign, vars, kept
    <3> QED BY <2>1, <2>2, <3>1, QuietKeepsNames
  <2> QED BY <1>6, <2>3, <2>4, <2>5
<1> QED BY <1>1, <1>2, <1>3, <1>4, <1>5, <1>6

\* What the invariant says of the events and the open blocks is what the page relies on.
LEMMA KeptNamesAreTrue ==
    ASSUME NamesKept
    PROVE  BlocksHaveOneName
<1> SUFFICES ASSUME count.lost <= 1
             PROVE  /\ \A k \in DOMAIN adapter.blocks :
                         \E a \in DOMAIN adapter.streams : adapter.streams[a].stream = k[1]
                    /\ \A i \in DOMAIN events : NamesItsBlock(events[i])
  BY DEF BlocksHaveOneName
<1>1. BlocksOK(adapter) /\ EventNames
  BY Zenon DEF NamesKept, Names, StreamNames, Streaming
<1>2. ASSUME NEW i \in DOMAIN events PROVE NamesItsBlock(events[i])
  <2>1. events[i] \in Range(events)
    BY <1>1, Elements DEF EventNames
  <2>2. NamesIn(Script[turn], events[i])
    BY <1>1, <2>1 DEF EventNames
  <2> QED BY <2>2, Zenon DEF NamesIn, NamesItsBlock, Block
<1> QED BY <1>1, <1>2 DEF BlocksOK

\* However messages were cut, streamed and repeated: every stream, block,
\* envelope and event of _MessageAdapter has the name of what its agent says.
THEOREM NamesAreKept == Spec => []NamesKept
<1>1. Init => NamesKept
  BY NamesAtFirst
<1>2. NamesKept /\ [Next]_vars => NamesKept'
  BY NamesStay
<1> QED BY <1>1, <1>2, PTL DEF Spec

\* A block has one name, complete or streamed, and two messages are never taken
\* for one while no more than one frame is lost: for any scripts.
THEOREM NamesAreTrue == Spec => []BlocksHaveOneName
<1>1. NamesKept => BlocksHaveOneName
  BY KeptNamesAreTrue
<1> QED BY <1>1, NamesAreKept, PTL

-----------------------------------------------------------------------------
(* What events tell of a reply *)

Untold == [begun |-> 0, text |-> <<>>]

\* ReplyTold as a recursive function that exists.
LEMMA ReplyFunction ==
    ASSUME NEW es, IsSeq(es), NEW stream, NEW index
    PROVE  /\ ReplyTold(es, stream, index)[0] = Untold
           /\ \A n \in 1..Len(es) :
                ReplyTold(es, stream, index)[n] =
                    Telling(ReplyTold(es, stream, index)[n - 1], es[n], stream, index)
<1> DEFINE last == Len(es)
           Next1(f, n) == Telling(f[n - 1], es[n], stream, index)
           IsUpTo(f, k) == f = [n \in 0..k |-> IF n = 0 THEN Untold ELSE Next1(f, n)]
           Good == {k \in 1..(last + 1) : \E f : IsUpTo(f, k - 1)}
<1>1. last \in Nat /\ last + 1 \in Nat \ {0}
  BY Elements
<1>2. 1 \in Good
  <2>1. IsUpTo([n \in 0..0 |-> Untold], 1 - 1)
    OBVIOUS
  <2>2. \E f : IsUpTo(f, 1 - 1)
    BY <2>1, Zenon
  <2> HIDE DEF IsUpTo
  <2> QED BY <1>1, <2>2
<1>3. ASSUME NEW k \in 2..(last + 1), k - 1 \in Good PROVE k \in Good
  <2> DEFINE j == k - 1
  <2>1. PICK f : IsUpTo(f, j - 1)
    BY <1>3, Zenon
  <2>2. j \in Nat /\ j # 0 /\ j - 1 \in 0..j /\ j - 1 # j /\ j \in 0..j
    BY <1>1
  <2> HIDE DEF j
  <2> DEFINE g == [n \in 0..j |-> IF n = j THEN Next1(f, j) ELSE f[n]]
  <2>3. \A n \in 0..j : g[n] = IF n = 0 THEN Untold ELSE Next1(g, n)
    <3> SUFFICES ASSUME NEW n \in 0..j PROVE g[n] = IF n = 0 THEN Untold ELSE Next1(g, n)
      BY Zenon
    <3>1. CASE n = j
      <4>1. g[j - 1] = f[j - 1] /\ g[j] = Next1(f, j)
        BY <2>2, Zenon
      <4> HIDE DEF g
      <4> QED BY <2>2, <3>1, <4>1, Zenon
    <3>2. CASE n # j
      <4>1. n \in 0..(j - 1) /\ g[n] = f[n]
        BY <2>2, <3>2
      <4>2. f[n] = IF n = 0 THEN Untold ELSE Next1(f, n)
        BY <2>1, <4>1, Zenon
      <4>3. n # 0 => n - 1 # j /\ n - 1 \in 0..j
        BY <2>2, <4>1
      <4>4. n # 0 => g[n - 1] = f[n - 1]
        BY <4>3
      <4> HIDE DEF g
      <4> QED BY <4>1, <4>2, <4>4, Zenon
    <3> QED BY <3>1, <3>2
  <2>4. IsUpTo(g, j)
    BY <2>3, Zenon
  <2>5. \E h : IsUpTo(h, j)
    <3> HIDE DEF g, IsUpTo
    <3> QED BY <2>4
  <2> HIDE DEF IsUpTo
  <2> QED BY <1>1, <2>5 DEF j
<1>4. last + 1 \in Good
  <2> HIDE DEF Good
  <2> QED BY <1>1, <1>2, <1>3, AlongPositions
<1> DEFINE h == CHOOSE f : IsUpTo(f, last)
<1>5. \E f : IsUpTo(f, last)
  <2>1. (last + 1) - 1 = last
    BY <1>1
  <2> HIDE DEF IsUpTo
  <2> QED BY <1>4, <2>1
<1>6. IsUpTo(h, last)
  BY <1>5, Zenon
<1>7. ReplyTold(es, stream, index) = h
  BY DEF ReplyTold, Untold
<1>8. h[0] = Untold /\ \A n \in 1..last : h[n] = Next1(h, n)
  <2> HIDE DEF h, last
  <2>1. 0 \in 0..last /\ \A n \in 1..last : n \in 0..last /\ n # 0
    BY <1>1
  <2> QED BY <1>6, <2>1, Zenon
<1> HIDE DEF h
<1> QED BY <1>7, <1>8

\* Events that are appended change nothing of what was told before them.
LEMMA ToldBefore ==
    ASSUME NEW es, NEW fs, IsSeq(es), IsSeq(fs), NEW stream, NEW index
    PROVE  LET all == es \o fs IN
           /\ Len(all) = Len(es) + Len(fs) /\ IsSeq(all)
           /\ \A n \in 1..Len(es) : all[n] = es[n]
           /\ \A n \in 1..Len(fs) : all[Len(es) + n] = fs[n]
           /\ \A n \in 0..Len(es) :
                ReplyTold(all, stream, index)[n] = ReplyTold(es, stream, index)[n]
           /\ \A n \in 1..Len(fs) :
                ReplyTold(all, stream, index)[Len(es) + n] =
                    Telling(ReplyTold(all, stream, index)[Len(es) + n - 1], fs[n], stream, index)
<1> DEFINE all == es \o fs
           a == ReplyTold(all, stream, index)
           b == ReplyTold(es, stream, index)
<1>1. /\ IsSeq(all) /\ Len(all) = Len(es) + Len(fs) /\ Len(es) \in Nat /\ Len(fs) \in Nat
      /\ \A n \in 1..Len(es) : all[n] = es[n]
      /\ \A n \in 1..Len(fs) : all[Len(es) + n] = fs[n]
  <2>1. IsSeq(all)
    BY Joined
  <2> DEFINE X == Range(es) \cup Range(fs)
  <2>2. es \in Seq(X) /\ fs \in Seq(X)
    <3>1. es \in Seq(Range(es)) /\ fs \in Seq(Range(fs)) /\ Range(es) \subseteq X /\ Range(fs) \subseteq X
      BY DEF IsSeq
    <3> HIDE DEF X
    <3> QED BY <3>1
  <2> HIDE DEF X
  <2> QED BY <2>1, <2>2
<1> HIDE DEF all
<1>2. /\ a[0] = Untold /\ b[0] = Untold
      /\ \A n \in 1..Len(all) : a[n] = Telling(a[n - 1], all[n], stream, index)
      /\ \A n \in 1..Len(es) : b[n] = Telling(b[n - 1], es[n], stream, index)
  BY <1>1, ReplyFunction
<1> HIDE DEF a, b
<1> DEFINE Same == {k \in 1..(Len(es) + 1) : a[k - 1] = b[k - 1]}
<1>3. 1 \in Same
  <2>1. 1 \in 1..(Len(es) + 1) /\ 1 - 1 = 0
    BY <1>1
  <2> QED BY <1>2, <2>1
<1>4. ASSUME NEW k \in 2..(Len(es) + 1), k - 1 \in Same PROVE k \in Same
  <2>1. k - 1 \in 1..Len(es) /\ k - 1 \in 1..Len(all) /\ k \in 1..(Len(es) + 1)
    BY <1>1
  <2>2. a[(k - 1) - 1] = b[(k - 1) - 1] /\ all[k - 1] = es[k - 1]
    BY <1>1, <1>4, <2>1
  <2>3. a[k - 1] = b[k - 1]
    BY <1>2, <2>1, <2>2
  <2> QED BY <2>1, <2>3
<1>5. \A n \in 0..Len(es) : a[n] = b[n]
  <2> SUFFICES ASSUME NEW n \in 0..Len(es) PROVE a[n] = b[n]
    OBVIOUS
  <2>1. n + 1 \in Nat \ {0} /\ n + 1 <= Len(es) + 1 /\ (n + 1) - 1 = n
    BY <1>1
  <2>2. \A i \in 2..(n + 1) : i - 1 \in Same => i \in Same
    <3>1. 2..(n + 1) \subseteq 2..(Len(es) + 1)
      BY <1>1, <2>1
    <3> HIDE DEF Same
    <3> QED BY <1>4, <3>1
  <2>3. n + 1 \in Same
    <3> HIDE DEF Same
    <3> QED BY <1>3, <2>1, <2>2, AlongPositions
  <2> QED BY <2>1, <2>3
<1>6. ASSUME NEW n \in 1..Len(fs)
      PROVE  a[Len(es) + n] = Telling(a[Len(es) + n - 1], fs[n], stream, index)
  <2>1. Len(es) + n \in 1..Len(all)
    BY <1>1
  <2> QED BY <1>1, <1>2, <2>1
<1> QED BY <1>1, <1>5, <1>6 DEF all, a, b

\* What all events tell of a reply.
SoFar(es, stream, index) == ReplyTold(es, stream, index)[Len(es)]

\* all are the events es and more, which tell nothing before the last of them.
GoesOn(es, all) ==
    /\ IsSeq(es) /\ IsSeq(all) /\ Len(es) \in Nat /\ Len(all) \in Nat /\ Len(all) >= Len(es)
    /\ \A n \in 1..Len(es) : all[n] = es[n]
    /\ \A stream, index : \A n \in 0..Len(es) :
         ReplyTold(all, stream, index)[n] = ReplyTold(es, stream, index)[n]

\* Nothing is told of any reply.
Silent(es, all) ==
    /\ GoesOn(es, all)
    /\ \A stream, index : SoFar(all, stream, index) = SoFar(es, stream, index)
    /\ \A n \in 1..Len(all) : n > Len(es) => ~ TellsReply(all[n])

\* One reply is told of, which perhaps begins; the last event says how it goes on.
Speaks(es, all, stream, index, begins, text, e) ==
    /\ GoesOn(es, all)
    /\ SoFar(all, stream, index) = [begun |-> SoFar(es, stream, index).begun + begins,
                                  text  |-> SoFar(es, stream, index).text \o text]
    /\ \A x, i : <<x, i>> # <<stream, index>> => SoFar(all, x, i) = SoFar(es, x, i)
    /\ Len(all) > Len(es) /\ all[Len(all)] = e
    /\ \A n \in 1..Len(all) :
         n > Len(es) /\ n # Len(all) => all[n].event = "assistant.reply.started"

LEMMA SilenceGoesOn ==
    ASSUME NEW es, NEW fs, IsSeq(es), IsSeq(fs), \A e \in Range(fs) : ~ TellsReply(e)
    PROVE  Silent(es, es \o fs)
<1> DEFINE all == es \o fs
<1>1. Len(es) \in Nat /\ Len(fs) \in Nat /\ DOMAIN fs = 1..Len(fs)
  BY Elements
<1>2. GoesOn(es, all) /\ Len(all) = Len(es) + Len(fs)
  BY <1>1, ToldBefore DEF GoesOn
<1>3. \A n \in 1..Len(fs) : all[Len(es) + n] = fs[n] /\ ~ TellsReply(fs[n])
  BY <1>1, ToldBefore DEF Range
<1>4. ASSUME NEW stream, NEW index PROVE SoFar(all, stream, index) = SoFar(es, stream, index)
  <2> DEFINE a == ReplyTold(all, stream, index)
             b == ReplyTold(es, stream, index)
             Same == {k \in 1..(Len(fs) + 1) : a[Len(es) + (k - 1)] = b[Len(es)]}
  <2>1. a[Len(es)] = b[Len(es)]
    BY <1>1, <1>2 DEF GoesOn
  <2>2. \A n \in 1..Len(fs) : a[Len(es) + n] = a[Len(es) + n - 1]
    <3>1. \A n \in 1..Len(fs) :
             a[Len(es) + n] = Telling(a[Len(es) + n - 1], fs[n], stream, index)
      BY ToldBefore
    <3> HIDE DEF a
    <3> QED BY <1>3, <3>1 DEF Telling
  <2> HIDE DEF a, b, all
  <2>3. 1 \in Same
    BY <1>1, <2>1
  <2>4. ASSUME NEW k \in 2..(Len(fs) + 1), k - 1 \in Same PROVE k \in Same
    <3>1. k - 1 \in 1..Len(fs) /\ Len(es) + ((k - 1) - 1) = Len(es) + (k - 1) - 1 /\ k \in 1..(Len(fs) + 1)
      BY <1>1
    <3>2. a[Len(es) + ((k - 1) - 1)] = b[Len(es)]
      BY <2>4
    <3>3. a[Len(es) + (k - 1)] = b[Len(es)]
      BY <2>2, <3>1, <3>2
    <3> QED BY <3>1, <3>3
  <2>5. Len(fs) + 1 \in Same
    <3>1. Len(fs) + 1 \in Nat \ {0}
      BY <1>1
    <3> HIDE DEF Same
    <3> QED BY <2>3, <2>4, <3>1, AlongPositions
  <2>6. a[Len(es) + Len(fs)] = b[Len(es)]
    BY <1>1, <2>5
  <2> QED BY <1>2, <2>6 DEF a, b, SoFar
<1>5. ASSUME NEW n \in 1..Len(all), n > Len(es) PROVE ~ TellsReply(all[n])
  <2>1. n - Len(es) \in 1..Len(fs) /\ n = Len(es) + (n - Len(es))
    BY <1>1, <1>2, <1>5
  <2> QED BY <1>3, <2>1
<1> HIDE DEF all
<1> QED BY <1>2, <1>4, <1>5 DEF Silent, all

\* One event more.
LEMMA ToldOnce ==
    ASSUME NEW es, NEW e, IsSeq(es)
    PROVE  LET all == es \o <<e>> IN
           /\ GoesOn(es, all) /\ Len(all) = Len(es) + 1 /\ all[Len(all)] = e
           /\ \A stream, index :
                SoFar(all, stream, index) = Telling(SoFar(es, stream, index), e, stream, index)
<1> DEFINE all == es \o <<e>>
<1>1. Len(es) \in Nat
  BY Elements
<1>2. IsSeq(<<e>>) /\ Len(<<e>>) = 1 /\ <<e>>[1] = e
  BY OneElement
<1>3. GoesOn(es, all) /\ Len(all) = Len(es) + 1 /\ all[Len(es) + 1] = e
  <2>1. /\ Len(all) = Len(es) + 1 /\ IsSeq(all) /\ \A n \in 1..Len(es) : all[n] = es[n]
        /\ \A x, i : \A n \in 0..Len(es) : ReplyTold(all, x, i)[n] = ReplyTold(es, x, i)[n]
    BY <1>2, ToldBefore
  <2>2. all[Len(es) + 1] = e
    <3>1. \A n \in 1..Len(<<e>>) : all[Len(es) + n] = <<e>>[n]
      BY <1>2, ToldBefore
    <3> HIDE DEF all
    <3>2. 1 \in 1..Len(<<e>>)
      BY <1>2
    <3> QED BY <1>2, <3>1, <3>2
  <2> HIDE DEF all
  <2> QED BY <1>1, <1>2, <2>1, <2>2 DEF GoesOn
<1>4. ASSUME NEW stream, NEW index
      PROVE  SoFar(all, stream, index) = Telling(SoFar(es, stream, index), e, stream, index)
  <2> DEFINE a == ReplyTold(all, stream, index)
             b == ReplyTold(es, stream, index)
  <2>1. a[Len(es)] = b[Len(es)]
    BY <1>1, <1>3 DEF GoesOn
  <2>2. a[Len(es) + 1] = Telling(a[Len(es) + 1 - 1], e, stream, index)
    BY <1>2, ToldBefore
  <2>3. Len(es) + 1 - 1 = Len(es)
    BY <1>1
  <2> HIDE DEF a, b, all
  <2> QED BY <1>3, <2>1, <2>2, <2>3 DEF a, b, SoFar
<1> HIDE DEF all
<1> QED BY <1>3, <1>4 DEF all

Beginning(e) == IF e.event = "assistant.reply.started" THEN 1 ELSE 0

LEMMA OneSpeaks ==
    ASSUME NEW es, NEW e, IsSeq(es), TellsReply(e), NEW stream, NEW index,
           e.data.stream = stream, e.data.block[2] = index
    PROVE  Speaks(es, es \o <<e>>, stream, index, Beginning(e), e.data.text, e)
<1> DEFINE all == es \o <<e>>
<1>1. /\ GoesOn(es, all) /\ Len(all) = Len(es) + 1 /\ all[Len(all)] = e
      /\ \A x, i : SoFar(all, x, i) = Telling(SoFar(es, x, i), e, x, i)
  BY ToldOnce
<1> HIDE DEF all
<1>2. \A x, i : <<x, i>> # <<stream, index>> => SoFar(all, x, i) = SoFar(es, x, i)
  BY <1>1 DEF Telling
<1>3. SoFar(all, stream, index) = [begun |-> SoFar(es, stream, index).begun + Beginning(e),
                                 text  |-> SoFar(es, stream, index).text \o e.data.text]
  BY <1>1 DEF Telling, Beginning
<1>4. Len(es) \in Nat
  BY Elements
<1> QED BY <1>1, <1>2, <1>3, <1>4 DEF Speaks, all

LEMMA NothingAdded ==
    ASSUME NEW s, IsSeq(s)
    PROVE  <<>> \o s = s /\ s \o <<>> = s
  BY DEF IsSeq

LEMMA Associative ==
    ASSUME NEW s, NEW t, NEW u, IsSeq(s), IsSeq(t), IsSeq(u)
    PROVE  s \o (t \o u) = (s \o t) \o u
<1> DEFINE X == Range(s) \cup Range(t) \cup Range(u)
<1>1. s \in Seq(X) /\ t \in Seq(X) /\ u \in Seq(X)
  <2>1. /\ s \in Seq(Range(s)) /\ t \in Seq(Range(t)) /\ u \in Seq(Range(u))
        /\ Range(s) \subseteq X /\ Range(t) \subseteq X /\ Range(u) \subseteq X
    BY DEF IsSeq
  <2> HIDE DEF X
  <2> QED BY <2>1
<1> HIDE DEF X
<1> QED BY <1>1, ConcatAssociative

\* A reply begins and goes on.
LEMMA TwoSpeak ==
    ASSUME NEW es, NEW b, NEW e, IsSeq(es), TellsReply(b), TellsReply(e), NEW stream, NEW index,
           b.event = "assistant.reply.started", b.data.text = <<>>,
           e.event # "assistant.reply.started", IsSeq(SoFar(es, stream, index).text),
           SoFar(es, stream, index).begun \in Nat,
           b.data.stream = stream, b.data.block[2] = index,
           e.data.stream = stream, e.data.block[2] = index
    PROVE  Speaks(es, es \o (<<b>> \o <<e>>), stream, index, 1, e.data.text, e)
<1> DEFINE mid == es \o <<b>>
           all == mid \o <<e>>
<1>1. es \o (<<b>> \o <<e>>) = all
  BY OneElement, Associative
<1>2. Speaks(es, mid, stream, index, 1, <<>>, b)
  BY OneSpeaks DEF Beginning
<1>3. IsSeq(mid)
  BY <1>2 DEF Speaks, GoesOn
<1> HIDE DEF mid
<1>4. Speaks(mid, all, stream, index, 0, e.data.text, e)
  BY <1>3, OneSpeaks DEF Beginning
<1>5. Len(mid) = Len(es) + 1 /\ Len(all) = Len(es) + 2 /\ Len(es) \in Nat
  BY <1>3, ToldOnce, Elements DEF mid
<1> HIDE DEF all
<1>6. GoesOn(es, all)
  <2>1. \A n \in 1..Len(es) : n \in 1..Len(mid) /\ \A k \in 0..Len(es) : k \in 0..Len(mid)
    BY <1>5
  <2> QED BY <1>2, <1>4, <1>5, <2>1 DEF Speaks, GoesOn
<1>7. SoFar(mid, stream, index) = [begun |-> SoFar(es, stream, index).begun + 1,
                                 text  |-> SoFar(es, stream, index).text]
  <2>1. SoFar(es, stream, index).text \o <<>> = SoFar(es, stream, index).text
    BY DEF IsSeq
  <2> QED BY <1>2, <2>1 DEF Speaks
<1>8. SoFar(all, stream, index) = [begun |-> SoFar(es, stream, index).begun + 1,
                                 text  |-> SoFar(es, stream, index).text \o e.data.text]
  <2>1. SoFar(all, stream, index) = [begun |-> SoFar(mid, stream, index).begun + 0,
                                   text  |-> SoFar(mid, stream, index).text \o e.data.text]
    BY <1>4 DEF Speaks
  <2>2. SoFar(mid, stream, index).begun + 0 = SoFar(es, stream, index).begun + 1
    <3> DEFINE x == SoFar(es, stream, index).begun
    <3>1. SoFar(mid, stream, index).begun = x + 1 /\ x \in Nat
      BY <1>7
    <3> HIDE DEF x
    <3>2. (x + 1) + 0 = x + 1
      BY <3>1
    <3> QED BY <3>1, <3>2, Zenon DEF x
  <2>3. SoFar(mid, stream, index).text = SoFar(es, stream, index).text
    BY <1>7
  <2> QED BY <2>1, <2>2, <2>3, Zenon
<1>9. \A x, i : <<x, i>> # <<stream, index>> => SoFar(all, x, i) = SoFar(es, x, i)
  BY <1>2, <1>4 DEF Speaks
<1>10. /\ all[Len(all)] = e
       /\ \A n \in 1..Len(all) : n > Len(es) /\ n # Len(all) => all[n].event = "assistant.reply.started"
  <2>1. all[Len(all)] = e /\ mid[Len(mid)] = b /\ \A n \in 1..Len(mid) : all[n] = mid[n]
    BY <1>2, <1>4 DEF Speaks, GoesOn
  <2>2. ASSUME NEW n \in 1..Len(all), n > Len(es), n # Len(all) PROVE all[n] = b
    <3>1. n = Len(mid) /\ n \in 1..Len(mid)
      BY <1>5, <2>2
    <3> QED BY <2>1, <3>1
  <2> QED BY <2>1, <2>2
<1>11. Len(all) > Len(es)
  BY <1>5
<1>12. Speaks(es, all, stream, index, 1, e.data.text, e)
  BY <1>6, <1>8, <1>9, <1>10, <1>11 DEF Speaks
<1> QED BY <1>1, <1>12 DEF all

\* What RepliesAreWhole says of one event, in a turn t: reply is what was told
\* until then, lost how many frames were lost.
ToldWell(e, reply, t, lost) ==
    LET said == t[e.data.block[1][1]][e.data.block[1][2]][e.data.block[2] + 1].text IN
    TellsReply(e) /\ e.event # "assistant.reply.started" =>
        /\ HasText(reply.text)
        /\ lost <= 1 => reply.begun <= 1
        /\ lost = 0 =>
            /\ reply.begun = 1 /\ IsPrefix(reply.text, said)
            /\ e.event = "assistant.reply.stopped" => reply.text = said

Until(es, n) == ReplyTold(es, es[n].data.stream, es[n].data.block[2])[n]

EventsWell(es, t, lost) == \A n \in 1..Len(es) : ToldWell(es[n], Until(es, n), t, lost)

\* What was told well stays so.
LEMMA BeforeWell ==
    ASSUME NEW es, NEW all, NEW t, NEW lost, GoesOn(es, all), EventsWell(es, t, lost),
           \A n \in 1..Len(all) : n > Len(es) => ToldWell(all[n], Until(all, n), t, lost)
    PROVE  EventsWell(all, t, lost)
<1> SUFFICES ASSUME NEW n \in 1..Len(all), n <= Len(es)
             PROVE  ToldWell(all[n], Until(all, n), t, lost)
  BY DEF EventsWell, GoesOn
<1>1. n \in 1..Len(es) /\ n \in 0..Len(es)
  BY DEF GoesOn
<1>2. all[n] = es[n] /\ Until(all, n) = Until(es, n)
  BY <1>1 DEF GoesOn, Until
<1> QED BY <1>1, <1>2 DEF EventsWell

LEMMA SilenceIsWell ==
    ASSUME NEW es, NEW all, NEW t, NEW lost, Silent(es, all), EventsWell(es, t, lost)
    PROVE  EventsWell(all, t, lost)
<1>1. \A n \in 1..Len(all) : n > Len(es) => ToldWell(all[n], Until(all, n), t, lost)
  BY DEF Silent, ToldWell
<1> QED BY <1>1, BeforeWell DEF Silent

LEMMA SpeechIsWell ==
    ASSUME NEW es, NEW all, NEW t, NEW lost, NEW stream, NEW index, NEW begins, NEW text, NEW e,
           Speaks(es, all, stream, index, begins, text, e), EventsWell(es, t, lost),
           e.data.stream = stream, e.data.block[2] = index,
           ToldWell(e, SoFar(all, stream, index), t, lost)
    PROVE  EventsWell(all, t, lost)
<1>1. ASSUME NEW n \in 1..Len(all), n > Len(es) PROVE ToldWell(all[n], Until(all, n), t, lost)
  <2>1. CASE n = Len(all)
    <3>1. all[n] = e /\ Until(all, n) = SoFar(all, stream, index)
      BY <2>1 DEF Speaks, Until, SoFar
    <3> QED BY <3>1
  <2>2. CASE n # Len(all)
    BY <1>1, <2>2 DEF Speaks, ToldWell
  <2> QED BY <2>1, <2>2
<1> QED BY <1>1, BeforeWell DEF Speaks

-----------------------------------------------------------------------------
(* Texts *)

LEMMA TextOfTwo ==
    ASSUME NEW s, NEW u, IsSeq(s), IsSeq(u)
    PROVE  IsSeq(s \o u) /\ (HasText(s \o u) <=> HasText(s) \/ HasText(u))
<1>1. \A x : IsSeq(x) => (HasText(x) <=> \E y \in Range(x) : y # "blank")
  BY Elements DEF HasText, Range
<1>2. IsSeq(s \o u) /\ Range(s \o u) = Range(s) \cup Range(u)
  BY Joined
<1> QED BY <1>1, <1>2

\* One more piece of a text.
LEMMA NextPiece ==
    ASSUME NEW b, IsSeq(b), NEW n \in Nat, n < Len(b)
    PROVE  SubSeq(b, 1, n) \o <<b[n + 1]>> = SubSeq(b, 1, n + 1)
<1>1. b \in Seq(Range(b)) /\ Len(b) \in Nat
  BY Elements DEF IsSeq
<1> DEFINE X == Range(b)
<1> HIDE DEF X
<1>2. b \in Seq(X)
  BY <1>1 DEF X
<1> QED BY <1>1, <1>2

\* What is shown of a text is its beginning when the rest was held back.
LEMMA ShownIsPrefix ==
    ASSUME NEW b, IsSeq(b), NEW n \in Nat, n <= Len(b), NEW s, NEW u, IsSeq(s), IsSeq(u),
           s \o u = SubSeq(b, 1, n)
    PROVE  IsPrefix(s, b)
<1>1. Len(b) \in Nat /\ Len(s) \in Nat /\ Len(u) \in Nat /\ DOMAIN b = 1..Len(b)
  BY Elements
<1> DEFINE X == Range(b) \cup Range(s) \cup Range(u)
<1>2. b \in Seq(X) /\ s \in Seq(X) /\ u \in Seq(X)
  <2>1. /\ s \in Seq(Range(s)) /\ b \in Seq(Range(b)) /\ u \in Seq(Range(u))
        /\ Range(s) \subseteq X /\ Range(b) \subseteq X /\ Range(u) \subseteq X
    BY DEF IsSeq
  <2> HIDE DEF X
  <2> QED BY <2>1
<1> HIDE DEF X
<1>3. Len(SubSeq(b, 1, n)) = n /\ \A i \in 1..n : SubSeq(b, 1, n)[i] = b[i]
  BY <1>1, <1>2
<1>4. Len(s \o u) = Len(s) + Len(u) /\ \A i \in 1..Len(s) : (s \o u)[i] = s[i]
  BY <1>1, <1>2
<1>5. Len(s) <= n /\ \A i \in 1..Len(s) : s[i] = b[i]
  BY <1>1, <1>3, <1>4
<1>6. SubSeq(s, 1, Len(s)) = SubSeq(b, 1, Len(s))
  <2>1. \A i \in 1..Len(s) : s[i] = b[i]
    BY <1>5
  <2> QED BY <1>1, <1>2, <1>5, <2>1
<1> QED BY <1>1, <1>5, <1>6 DEF IsPrefix

-----------------------------------------------------------------------------
(* What one frame tells, for any adapter *)

WellTold(es) ==
    /\ IsSeq(es)
    /\ \A stream, index : SoFar(es, stream, index).begun \in Nat /\ IsSeq(SoFar(es, stream, index).text)

KeptReply(ad, key) == Get(ad.replies, key, [start |-> FALSE, pending |-> <<>>, visible |-> FALSE])
ReplyKey(ad, m) == <<ad.streams[m.parent].stream, m.index>>

SaysDelta(ad, m, text) == Event("assistant.reply.delta", m, StreamData(ad.streams[m.parent], m, text))
SaysStop(ad, m) == Event("assistant.reply.stopped", m, StreamData(ad.streams[m.parent], m, <<>>))

Speech(e, name, ad, m, text) ==
    /\ e.event = name /\ e.data.text = text
    /\ e.data.stream = ad.streams[m.parent].stream
    /\ e.data.block = <<ad.streams[m.parent].message, m.index>> /\ e.data.block[2] = m.index
    /\ TellsReply(e) <=> name \in {"assistant.reply.started", "assistant.reply.delta",
                                   "assistant.reply.stopped"}

LEMMA StreamSays ==
    ASSUME NEW ad, NEW m, NEW text, NEW name
    PROVE  Speech(Event(name, m, StreamData(ad.streams[m.parent], m, text)), name, ad, m, text)
  BY DEF Event, StreamData, TellsReply, Speech

\* The next piece of a reply is shown, with what was held back, or held back, too.
Shows(ad, m, r, es) ==
    LET reply == KeptReply(ad, ReplyKey(ad, m))
        text  == IF reply.visible THEN m.text ELSE reply.pending \o m.text
    IN  /\ reply.visible \/ HasText(text)
        /\ r.ad = [ad EXCEPT !.replies =
                      Put(@, ReplyKey(ad, m), [start |-> FALSE, pending |-> <<>>, visible |-> TRUE])]
        /\ Speaks(es, es \o r.events, ad.streams[m.parent].stream, m.index,
                  IF reply.start THEN 1 ELSE 0, text, SaysDelta(ad, m, text))

HoldsBack(ad, m, r, es) ==
    LET reply == KeptReply(ad, ReplyKey(ad, m)) IN
    /\ ~ reply.visible /\ ~ HasText(reply.pending \o m.text)
    /\ r.ad = [ad EXCEPT !.replies =
                  Put(@, ReplyKey(ad, m), [reply EXCEPT !.pending = reply.pending \o m.text])]
    /\ Silent(es, es \o r.events)

LEMMA TextTold ==
    ASSUME NEW ad, NEW m, NEW es, WellTold(es)
    PROVE  LET r == TextDelta(ad, ad.streams[m.parent], m)
           IN  Shows(ad, m, r, es) \/ HoldsBack(ad, m, r, es)
<1> DEFINE s == ad.streams[m.parent]
           key == ReplyKey(ad, m)
           reply == KeptReply(ad, key)
           text == IF reply.visible THEN m.text ELSE reply.pending \o m.text
           start == Event("assistant.reply.started", m, StreamData(s, m, <<>>))
           started == IF reply.start THEN <<start>> ELSE <<>>
           e == SaysDelta(ad, m, text)
           r == TextDelta(ad, s, m)
           shown == [ad EXCEPT !.replies = Put(@, key, [start |-> FALSE, pending |-> <<>>, visible |-> TRUE])]
           kept2 == [ad EXCEPT !.replies = Put(@, key, [reply EXCEPT !.pending = text])]
<1>1. r = IF reply.visible \/ HasText(text) THEN [ad |-> shown, events |-> started \o <<e>>]
          ELSE [ad |-> kept2, events |-> <<>>]
  BY Zenon DEF TextDelta, KeptReply, ReplyKey, Revealed, SaysDelta
<1>2. /\ TellsReply(e) /\ e.event = "assistant.reply.delta" /\ e.data.text = text
      /\ e.data.stream = s.stream /\ e.data.block[2] = m.index
      /\ TellsReply(start) /\ start.event = "assistant.reply.started" /\ start.data.text = <<>>
      /\ start.data.stream = s.stream /\ start.data.block[2] = m.index
  <2> HIDE DEF text
  <2>1. /\ TellsReply(e) /\ e.event = "assistant.reply.delta" /\ e.data.text = text
        /\ e.data.stream = s.stream /\ e.data.block[2] = m.index
    <3>1. Speech(e, "assistant.reply.delta", ad, m, text)
      BY StreamSays, Zenon DEF SaysDelta
    <3> HIDE DEF e
    <3> QED BY <3>1 DEF Speech
  <2>2. /\ TellsReply(start) /\ start.event = "assistant.reply.started" /\ start.data.text = <<>>
        /\ start.data.stream = s.stream /\ start.data.block[2] = m.index
    <3>1. Speech(start, "assistant.reply.started", ad, m, <<>>)
      BY StreamSays, Zenon
    <3> HIDE DEF start
    <3> QED BY <3>1 DEF Speech
  <2> HIDE DEF e, start, s
  <2> QED BY <2>1, <2>2
<1>3. IsSeq(es) /\ SoFar(es, s.stream, m.index).begun \in Nat /\ IsSeq(SoFar(es, s.stream, m.index).text)
  BY DEF WellTold
<1>4. CASE reply.visible \/ HasText(text)
  <2>1. r.ad = shown /\ r.events = started \o <<e>>
    BY <1>1, <1>4
  <2>2. Speaks(es, es \o r.events, s.stream, m.index, IF reply.start THEN 1 ELSE 0, text, e)
    <3>1. CASE reply.start
      <4>1. r.events = <<start>> \o <<e>>
        BY <2>1, <3>1
      <4> HIDE DEF e, start, s, text, reply, r
      <4>2. Speaks(es, es \o (<<start>> \o <<e>>), s.stream, m.index, 1, e.data.text, e)
        BY <1>2, <1>3, TwoSpeak
      <4> QED BY <1>2, <3>1, <4>1, <4>2
    <3>2. CASE ~ reply.start
      <4>1. r.events = <<e>>
        <5>1. <<>> \o <<e>> = <<e>>
          BY OneElement, NothingAdded
        <5> QED BY <2>1, <3>2, <5>1
      <4> HIDE DEF e, start, s, text, reply, r
      <4>2. Speaks(es, es \o <<e>>, s.stream, m.index, Beginning(e), e.data.text, e)
        BY <1>2, <1>3, OneSpeaks
      <4>3. Beginning(e) = 0
        BY <1>2 DEF Beginning
      <4> QED BY <1>2, <3>2, <4>1, <4>2, <4>3
    <3> QED BY <3>1, <3>2
  <2> HIDE DEF r
  <2>3. Shows(ad, m, r, es)
    BY <1>4, <2>1, <2>2, Zenon DEF Shows
  <2> QED BY <2>3 DEF r
<1>5. CASE ~ (reply.visible \/ HasText(text))
  <2>1. r.ad = kept2 /\ r.events = <<>> /\ text = reply.pending \o m.text
    <3>1. text = reply.pending \o m.text
      BY <1>5
    <3> HIDE DEF text, kept2, shown, started, e, reply, r
    <3> QED BY <1>1, <1>5, <3>1
  <2>2. Silent(es, es \o <<>>)
    BY <1>3, NoElements, SilenceGoesOn
  <2> HIDE DEF r
  <2>3. ~ reply.visible /\ ~ HasText(reply.pending \o m.text)
    BY <1>5, <2>1
  <2>4. r.ad = [ad EXCEPT !.replies = Put(@, key, [reply EXCEPT !.pending = reply.pending \o m.text])]
    BY <2>1, Zenon
  <2>5. Silent(es, es \o r.events)
    BY <2>1, <2>2
  <2>6. HoldsBack(ad, m, r, es)
    BY <2>3, <2>4, <2>5, Zenon DEF HoldsBack
  <2> QED BY <2>6 DEF r
<1> QED BY <1>4, <1>5

\* What one frame makes of an adapter whose stream it belongs to, and tells.
Opened(ad, m) ==
    [ad EXCEPT !.blocks = Put(@, ReplyKey(ad, m), m.kind),
               !.replies = IF m.kind = "text"
                           THEN Put(@, ReplyKey(ad, m), [start |-> TRUE, pending |-> <<>>, visible |-> FALSE])
                           ELSE @]
Ended(ad, m) == [ad EXCEPT !.replies = Restrict(@, DOMAIN @ \ {ReplyKey(ad, m)})]

FrameTold(ad, m, r, es) ==
    LET all   == es \o r.events
        kind  == Get(ad.blocks, ReplyKey(ad, m), "none")
        reply == Get(ad.replies, ReplyKey(ad, m), [visible |-> FALSE])
    IN  \/ m.raw = "message_start" /\ r.ad = ad /\ Silent(es, all)
        \/ m.raw = "content_block_start" /\ r.ad = Opened(ad, m) /\ Silent(es, all)
        \/ m.raw = "content_block_delta" /\ m.kind # "text" /\ r.ad = ad /\ Silent(es, all)
        \/ m.raw = "content_block_delta" /\ m.kind = "text" /\ (Shows(ad, m, r, es) \/ HoldsBack(ad, m, r, es))
        \/ m.raw = "content_block_stop" /\ kind # "text" /\ r.ad = ad /\ Silent(es, all)
        \/ /\ m.raw = "content_block_stop" /\ kind = "text" /\ r.ad = Ended(ad, m)
           /\ IF reply.visible
              THEN Speaks(es, all, ad.streams[m.parent].stream, m.index, 0, <<>>, SaysStop(ad, m))
              ELSE Silent(es, all)
        \/ m.raw = "message_stop" /\ r.ad = FinishStream(ad, m) /\ Silent(es, all)

IsRaw(m) ==
    /\ m.raw \in {"message_start", "content_block_start", "content_block_delta",
                  "content_block_stop", "message_stop"}
    /\ m.raw \in {"content_block_start", "content_block_delta"} => m.kind \in {"text", "thinking", "tool"}

LEMMA SilentEvents ==
    ASSUME NEW es, IsSeq(es)
    PROVE  /\ Silent(es, es \o <<>>)
           /\ \A e : ~ TellsReply(e) => Silent(es, es \o <<e>>)
<1>1. Silent(es, es \o <<>>)
  BY NoElements, SilenceGoesOn
<1>2. ASSUME NEW e, ~ TellsReply(e) PROVE Silent(es, es \o <<e>>)
  BY <1>2, OneElement, SilenceGoesOn
<1> QED BY <1>1, <1>2

LEMMA FrameTells ==
    ASSUME NEW before, NEW m, NEW es, WellTold(es), IsAdapter(WithStream(before, m)), IsRaw(m)
    PROVE  FrameTold(WithStream(before, m), m, AdaptStream(before, m), es)
<1> DEFINE ad == WithStream(before, m)
           s == ad.streams[m.parent]
           key == ReplyKey(ad, m)
           r == AdaptStream(before, m)
           said(name, text) == Event(name, m, StreamData(s, m, text))
<1>1. IsSeq(es)
  BY DEF WellTold
<1>2. ASSUME NEW name, NEW text,
             name \notin {"assistant.reply.started", "assistant.reply.delta", "assistant.reply.stopped"}
      PROVE  Silent(es, es \o <<said(name, text)>>)
  <2>1. Speech(said(name, text), name, ad, m, text)
    BY StreamSays, Zenon
  <2> HIDE DEF said
  <2>2. ~ TellsReply(said(name, text))
    BY <1>2, <2>1 DEF Speech
  <2> QED BY <1>1, <2>2, SilentEvents
<1>3. CASE m.raw = "message_start"
  <2>1. r = [ad |-> ad, events |-> <<said("assistant.message.started", <<>>)>>]
    BY <1>3, Zenon DEF AdaptStream
  <2> HIDE DEF ad, r, said
  <2>2. Silent(es, es \o r.events) /\ r.ad = ad
    BY <1>2, <2>1
  <2> QED BY <1>3, <2>2 DEF FrameTold, ad, r
<1>4. CASE m.raw = "content_block_start"
  <2>0. r = BlockStart(ad, s, m)
    BY <1>4, Zenon DEF AdaptStream
  <2> DEFINE new == [start |-> TRUE, pending |-> <<>>, visible |-> FALSE]
             open == [ad EXCEPT !.blocks = Put(@, key, m.kind)]
  <2>1. /\ r.ad = IF m.kind = "text" THEN [open EXCEPT !.replies = Put(@, key, new)] ELSE open
        /\ r.events = IF m.kind = "thinking" THEN <<said("assistant.thinking.started", <<>>)>> ELSE <<>>
    <3>1. m.kind \in {"text", "thinking", "tool"}
      BY <1>4 DEF IsRaw
    <3> QED BY <2>0, <3>1 DEF BlockStart, ReplyKey
  <2>2. IsAdapter(ad)
    OBVIOUS
  <2> HIDE DEF ad, r, said
  <2>3. Silent(es, es \o r.events)
    BY <1>1, <1>2, <2>1, SilentEvents
  <2>4. r.ad = Opened(ad, m)
    <3> HIDE DEF new, key
    <3> QED BY <2>1, <2>2 DEF Opened, IsAdapter, key, new
  <2> QED BY <1>4, <2>3, <2>4 DEF FrameTold, ad, r
<1>5. CASE m.raw = "content_block_delta"
  <2>0. r = BlockDelta(ad, s, m) /\ m.kind \in {"text", "thinking", "tool"}
    BY <1>5, Zenon DEF AdaptStream, IsRaw
  <2>1. CASE m.kind = "text"
    <3>1. r = TextDelta(ad, s, m)
      BY <2>0, <2>1, Zenon DEF BlockDelta
    <3> HIDE DEF ad, r
    <3>2. Shows(ad, m, r, es) \/ HoldsBack(ad, m, r, es)
      BY <3>1, TextTold
    <3> QED BY <1>5, <2>1, <3>2, Zenon DEF FrameTold, ad, r
  <2>2. CASE m.kind = "thinking"
    <3>1. r = [ad |-> ad, events |-> <<said("assistant.thinking.delta", m.text)>>]
      BY <2>0, <2>2 DEF BlockDelta
    <3> HIDE DEF ad, r, said
    <3>2. Silent(es, es \o r.events) /\ r.ad = ad
      BY <1>2, <3>1
    <3> QED BY <1>5, <2>2, <3>2 DEF FrameTold, ad, r
  <2>3. CASE m.kind = "tool"
    <3> DEFINE name == IF m.parent = Main THEN "tool.input.delta" ELSE "subagent.tool.input.delta"
    <3>1. r = [ad |-> ad, events |-> <<said(name, <<>>)>>]
      BY <2>0, <2>3 DEF BlockDelta, Named
    <3>2. name \notin {"assistant.reply.started", "assistant.reply.delta", "assistant.reply.stopped"}
      OBVIOUS
    <3> HIDE DEF ad, r, said, name
    <3>3. Silent(es, es \o r.events) /\ r.ad = ad
      BY <1>2, <3>1, <3>2
    <3> QED BY <1>5, <2>3, <3>3 DEF FrameTold, ad, r
  <2> QED BY <2>0, <2>1, <2>2, <2>3
<1>6. CASE m.raw = "content_block_stop"
  <2>0. r = BlockStop(ad, s, m)
    BY <1>6, Zenon DEF AdaptStream
  <2> DEFINE kind == Get(ad.blocks, key, "none")
             reply == Get(ad.replies, key, [visible |-> FALSE])
  <2>1. CASE kind = "text"
    <3>1. /\ r.ad = Ended(ad, m)
          /\ r.events = IF reply.visible THEN <<SaysStop(ad, m)>> ELSE <<>>
      BY <2>0, <2>1 DEF BlockStop, ReplyKey, Ended, SaysStop
    <3> DEFINE e == SaysStop(ad, m)
    <3>2. Speech(e, "assistant.reply.stopped", ad, m, <<>>)
      BY StreamSays, Zenon DEF SaysStop
    <3> HIDE DEF ad, r, e
    <3>3. /\ TellsReply(e) /\ Beginning(e) = 0 /\ e.data.text = <<>>
          /\ e.data.stream = ad.streams[m.parent].stream /\ e.data.block[2] = m.index
      BY <3>2 DEF Speech, Beginning
    <3>4. CASE reply.visible
      <4>1. r.events = <<e>>
        BY <3>1, <3>4 DEF e
      <4>2. Speaks(es, es \o r.events, ad.streams[m.parent].stream, m.index, 0, <<>>, e)
        <5>1. Speaks(es, es \o <<e>>, ad.streams[m.parent].stream, m.index, Beginning(e), e.data.text, e)
          BY <1>1, <3>3, OneSpeaks
        <5> QED BY <3>3, <4>1, <5>1
      <4> QED BY <1>6, <2>1, <3>1, <3>4, <4>2, Zenon DEF FrameTold, ad, r, e
    <3>5. CASE ~ reply.visible
      <4>1. Silent(es, es \o r.events)
        BY <1>1, <3>1, <3>5, SilentEvents
      <4> QED BY <1>6, <2>1, <3>1, <3>5, <4>1, Zenon DEF FrameTold, ad, r
    <3> QED BY <3>4, <3>5
  <2>2. CASE kind # "text"
    <3>1. /\ r.ad = ad
          /\ r.events = IF kind = "thinking" THEN <<said("assistant.thinking.stopped", <<>>)>> ELSE <<>>
      BY <2>0, <2>2 DEF BlockStop, ReplyKey
    <3> HIDE DEF ad, r, said
    <3>2. Silent(es, es \o r.events)
      BY <1>1, <1>2, <3>1, SilentEvents
    <3> QED BY <1>6, <2>2, <3>1, <3>2, Zenon DEF FrameTold, ad, r
  <2> QED BY <2>1, <2>2
<1>7. CASE m.raw = "message_stop"
  <2>1. r = [ad |-> FinishStream(ad, m), events |-> <<said("assistant.message.stopped", <<>>)>>]
    BY <1>7, Zenon DEF AdaptStream
  <2> HIDE DEF ad, r, said
  <2>2. Silent(es, es \o r.events) /\ r.ad = FinishStream(ad, m)
    BY <1>2, <2>1
  <2> QED BY <1>7, <2>2 DEF FrameTold, ad, r
<1> QED BY <1>3, <1>4, <1>5, <1>6, <1>7 DEF IsRaw

-----------------------------------------------------------------------------
(* However many frames are lost *)

\* What is held back is blank, and what is visible has text.
ReplyHeld(reply) ==
    /\ DOMAIN reply = {"start", "pending", "visible"}
    /\ reply.start \in BOOLEAN /\ reply.visible \in BOOLEAN
    /\ IsSeq(reply.pending) /\ ~ HasText(reply.pending)

RepliesHeld(ad, es) ==
    /\ IsAdapter(ad)
    /\ \A k \in DOMAIN ad.replies :
         /\ k = <<k[1], k[2]>> /\ ReplyHeld(ad.replies[k])
         /\ ad.replies[k].visible => HasText(SoFar(es, k[1], k[2]).text)

\* The replies of one adapter are some of another.
SomeReplies(ad, new) ==
    /\ IsAdapter(new)
    /\ \A k \in DOMAIN new.replies : k \in DOMAIN ad.replies /\ new.replies[k] = ad.replies[k]

LEMMA StreamKeepsReplies ==
    ASSUME NEW ad, NEW m, IsAdapter(ad)
    PROVE  SomeReplies(ad, WithStream(ad, m))
<1> DEFINE new == [stream |-> m.uuid, message |-> IF m.raw = "message_start" THEN m.message ELSE m.uuid]
<1>1. \A stream : SomeReplies(ad, Without(ad, stream))
  BY DEF SomeReplies, Without, IsAdapter, Restrict
<1>2. \A x : SomeReplies(ad, x) => SomeReplies(ad, [x EXCEPT !.streams = Put(@, m.parent, new)])
  BY DEF SomeReplies, IsAdapter
<1>3. SomeReplies(ad, ad)
  BY DEF SomeReplies
<1>4. \E old : /\ SomeReplies(ad, old)
               /\ WithStream(ad, m) \in {ad, [old EXCEPT !.streams = Put(@, m.parent, new)]}
  BY <1>1, <1>3, Zenon DEF WithStream
<1> QED BY <1>2, <1>3, <1>4

LEMMA FewerReplies ==
    ASSUME NEW ad, NEW m, IsAdapter(ad)
    PROVE  SomeReplies(ad, ad) /\ SomeReplies(ad, Ended(ad, m)) /\ SomeReplies(ad, FinishStream(ad, m))
<1>0. SomeReplies(ad, ad)
  BY DEF SomeReplies
<1>1. SomeReplies(ad, Ended(ad, m))
  BY DEF SomeReplies, Ended, IsAdapter, Restrict
<1> DEFINE mid == [ad EXCEPT !.streams = Restrict(@, DOMAIN @ \ {m.parent})]
           stream == ad.streams[m.parent].stream
<1>2. IsAdapter(mid) /\ mid.replies = ad.replies
  BY DEF IsAdapter
<1>3. FinishStream(ad, m) = Without(mid, stream)
  BY DEF FinishStream
<1> HIDE DEF mid
<1>4. SomeReplies(mid, Without(mid, stream))
  BY <1>2 DEF SomeReplies, Without, IsAdapter, Restrict
<1> QED BY <1>0, <1>1, <1>2, <1>3, <1>4 DEF SomeReplies

LEMMA SomeAreHeld ==
    ASSUME NEW ad, NEW new, NEW es, NEW all, RepliesHeld(ad, es), SomeReplies(ad, new),
           \A k \in DOMAIN new.replies :
               new.replies[k].visible /\ HasText(SoFar(es, k[1], k[2]).text) => HasText(SoFar(all, k[1], k[2]).text)
    PROVE  RepliesHeld(new, all)
  BY DEF RepliesHeld, SomeReplies

\* A frame leaves replies held back or visible as they should be; what it
\* tells of a reply has text.
LEMMA FrameHolds ==
    ASSUME NEW ad, NEW m, NEW r, NEW es, FrameTold(ad, m, r, es), RepliesHeld(ad, es), WellTold(es),
           IsSeq(m.text), m.parent \in DOMAIN ad.streams
    PROVE  LET all == es \o r.events IN
           /\ RepliesHeld(r.ad, all) /\ WellTold(all)
           /\ Silent(es, all) \/ HasText(SoFar(all, ad.streams[m.parent].stream, m.index).text)
<1> DEFINE all == es \o r.events
           stream == ad.streams[m.parent].stream
           index == m.index
           key == ReplyKey(ad, m)
           reply == KeptReply(ad, key)
           before == SoFar(es, stream, index)
           now == SoFar(all, stream, index)
<1> SUFFICES RepliesHeld(r.ad, all) /\ WellTold(all) /\ (Silent(es, all) \/ HasText(now.text))
  OBVIOUS
<1>1. IsAdapter(ad) /\ key = <<stream, index>> /\ before.begun \in Nat /\ IsSeq(before.text)
  BY DEF RepliesHeld, ReplyKey, WellTold
<1>2. ReplyHeld(reply) /\ (reply.visible => HasText(before.text))
  <2>1. CASE key \in DOMAIN ad.replies
    BY <1>1, <2>1 DEF RepliesHeld, KeptReply, Get
  <2>2. CASE key \notin DOMAIN ad.replies
    <3>1. reply = [start |-> FALSE, pending |-> <<>>, visible |-> FALSE]
      BY <2>2, Zenon DEF KeptReply, Get
    <3>2. IsSeq(<<>>) /\ ~ HasText(<<>>)
      BY NoElements DEF HasText
    <3> HIDE DEF reply
    <3> QED BY <3>1, <3>2 DEF ReplyHeld
  <2> QED BY <2>1, <2>2
<1> HIDE DEF all, reply
<1>3. ASSUME Silent(es, all) PROVE WellTold(all) /\ \A x, i : SoFar(all, x, i) = SoFar(es, x, i)
  BY <1>3 DEF Silent, WellTold, GoesOn
<1>4. ASSUME NEW begins \in Nat, NEW text, NEW e, IsSeq(text), Speaks(es, all, stream, index, begins, text, e)
      PROVE  /\ WellTold(all) /\ (HasText(now.text) <=> HasText(before.text) \/ HasText(text))
             /\ \A x, i : <<x, i>> # key => SoFar(all, x, i) = SoFar(es, x, i)
  <2>1. now = [begun |-> before.begun + begins, text |-> before.text \o text]
    BY <1>4 DEF Speaks
  <2>2. IsSeq(before.text \o text) /\ (HasText(before.text \o text) <=> HasText(before.text) \/ HasText(text))
    BY <1>1, <1>4, TextOfTwo
  <2>3. \A x, i : <<x, i>> # key => SoFar(all, x, i) = SoFar(es, x, i)
    BY <1>1, <1>4 DEF Speaks
  <2> HIDE DEF before
  <2>4. now.begun \in Nat /\ IsSeq(now.text)
    BY <1>1, <2>1, <2>2
  <2> HIDE DEF now
  <2>5. WellTold(all)
    <3>1. \A x, i : SoFar(all, x, i).begun \in Nat /\ IsSeq(SoFar(all, x, i).text)
      <4> SUFFICES ASSUME NEW x, NEW i PROVE SoFar(all, x, i).begun \in Nat /\ IsSeq(SoFar(all, x, i).text)
        OBVIOUS
      <4>1. CASE <<x, i>> = key
        <5>1. SoFar(all, x, i) = now
          BY <1>1, <4>1 DEF now
        <5> QED BY <2>4, <5>1
      <4>2. CASE <<x, i>> # key
        BY <2>3, <4>2 DEF WellTold
      <4> QED BY <4>1, <4>2
    <3> QED BY <1>4, <3>1 DEF WellTold, Speaks, GoesOn
  <2> QED BY <2>1, <2>2, <2>3, <2>5
<1>5. ASSUME Silent(es, all), SomeReplies(ad, r.ad) PROVE RepliesHeld(r.ad, all)
  BY <1>3, <1>5, SomeAreHeld
<1>6. ASSUME NEW new, ReplyHeld(new), r.ad = [ad EXCEPT !.replies = Put(@, key, new)],
             new.visible => HasText(now.text),
             \A x, i : <<x, i>> # key => SoFar(all, x, i) = SoFar(es, x, i)
      PROVE  RepliesHeld(r.ad, all)
  <2>1. /\ IsAdapter(r.ad) /\ DOMAIN r.ad.replies = DOMAIN ad.replies \cup {key}
        /\ r.ad.replies[key] = new
        /\ \A k \in DOMAIN ad.replies \ {key} : r.ad.replies[k] = ad.replies[k]
    <3>1. IsAdapter(r.ad) /\ r.ad.replies = Put(ad.replies, key, new)
      BY <1>1, <1>6 DEF IsAdapter
    <3> HIDE DEF key
    <3> QED BY <3>1 DEF Put
  <2>2. ASSUME NEW k \in DOMAIN ad.replies \ {key}
        PROVE  /\ k = <<k[1], k[2]>> /\ ReplyHeld(r.ad.replies[k])
               /\ r.ad.replies[k].visible => HasText(SoFar(all, k[1], k[2]).text)
    BY <1>6, <2>1 DEF RepliesHeld
  <2>3. key = <<key[1], key[2]>> /\ SoFar(all, key[1], key[2]) = now
    BY <1>1
  <2> HIDE DEF key, now
  <2> QED BY <1>6, <2>1, <2>2, <2>3 DEF RepliesHeld
<1>7. SomeReplies(ad, ad)
  BY <1>1 DEF SomeReplies
<1>8. CASE r.ad = ad /\ Silent(es, all)
  BY <1>3, <1>5, <1>7, <1>8
<1>9. CASE r.ad = Opened(ad, m) /\ Silent(es, all)
  <2> DEFINE new == [start |-> TRUE, pending |-> <<>>, visible |-> FALSE]
             mid == [ad EXCEPT !.blocks = Put(@, key, m.kind)]
  <2>1. ReplyHeld(new) /\ new.visible = FALSE
    BY NoElements DEF ReplyHeld, HasText
  <2>2. SomeReplies(ad, mid) /\ IsAdapter(mid) /\ mid.replies = ad.replies
    BY <1>1 DEF SomeReplies, IsAdapter
  <2>3. r.ad = IF m.kind = "text" THEN [mid EXCEPT !.replies = Put(@, key, new)] ELSE mid
    BY <1>1, <1>9 DEF Opened, IsAdapter
  <2> HIDE DEF mid, new, key, now
  <2>4. CASE m.kind = "text"
    <3>1. /\ IsAdapter(r.ad) /\ DOMAIN r.ad.replies = DOMAIN ad.replies \cup {key}
          /\ r.ad.replies[key] = new
          /\ \A k \in DOMAIN ad.replies \ {key} : r.ad.replies[k] = ad.replies[k]
      <4>1. IsAdapter(r.ad) /\ r.ad.replies = Put(ad.replies, key, new)
        BY <2>2, <2>3, <2>4 DEF IsAdapter
      <4> QED BY <4>1 DEF Put
    <3>2. key = <<key[1], key[2]>>
      BY <1>1
    <3>3. \A x, i : SoFar(all, x, i) = SoFar(es, x, i)
      BY <1>3, <1>9
    <3>4. RepliesHeld(r.ad, all)
      BY <2>1, <3>1, <3>2, <3>3 DEF RepliesHeld
    <3> QED BY <1>3, <1>9, <3>4
  <2>5. CASE m.kind # "text"
    BY <1>3, <1>5, <1>9, <2>2, <2>3, <2>5
  <2> QED BY <2>4, <2>5
<1>10. CASE Shows(ad, m, r, es)
  <2> DEFINE text == IF reply.visible THEN m.text ELSE reply.pending \o m.text
             begins == IF reply.start THEN 1 ELSE 0
             new == [start |-> FALSE, pending |-> <<>>, visible |-> TRUE]
  <2>1. /\ reply.visible \/ HasText(text)
        /\ r.ad = [ad EXCEPT !.replies = Put(@, key, new)]
        /\ Speaks(es, all, stream, index, begins, text, SaysDelta(ad, m, text))
    BY <1>10, Zenon DEF Shows, all, reply
  <2>2. IsSeq(text) /\ begins \in Nat
    BY <1>2, TextOfTwo DEF ReplyHeld
  <2> HIDE DEF text, begins
  <2>3. /\ WellTold(all) /\ (HasText(now.text) <=> HasText(before.text) \/ HasText(text))
        /\ \A x, i : <<x, i>> # key => SoFar(all, x, i) = SoFar(es, x, i)
    BY <1>4, <2>1, <2>2
  <2>4. ReplyHeld(new)
    BY NoElements DEF ReplyHeld, HasText
  <2> HIDE DEF new, now, before
  <2>5. HasText(now.text)
    BY <1>2, <2>1, <2>3
  <2>6. RepliesHeld(r.ad, all)
    BY <1>6, <2>1, <2>3, <2>4, <2>5
  <2> QED BY <2>3, <2>5, <2>6, Zenon
<1>11. CASE HoldsBack(ad, m, r, es)
  <2> DEFINE new == [reply EXCEPT !.pending = reply.pending \o m.text]
  <2>1. /\ ~ reply.visible /\ ~ HasText(reply.pending \o m.text)
        /\ r.ad = [ad EXCEPT !.replies = Put(@, key, new)] /\ Silent(es, all)
    BY <1>11, Zenon DEF HoldsBack, all, reply
  <2>2. IsSeq(reply.pending \o m.text)
    BY <1>2, TextOfTwo DEF ReplyHeld
  <2>3. ReplyHeld(new) /\ new.visible = FALSE
    BY <1>2, <2>1, <2>2 DEF ReplyHeld
  <2> HIDE DEF new, now
  <2>4. RepliesHeld(r.ad, all)
    BY <1>3, <1>6, <2>1, <2>3
  <2> QED BY <1>3, <2>1, <2>4
<1>12. SomeReplies(ad, Ended(ad, m)) /\ SomeReplies(ad, FinishStream(ad, m))
  BY <1>1, FewerReplies
<1>13. CASE r.ad \in {Ended(ad, m), FinishStream(ad, m)} /\ Silent(es, all)
  BY <1>3, <1>5, <1>12, <1>13
<1>14. CASE /\ r.ad = Ended(ad, m) /\ Get(ad.replies, key, [visible |-> FALSE]).visible
            /\ Speaks(es, all, stream, index, 0, <<>>, SaysStop(ad, m))
  <2>1. /\ WellTold(all) /\ (HasText(now.text) <=> HasText(before.text) \/ HasText(<<>>))
        /\ \A x, i : <<x, i>> # key => SoFar(all, x, i) = SoFar(es, x, i)
    BY <1>4, <1>14, NoElements
  <2>2. reply.visible
    BY <1>14 DEF reply, KeptReply, Get
  <2>3. HasText(now.text)
    BY <1>2, <2>1, <2>2
  <2>4. key \notin DOMAIN Ended(ad, m).replies
    BY <1>1 DEF Ended, IsAdapter, Restrict
  <2>5. \A k \in DOMAIN r.ad.replies : k = <<k[1], k[2]>> /\ k # key
    BY <1>12, <1>14, <2>4 DEF SomeReplies, RepliesHeld
  <2>6. \A k \in DOMAIN r.ad.replies : SoFar(all, k[1], k[2]) = SoFar(es, k[1], k[2])
    BY <2>1, <2>5
  <2>7. RepliesHeld(r.ad, all)
    BY <1>12, <1>14, <2>6, SomeAreHeld
  <2> HIDE DEF now, before
  <2> QED BY <2>1, <2>3, <2>7, Zenon
<1>15. \/ r.ad = ad /\ Silent(es, all)
       \/ r.ad = Opened(ad, m) /\ Silent(es, all)
       \/ Shows(ad, m, r, es) \/ HoldsBack(ad, m, r, es)
       \/ r.ad \in {Ended(ad, m), FinishStream(ad, m)} /\ Silent(es, all)
       \/ /\ r.ad = Ended(ad, m) /\ Get(ad.replies, key, [visible |-> FALSE]).visible
          /\ Speaks(es, all, stream, index, 0, <<>>, SaysStop(ad, m))
  BY Zenon DEF FrameTold, all
<1> QED BY <1>8, <1>9, <1>10, <1>11, <1>13, <1>14, <1>15 DEF all

-----------------------------------------------------------------------------
(* What one frame leaves as it was *)

SameAt(f, g, k) == (k \in DOMAIN f <=> k \in DOMAIN g) /\ (k \in DOMAIN f => f[k] = g[k])

\* The blocks and replies of streams with other names are the same.
SameBut(ad, new, stream) ==
    \A k : k[1] # stream => SameAt(ad.blocks, new.blocks, k) /\ SameAt(ad.replies, new.replies, k)

LEMMA WithoutIs ==
    ASSUME NEW ad, NEW stream, IsAdapter(ad)
    PROVE  LET new == Without(ad, stream) IN
           IsAdapter(new) /\ new.streams = ad.streams /\ SameBut(ad, new, stream)
<1> DEFINE X == {k \in DOMAIN ad.blocks : k[1] # stream}
           Y == {k \in DOMAIN ad.replies : k[1] # stream}
           new == Without(ad, stream)
<1>1. new = [ad EXCEPT !.blocks = Restrict(ad.blocks, X), !.replies = Restrict(ad.replies, Y)]
  BY DEF Without, IsAdapter
<1>2. /\ IsAdapter(new) /\ new.streams = ad.streams
      /\ new.blocks = Restrict(ad.blocks, X) /\ new.replies = Restrict(ad.replies, Y)
  <2> HIDE DEF X, Y, new
  <2> QED BY <1>1 DEF IsAdapter
<1>3. /\ DOMAIN new.blocks = X /\ \A k \in X : new.blocks[k] = ad.blocks[k]
      /\ DOMAIN new.replies = Y /\ \A k \in Y : new.replies[k] = ad.replies[k]
  <2> HIDE DEF X, Y, new
  <2> QED BY <1>2 DEF Restrict
<1> HIDE DEF new
<1>4. SameBut(ad, new, stream)
  BY <1>3 DEF SameBut, SameAt
<1> QED BY <1>2, <1>4 DEF new

LEMMA PutIs ==
    ASSUME NEW f, NEW k, NEW v, NEW g, g = Put(f, k, v)
    PROVE  \A j : j # k => SameAt(f, g, j)
  BY DEF Put, SameAt

IsPut(g, f, k, v) == g = Put(f, k, v)

LEMMA PutAt ==
    ASSUME NEW f, NEW k, NEW v, NEW g, IsPut(g, f, k, v)
    PROVE  k \in DOMAIN g /\ g[k] = v
  BY DEF Put, IsPut

\* A frame belongs to the stream of its agent, or begins a new one.
NewStream(before, now, m) ==
    /\ m.raw = "message_start" \/ m.parent \notin DOMAIN before.streams
    /\ DOMAIN now.streams = DOMAIN before.streams \cup {m.parent}
    /\ now.streams[m.parent] =
         [stream |-> m.uuid, message |-> IF m.raw = "message_start" THEN m.message ELSE m.uuid]
    /\ \A b \in DOMAIN before.streams \ {m.parent} : now.streams[b] = before.streams[b]

LEMMA StreamIs ==
    ASSUME NEW before, NEW m, IsAdapter(before)
    PROVE  LET now == WithStream(before, m) IN
           /\ IsAdapter(now) /\ m.parent \in DOMAIN now.streams
           /\ \/ m.raw # "message_start" /\ m.parent \in DOMAIN before.streams /\ now = before
              \/ NewStream(before, now, m)
           /\ \E gone : /\ SameBut(before, now, gone)
                        /\ m.parent \in DOMAIN before.streams => gone = before.streams[m.parent].stream
                        /\ m.parent \notin DOMAIN before.streams => gone = m.uuid
<1> DEFINE a == m.parent
           now == WithStream(before, m)
           new == [stream |-> m.uuid, message |-> IF m.raw = "message_start" THEN m.message ELSE m.uuid]
           gone == IF a \in DOMAIN before.streams THEN before.streams[a].stream ELSE m.uuid
<1>1. CASE m.raw # "message_start" /\ a \in DOMAIN before.streams
  <2>1. now = before
    BY <1>1 DEF WithStream
  <2>2. SameBut(before, before, gone)
    BY DEF SameBut, SameAt
  <2> QED BY <1>1, <2>1, <2>2
<1>2. CASE m.raw = "message_start" \/ a \notin DOMAIN before.streams
  <2> DEFINE old == IF m.raw = "message_start" /\ a \in DOMAIN before.streams
                    THEN Without(before, gone) ELSE before
  <2>1. now = [old EXCEPT !.streams = Put(@, a, new)]
    BY <1>2 DEF WithStream
  <2>2. IsAdapter(old) /\ old.streams = before.streams /\ SameBut(before, old, gone)
    <3>1. SameBut(before, before, gone)
      BY DEF SameBut, SameAt
    <3> HIDE DEF gone
    <3> QED BY <3>1, WithoutIs
  <2> HIDE DEF old, new, gone
  <2>3. /\ IsAdapter(now) /\ now.streams = Put(before.streams, a, new)
        /\ now.blocks = old.blocks /\ now.replies = old.replies
    BY <2>1, <2>2 DEF IsAdapter
  <2> HIDE DEF now
  <2>4. SameBut(before, now, gone)
    BY <2>2, <2>3 DEF SameBut
  <2>5. /\ DOMAIN now.streams = DOMAIN before.streams \cup {a} /\ now.streams[a] = new
        /\ \A b \in DOMAIN before.streams \ {a} : now.streams[b] = before.streams[b]
    BY <2>3 DEF Put
  <2>6. NewStream(before, now, m)
    BY <1>2, <2>5 DEF NewStream, new
  <2> QED BY <2>3, <2>4, <2>5, <2>6 DEF now, gone
<1> QED BY <1>1, <1>2

\* What a frame does to its stream leaves everything else.
FrameLeaves(ad, m, r, es) ==
    LET all == es \o r.events
        key == ReplyKey(ad, m)
    IN  /\ IsAdapter(r.ad) /\ GoesOn(es, all)
        /\ DOMAIN r.ad.streams = IF m.raw = "message_stop" THEN DOMAIN ad.streams \ {m.parent}
                                 ELSE DOMAIN ad.streams
        /\ \A b \in DOMAIN r.ad.streams : r.ad.streams[b] = ad.streams[b]
        /\ \A x, i : <<x, i>> # key => SoFar(all, x, i) = SoFar(es, x, i)
        /\ SameBut(ad, r.ad, key[1])

LEMMA FrameElsewhere ==
    ASSUME NEW ad, NEW m, NEW r, NEW es, IsAdapter(ad), FrameTold(ad, m, r, es)
    PROVE  FrameLeaves(ad, m, r, es)
<1> DEFINE all == es \o r.events
           key == ReplyKey(ad, m)
           stream == ad.streams[m.parent].stream
<1>1. key = <<stream, m.index>> /\ key[1] = stream /\ \A k : k[1] # key[1] => k # key
  BY DEF ReplyKey
<1> HIDE DEF all
<1>2. ASSUME Silent(es, all)
      PROVE  GoesOn(es, all) /\ \A x, i : <<x, i>> # key => SoFar(all, x, i) = SoFar(es, x, i)
  BY <1>2 DEF Silent
<1>3. ASSUME NEW begins, NEW text, NEW e, Speaks(es, all, stream, m.index, begins, text, e)
      PROVE  GoesOn(es, all) /\ \A x, i : <<x, i>> # key => SoFar(all, x, i) = SoFar(es, x, i)
  BY <1>1, <1>3 DEF Speaks
<1>4. GoesOn(es, all) /\ \A x, i : <<x, i>> # key => SoFar(all, x, i) = SoFar(es, x, i)
  <2>1. \/ Silent(es, all)
        \/ \E begins, text, e : Speaks(es, all, stream, m.index, begins, text, e)
    BY Zenon DEF FrameTold, Shows, HoldsBack, all
  <2> QED BY <1>2, <1>3, <2>1
<1>5. \A new : /\ IsAdapter([ad EXCEPT !.replies = Put(@, key, new)])
               /\ [ad EXCEPT !.replies = Put(@, key, new)].streams = ad.streams
               /\ SameBut(ad, [ad EXCEPT !.replies = Put(@, key, new)], key[1])
  <2> TAKE new
  <2> DEFINE then == [ad EXCEPT !.replies = Put(@, key, new)]
  <2>1. /\ IsAdapter(then) /\ then.streams = ad.streams /\ then.blocks = ad.blocks
        /\ then.replies = Put(ad.replies, key, new)
    <3> HIDE DEF key
    <3> QED BY DEF IsAdapter
  <2> HIDE DEF then, key
  <2>2. SameBut(ad, then, key[1])
    <3>1. \A k : k # key => SameAt(ad.replies, then.replies, k)
      BY <2>1, PutIs
    <3> QED BY <1>1, <2>1, <3>1 DEF SameBut, SameAt
  <2> QED BY <2>1, <2>2 DEF then
<1>6. IsAdapter(Opened(ad, m)) /\ Opened(ad, m).streams = ad.streams /\ SameBut(ad, Opened(ad, m), key[1])
  <2> DEFINE then == Opened(ad, m)
             new == [start |-> TRUE, pending |-> <<>>, visible |-> FALSE]
  <2>1. /\ IsAdapter(then) /\ then.streams = ad.streams /\ then.blocks = Put(ad.blocks, key, m.kind)
        /\ then.replies = IF m.kind = "text" THEN Put(ad.replies, key, new) ELSE ad.replies
    <3> HIDE DEF key, new
    <3> QED BY DEF IsAdapter, Opened, key, new
  <2> HIDE DEF then, key, new
  <2>2. SameBut(ad, then, key[1])
    <3>1. \A k : k # key => SameAt(ad.blocks, then.blocks, k)
      BY <2>1, PutIs
    <3>2. \A k : k # key => SameAt(ad.replies, then.replies, k)
      <4>1. CASE m.kind = "text"
        BY <2>1, <4>1, PutIs
      <4>2. CASE m.kind # "text"
        BY <2>1, <4>2 DEF SameAt
      <4> QED BY <4>1, <4>2
    <3> QED BY <1>1, <3>1, <3>2 DEF SameBut
  <2> QED BY <2>1, <2>2 DEF then
<1>7. IsAdapter(Ended(ad, m)) /\ Ended(ad, m).streams = ad.streams /\ SameBut(ad, Ended(ad, m), key[1])
  <2> DEFINE then == Ended(ad, m)
             X == DOMAIN ad.replies \ {key}
  <2>1. /\ IsAdapter(then) /\ then.streams = ad.streams /\ then.blocks = ad.blocks
        /\ then.replies = Restrict(ad.replies, X)
    <3> HIDE DEF key
    <3> QED BY DEF IsAdapter, Ended, key
  <2> HIDE DEF then, X
  <2>2. DOMAIN then.replies = X /\ \A k \in X : then.replies[k] = ad.replies[k]
    BY <2>1 DEF Restrict
  <2>3. \A k : k # key => (k \in X <=> k \in DOMAIN ad.replies)
    BY DEF X
  <2> HIDE DEF key
  <2>4. SameBut(ad, then, key[1])
    BY <1>1, <2>1, <2>2, <2>3 DEF SameBut, SameAt
  <2> QED BY <2>1, <2>4 DEF then
<1>8. /\ IsAdapter(FinishStream(ad, m)) /\ SameBut(ad, FinishStream(ad, m), key[1])
      /\ DOMAIN FinishStream(ad, m).streams = DOMAIN ad.streams \ {m.parent}
      /\ \A b \in DOMAIN ad.streams \ {m.parent} : FinishStream(ad, m).streams[b] = ad.streams[b]
  <2> DEFINE Z == DOMAIN ad.streams \ {m.parent}
             mid == [ad EXCEPT !.streams = Restrict(@, Z)]
  <2>1. /\ IsAdapter(mid) /\ mid.streams = Restrict(ad.streams, Z)
        /\ mid.blocks = ad.blocks /\ mid.replies = ad.replies
    <3> HIDE DEF Z
    <3> QED BY DEF IsAdapter
  <2>2. FinishStream(ad, m) = Without(mid, stream)
    BY DEF FinishStream
  <2> HIDE DEF mid
  <2>3. DOMAIN mid.streams = Z /\ \A b \in Z : mid.streams[b] = ad.streams[b]
    <3> HIDE DEF Z
    <3> QED BY <2>1 DEF Restrict
  <2> HIDE DEF Z, stream
  <2>4. /\ IsAdapter(FinishStream(ad, m)) /\ FinishStream(ad, m).streams = mid.streams
        /\ SameBut(mid, FinishStream(ad, m), stream)
    BY <2>1, <2>2, WithoutIs
  <2>5. SameBut(ad, FinishStream(ad, m), stream)
    BY <2>1, <2>4 DEF SameBut
  <2> QED BY <1>1, <2>3, <2>4, <2>5 DEF Z, stream
<1>9. SameBut(ad, ad, key[1])
  BY DEF SameBut, SameAt
<1>10. \/ r.ad \in {ad, Opened(ad, m), Ended(ad, m)} /\ m.raw # "message_stop"
       \/ (\E new : r.ad = [ad EXCEPT !.replies = Put(@, key, new)]) /\ m.raw # "message_stop"
       \/ r.ad = FinishStream(ad, m) /\ m.raw = "message_stop"
  BY DEF FrameTold, Shows, HoldsBack
<1> HIDE DEF key
<1>11. /\ IsAdapter(r.ad) /\ SameBut(ad, r.ad, key[1])
       /\ DOMAIN r.ad.streams = IF m.raw = "message_stop" THEN DOMAIN ad.streams \ {m.parent}
                                ELSE DOMAIN ad.streams
       /\ \A b \in DOMAIN r.ad.streams : r.ad.streams[b] = ad.streams[b]
  <2>1. CASE r.ad \in {ad, Opened(ad, m), Ended(ad, m)} /\ m.raw # "message_stop"
    <3>1. IsAdapter(r.ad) /\ r.ad.streams = ad.streams /\ SameBut(ad, r.ad, key[1])
      BY <1>6, <1>7, <1>9, <2>1
    <3> QED BY <2>1, <3>1
  <2>2. CASE (\E new : r.ad = [ad EXCEPT !.replies = Put(@, key, new)]) /\ m.raw # "message_stop"
    <3>1. IsAdapter(r.ad) /\ r.ad.streams = ad.streams /\ SameBut(ad, r.ad, key[1])
      BY <1>5, <2>2, Zenon
    <3> QED BY <2>2, <3>1
  <2>3. CASE r.ad = FinishStream(ad, m) /\ m.raw = "message_stop"
    BY <1>8, <2>3
  <2> QED BY <1>10, <2>1, <2>2, <2>3
<1> QED BY <1>4, <1>11 DEF FrameLeaves, all, key

-----------------------------------------------------------------------------
(* While at most one frame was lost *)

\* A block with this index was not opened yet.
Unopened(place, i) == i \in Nat /\ i >= place.done /\ i >= place.open

\* A reply begins once: it is not yet begun while its start is kept, and
\* nothing is begun of blocks that were not opened; streams have names of frames.
BeginsOnce(ad, es, p, fs) ==
    /\ \A x, i : SoFar(es, x, i).begun <= 1 /\ (x \notin fs => SoFar(es, x, i) = Untold)
    /\ \A k \in DOMAIN ad.replies : ad.replies[k].start => SoFar(es, k[1], k[2]).begun = 0
    /\ \A a \in DOMAIN ad.streams : \A i : Unopened(p[a], i) => SoFar(es, ad.streams[a].stream, i).begun = 0

\* A frame opens the next block or tells of the open one.
Opens(m, p, q) ==
    LET a == m.parent IN
    /\ m.raw # "message_start" => \A i : Unopened(q[a], i) => Unopened(p[a], i)
    /\ m.raw = "content_block_start" => Unopened(p[a], m.index)
    /\ m.raw = "content_block_delta" => ~ Unopened(q[a], m.index)
    /\ \A b \in Agents \ {a} : q[b] = p[b]

LEMMA RepliesStart ==
    ASSUME NEW ad, NEW m, NEW r, NEW es, IsAdapter(ad), FrameTold(ad, m, r, es),
           NEW k \in DOMAIN r.ad.replies
    PROVE  /\ k # ReplyKey(ad, m) => k \in DOMAIN ad.replies
           /\ r.ad.replies[k].start =>
                \/ k \in DOMAIN ad.replies /\ ad.replies[k].start
                \/ k = ReplyKey(ad, m) /\ m.raw = "content_block_start"
<1> DEFINE key == ReplyKey(ad, m)
           Goal == /\ k # key => k \in DOMAIN ad.replies
                   /\ r.ad.replies[k].start =>
                        \/ k \in DOMAIN ad.replies /\ ad.replies[k].start
                        \/ k = key /\ m.raw = "content_block_start"
<1> SUFFICES Goal
  OBVIOUS
<1>1. ASSUME NEW new, r.ad = [ad EXCEPT !.replies = Put(@, key, new)],
             new.start => KeptReply(ad, key).start
      PROVE  Goal
  <2>1. /\ DOMAIN r.ad.replies = DOMAIN ad.replies \cup {key} /\ r.ad.replies[key] = new
        /\ \A j \in DOMAIN ad.replies \ {key} : r.ad.replies[j] = ad.replies[j]
    <3>1. r.ad.replies = Put(ad.replies, key, new)
      BY <1>1 DEF IsAdapter
    <3> HIDE DEF key
    <3> QED BY <3>1 DEF Put
  <2>2. KeptReply(ad, key).start => key \in DOMAIN ad.replies /\ ad.replies[key].start
    BY DEF KeptReply, Get
  <2> HIDE DEF key
  <2> QED BY <1>1, <2>1, <2>2
<1>2. CASE SomeReplies(ad, r.ad)
  BY <1>2 DEF SomeReplies
<1>3. CASE HoldsBack(ad, m, r, es)
  <2> DEFINE reply == KeptReply(ad, key)
             new == [reply EXCEPT !.pending = reply.pending \o m.text]
  <2>1. r.ad = [ad EXCEPT !.replies = Put(@, key, new)]
    BY <1>3 DEF HoldsBack
  <2>2. new.start => reply.start
    OBVIOUS
  <2> HIDE DEF new, key, Goal
  <2> QED BY <1>1, <2>1, <2>2, Zenon DEF reply
<1>4. CASE Shows(ad, m, r, es)
  <2> DEFINE new == [start |-> FALSE, pending |-> <<>>, visible |-> TRUE]
  <2>1. r.ad = [ad EXCEPT !.replies = Put(@, key, new)]
    BY <1>4 DEF Shows
  <2>2. ~ new.start
    OBVIOUS
  <2> HIDE DEF new, key, Goal
  <2> QED BY <1>1, <2>1, <2>2, Zenon
<1>5. CASE r.ad = Opened(ad, m) /\ m.raw = "content_block_start"
  <2> DEFINE new == [start |-> TRUE, pending |-> <<>>, visible |-> FALSE]
  <2>1. r.ad.replies = IF m.kind = "text" THEN Put(ad.replies, key, new) ELSE ad.replies
    <3> DEFINE mid == [ad EXCEPT !.blocks = Put(@, key, m.kind)]
    <3>1. IsAdapter(mid) /\ mid.replies = ad.replies
      <4> HIDE DEF key
      <4> QED BY DEF IsAdapter
    <3>2. r.ad = [mid EXCEPT !.replies = IF m.kind = "text" THEN Put(@, key, new) ELSE @]
      BY <1>5, Zenon DEF Opened
    <3> HIDE DEF mid, key, new
    <3> QED BY <3>1, <3>2 DEF IsAdapter
  <2> HIDE DEF key, new
  <2>2. k # key => k \in DOMAIN ad.replies /\ r.ad.replies[k] = ad.replies[k]
    <3>1. CASE m.kind = "text"
      <4>1. DOMAIN r.ad.replies = DOMAIN ad.replies \cup {key}
        BY <2>1, <3>1 DEF Put
      <4>2. k # key => SameAt(ad.replies, r.ad.replies, k)
        BY <2>1, <3>1, PutIs
      <4> QED BY <4>1, <4>2 DEF SameAt
    <3>2. CASE m.kind # "text"
      BY <2>1, <3>2
    <3> QED BY <3>1, <3>2
  <2>3. r.ad.replies[k].start => (k \in DOMAIN ad.replies /\ ad.replies[k].start) \/ k = key
    BY <2>2
  <2> QED BY <1>5, <2>2, <2>3
<1>6. SomeReplies(ad, ad) /\ SomeReplies(ad, Ended(ad, m)) /\ SomeReplies(ad, FinishStream(ad, m))
  BY FewerReplies
<1>7. \/ r.ad \in {ad, Ended(ad, m), FinishStream(ad, m)}
      \/ r.ad = Opened(ad, m) /\ m.raw = "content_block_start"
      \/ Shows(ad, m, r, es) \/ HoldsBack(ad, m, r, es)
  BY Zenon DEF FrameTold
<1> HIDE DEF key
<1> QED BY <1>2, <1>3, <1>4, <1>5, <1>6, <1>7

LEMMA FrameBeginsOnce ==
    ASSUME NEW before, NEW m, NEW es, NEW p, NEW q, NEW fs, NEW t,
           NEW gs, gs = fs \cup {m.uuid},
           RepliesHeld(before, es), WellTold(es), BeginsOnce(before, es, p, fs),
           Streaming(before, p, fs, t), IsFrame(m, p, q, fs), IsRaw(m), Opens(m, p, q)
    PROVE  LET r == AdaptStream(before, m) IN BeginsOnce(r.ad, es \o r.events, q, gs)
<1> DEFINE ad == WithStream(before, m)
           r == AdaptStream(before, m)
           all == es \o r.events
           a == m.parent
           stream == ad.streams[a].stream
           key == ReplyKey(ad, m)
<1>0. IsAdapter(before)
  BY DEF RepliesHeld
<1>1. /\ IsAdapter(ad) /\ a \in DOMAIN ad.streams
      /\ \/ m.raw # "message_start" /\ a \in DOMAIN before.streams /\ ad = before
         \/ NewStream(before, ad, m)
      /\ \E gone : /\ SameBut(before, ad, gone)
                   /\ a \in DOMAIN before.streams => gone = before.streams[a].stream
                   /\ a \notin DOMAIN before.streams => gone = m.uuid
  BY <1>0, StreamIs, Zenon
<1>2. Streaming(ad, q, gs, t)
  BY StreamIsKnown, Zenon
<1>3. FrameTold(ad, m, r, es)
  BY <1>1, FrameTells, Zenon
<1>4. m.uuid \notin fs /\ a \in Agents
  BY DEF IsFrame
<1>5. SomeReplies(before, ad)
  BY <1>0, StreamKeepsReplies
<1> HIDE DEF r, ad
<1>6. FrameLeaves(ad, m, r, es)
  BY <1>1, <1>3, FrameElsewhere
<1>7. key = <<stream, m.index>> /\ key[1] = stream /\ key[2] = m.index
  BY DEF ReplyKey
<1>8. /\ \A k \in DOMAIN ad.replies : ad.replies[k].start => SoFar(es, k[1], k[2]).begun = 0
      /\ \A b \in DOMAIN ad.streams : \A i : Unopened(q[b], i) => SoFar(es, ad.streams[b].stream, i).begun = 0
      /\ m.raw = "content_block_start" => SoFar(es, stream, m.index).begun = 0
  <2>1. \A k \in DOMAIN ad.replies : ad.replies[k].start => SoFar(es, k[1], k[2]).begun = 0
    BY <1>5 DEF SomeReplies, BeginsOnce
  <2>2. \A b \in DOMAIN before.streams : \A i :
           Unopened(p[b], i) => SoFar(es, before.streams[b].stream, i).begun = 0
    BY Zenon DEF BeginsOnce
  <2>3. ASSUME NEW b \in DOMAIN ad.streams, b # a
        PROVE  b \in DOMAIN before.streams /\ ad.streams[b] = before.streams[b] /\ q[b] = p[b]
    <3>1. b \in DOMAIN before.streams /\ ad.streams[b] = before.streams[b]
      BY <1>1, <2>3 DEF NewStream
    <3>2. b \in Agents
      BY <3>1 DEF Streaming, StreamsOK
    <3> QED BY <2>3, <3>1, <3>2 DEF Opens
  <2>4. CASE m.raw # "message_start" /\ a \in DOMAIN before.streams /\ ad = before
    <3>1. ASSUME NEW b \in DOMAIN ad.streams, NEW i, Unopened(q[b], i)
          PROVE  SoFar(es, ad.streams[b].stream, i).begun = 0
      <4>1. Unopened(p[b], i)
        BY <2>3, <2>4, <3>1, Zenon DEF Opens
      <4> QED BY <2>2, <2>4, <3>1, <4>1
    <3>2. m.raw = "content_block_start" => SoFar(es, stream, m.index).begun = 0
      BY <2>2, <2>4, Zenon DEF Opens
    <3> QED BY <2>1, <3>1, <3>2, Zenon
  <2>5. CASE NewStream(before, ad, m)
    <3>1. stream = m.uuid
      BY <2>5 DEF NewStream
    <3>2. \A i : SoFar(es, stream, i).begun = 0
      BY <1>4, <3>1 DEF BeginsOnce, Untold
    <3>3. ASSUME NEW b \in DOMAIN ad.streams, NEW i, Unopened(q[b], i)
          PROVE  SoFar(es, ad.streams[b].stream, i).begun = 0
      <4>1. CASE b = a
        BY <3>2, <4>1
      <4>2. CASE b # a
        BY <2>2, <2>3, <3>3, <4>2
      <4> QED BY <4>1, <4>2
    <3> QED BY <2>1, <3>2, <3>3, Zenon
  <2> QED BY <1>1, <2>4, <2>5
<1>9. /\ \A x, i : <<x, i>> # key => SoFar(all, x, i) = SoFar(es, x, i)
      /\ SoFar(all, stream, m.index).begun = SoFar(es, stream, m.index).begun
         \/ /\ SoFar(all, stream, m.index).begun <= 1 /\ m.raw = "content_block_delta"
            /\ r.ad = [ad EXCEPT !.replies =
                          Put(@, key, [start |-> FALSE, pending |-> <<>>, visible |-> TRUE])]
  <2>1. \A x, i : <<x, i>> # key => SoFar(all, x, i) = SoFar(es, x, i)
    BY <1>6 DEF FrameLeaves
  <2> DEFINE past == SoFar(es, stream, m.index)
             then == SoFar(all, stream, m.index)
  <2>2. past.begun \in Nat /\ past.begun <= 1
    BY Zenon DEF WellTold, BeginsOnce
  <2>3. ASSUME Silent(es, all) PROVE then.begun = past.begun
    BY <2>3 DEF Silent
  <2>4. ASSUME NEW begins, NEW text, NEW e, Speaks(es, all, stream, m.index, begins, text, e)
        PROVE  then.begun = past.begun + begins
    BY <2>4 DEF Speaks
  <2>5. CASE Shows(ad, m, r, es) /\ m.raw = "content_block_delta"
    <3> DEFINE reply == KeptReply(ad, key)
    <3>1. /\ then.begun = past.begun + (IF reply.start THEN 1 ELSE 0)
          /\ r.ad = [ad EXCEPT !.replies =
                         Put(@, key, [start |-> FALSE, pending |-> <<>>, visible |-> TRUE])]
      BY <2>4, <2>5, Zenon DEF Shows, all
    <3>2. reply.start => past.begun = 0
      <4>1. reply.start => key \in DOMAIN ad.replies /\ ad.replies[key].start
        BY DEF KeptReply, Get
      <4> HIDE DEF reply, key
      <4> QED BY <1>7, <1>8, <4>1
    <3> HIDE DEF reply, past, then, key
    <3>3. then.begun = past.begun \/ then.begun <= 1
      BY <2>2, <3>1, <3>2
    <3> QED BY <2>1, <2>5, <3>1, <3>3 DEF past, then
  <2>6. CASE m.raw = "content_block_stop" /\ Speaks(es, all, stream, m.index, 0, <<>>, SaysStop(ad, m))
    <3>1. then.begun = past.begun + 0
      BY <2>4, <2>6
    <3> HIDE DEF past, then
    <3>2. then.begun = past.begun
      BY <2>2, <3>1
    <3> QED BY <2>1, <3>2 DEF past, then
  <2>7. \/ Silent(es, all)
        \/ Shows(ad, m, r, es) /\ m.raw = "content_block_delta"
        \/ m.raw = "content_block_stop" /\ Speaks(es, all, stream, m.index, 0, <<>>, SaysStop(ad, m))
    BY <1>3, Zenon DEF FrameTold, HoldsBack, all
  <2> QED BY <2>1, <2>3, <2>5, <2>6, <2>7
<1>10. \A x, i : SoFar(all, x, i).begun <= 1 /\ (x \notin gs => SoFar(all, x, i) = Untold)
  <2> SUFFICES ASSUME NEW x, NEW i
               PROVE  SoFar(all, x, i).begun <= 1 /\ (x \notin gs => SoFar(all, x, i) = Untold)
    OBVIOUS
  <2>1. CASE <<x, i>> # key
    BY <1>9, <2>1 DEF BeginsOnce
  <2>2. CASE <<x, i>> = key
    <3>1. x = stream /\ i = m.index
      BY <1>7, <2>2
    <3>2. stream \in gs
      BY <1>1, <1>2 DEF Streaming, StreamsOK
    <3>3. SoFar(es, stream, m.index).begun <= 1
      BY Zenon DEF BeginsOnce
    <3> HIDE DEF stream
    <3> QED BY <1>9, <3>1, <3>2, <3>3
  <2> QED BY <2>1, <2>2
<1>11. \A k \in DOMAIN r.ad.replies : r.ad.replies[k].start => SoFar(all, k[1], k[2]).begun = 0
  <2> SUFFICES ASSUME NEW k \in DOMAIN r.ad.replies, r.ad.replies[k].start
               PROVE  SoFar(all, k[1], k[2]).begun = 0
    OBVIOUS
  <2>1. SoFar(es, k[1], k[2]).begun = 0
    <3>1. \/ k \in DOMAIN ad.replies /\ ad.replies[k].start
          \/ k = key /\ m.raw = "content_block_start"
      BY <1>1, <1>3, RepliesStart
    <3> HIDE DEF key
    <3> QED BY <1>7, <1>8, <3>1
  <2>2. CASE k # key
    <3>1. k \in DOMAIN ad.replies
      BY <1>1, <1>3, <2>2, RepliesStart
    <3>2. k = <<k[1], k[2]>>
      BY <1>5, <3>1 DEF SomeReplies, RepliesHeld
    <3> HIDE DEF key
    <3>3. <<k[1], k[2]>> # key
      BY <2>2, <3>2
    <3>4. SoFar(all, k[1], k[2]) = SoFar(es, k[1], k[2])
      BY <1>9, <3>3, Zenon
    <3> QED BY <2>1, <3>4, Zenon
  <2>3. CASE k = key
    <3> HIDE DEF key
    <3>1. \A new : r.ad = [ad EXCEPT !.replies = Put(@, key, new)] => r.ad.replies[key] = new
      <4> TAKE new
      <4>1. r.ad = [ad EXCEPT !.replies = Put(@, key, new)] => IsPut(r.ad.replies, ad.replies, key, new)
        BY <1>1 DEF IsAdapter, IsPut
      <4> QED BY <4>1, PutAt
    <3> DEFINE shown == [start |-> FALSE, pending |-> <<>>, visible |-> TRUE]
    <3>2. r.ad # [ad EXCEPT !.replies = Put(@, key, shown)]
      <4>1. shown.start = FALSE
        OBVIOUS
      <4> HIDE DEF shown
      <4> SUFFICES ASSUME r.ad = [ad EXCEPT !.replies = Put(@, key, shown)] PROVE FALSE
        OBVIOUS
      <4>2. r.ad.replies[key] = shown
        BY <3>1, Zenon
      <4> QED BY <2>3, <4>1, <4>2
    <3>3. SoFar(all, stream, m.index).begun = SoFar(es, stream, m.index).begun
      BY <1>9, <3>2, Zenon
    <3> QED BY <1>7, <2>1, <2>3, <3>3
  <2> QED BY <2>2, <2>3
<1>12. \A b \in DOMAIN r.ad.streams : \A i : Unopened(q[b], i) => SoFar(all, r.ad.streams[b].stream, i).begun = 0
  <2> SUFFICES ASSUME NEW b \in DOMAIN r.ad.streams, NEW i, Unopened(q[b], i)
               PROVE  SoFar(all, r.ad.streams[b].stream, i).begun = 0
    OBVIOUS
  <2>1. b \in DOMAIN ad.streams /\ r.ad.streams[b] = ad.streams[b]
    BY <1>6 DEF FrameLeaves
  <2>2. CASE <<ad.streams[b].stream, i>> # key
    <3>1. SoFar(all, ad.streams[b].stream, i) = SoFar(es, ad.streams[b].stream, i)
      BY <1>9, <2>2, Zenon
    <3>2. SoFar(es, ad.streams[b].stream, i).begun = 0
      BY <1>8, <2>1, Zenon
    <3> QED BY <2>1, <3>1, <3>2, Zenon
  <2>3. CASE <<ad.streams[b].stream, i>> = key
    <3>1. b = a /\ i = m.index
      BY <1>1, <1>2, <1>7, <2>1, <2>3 DEF Streaming, StreamsOK
    <3>2. m.raw # "content_block_delta"
      BY <3>1 DEF Opens
    <3>3. SoFar(es, stream, m.index).begun = 0
      BY <1>8, <2>1, <3>1
    <3> HIDE DEF stream
    <3> QED BY <1>9, <2>1, <3>1, <3>2, <3>3 DEF stream
  <2> QED BY <2>2, <2>3
<1>13. BeginsOnce(r.ad, all, q, gs)
  BY <1>10, <1>11, <1>12 DEF BeginsOnce
<1> QED BY <1>13 DEF r

-----------------------------------------------------------------------------
(* While no frame was lost *)

\* Of a reply that is open, what is told and what is held back are its text
\* so far; it is told of only after it began, and then nothing is held back.
Spoken(reply, heard, text) ==
    /\ heard.text \o reply.pending = text
    /\ IF reply.start THEN ~ reply.visible /\ heard = Untold
       ELSE reply.visible /\ heard.begun = 1 /\ reply.pending = <<>>

\* The stream of agent a, at place p, tells what the agent says.
SpeaksFor(ad, es, p, t, a) ==
    LET stream == ad.streams[a].stream IN
    /\ \A i : Unopened(p, i) => SoFar(es, stream, i) = Untold
    /\ p.open > 0 =>
         LET b == t[a][p.n][p.open]
             key == <<stream, p.done>>
         IN  /\ key \in DOMAIN ad.blocks /\ ad.blocks[key] = b.kind
             /\ b.kind = "text" =>
                  /\ key \in DOMAIN ad.replies
                  /\ Spoken(ad.replies[key], SoFar(es, stream, p.done), SubSeq(b.text, 1, p.piece))

\* Nothing is told or changed of the stream.
LEMMA OthersSpeak ==
    ASSUME NEW ad, NEW new, NEW es, NEW all, NEW p, NEW q, NEW t, NEW a,
           new.streams[a] = ad.streams[a],
           \A i : SoFar(all, ad.streams[a].stream, i) = SoFar(es, ad.streams[a].stream, i),
           \A k : k[1] = ad.streams[a].stream =>
               SameAt(ad.blocks, new.blocks, k) /\ SameAt(ad.replies, new.replies, k),
           q.n = p.n, q.open = p.open, q.piece = p.piece, q.done = p.done,
           SpeaksFor(ad, es, p, t, a)
    PROVE  SpeaksFor(new, all, q, t, a)
<1> DEFINE stream == ad.streams[a].stream
           b == t[a][p.n][p.open]
           key == <<stream, p.done>>
<1>1. \A i : Unopened(q, i) => SoFar(all, stream, i) = Untold
  BY DEF SpeaksFor, Unopened
<1>2. ASSUME p.open > 0
      PROVE  /\ key \in DOMAIN new.blocks /\ new.blocks[key] = b.kind
             /\ b.kind = "text" =>
                  /\ key \in DOMAIN new.replies
                  /\ Spoken(new.replies[key], SoFar(all, stream, p.done), SubSeq(b.text, 1, p.piece))
  <2>1. /\ key \in DOMAIN ad.blocks /\ ad.blocks[key] = b.kind
        /\ b.kind = "text" =>
             /\ key \in DOMAIN ad.replies
             /\ Spoken(ad.replies[key], SoFar(es, stream, p.done), SubSeq(b.text, 1, p.piece))
    BY <1>2, Zenon DEF SpeaksFor
  <2>2. SameAt(ad.blocks, new.blocks, key) /\ SameAt(ad.replies, new.replies, key)
    <3>1. key[1] = stream
      OBVIOUS
    <3> HIDE DEF key
    <3> QED BY <3>1
  <2>3. SoFar(all, stream, p.done) = SoFar(es, stream, p.done)
    OBVIOUS
  <2> HIDE DEF key, b, stream
  <2> QED BY <2>1, <2>2, <2>3 DEF SameAt
<1> HIDE DEF stream, b, key
<1>3. SpeaksFor(new, all, q, t, a) <=>
        /\ \A i : Unopened(q, i) => SoFar(all, stream, i) = Untold
        /\ p.open > 0 =>
             /\ key \in DOMAIN new.blocks /\ new.blocks[key] = b.kind
             /\ b.kind = "text" =>
                  /\ key \in DOMAIN new.replies
                  /\ Spoken(new.replies[key], SoFar(all, stream, p.done), SubSeq(b.text, 1, p.piece))
  BY Zenon DEF SpeaksFor, stream, b, key
<1> QED BY <1>1, <1>2, <1>3

\* What its frames tell of a reply: a silent step, or the beginning of its block.
TellsOf(es, all, raw, heard, text) ==
    \/ Silent(es, all)
    \/ heard.begun = 1 /\ IsPrefix(heard.text, text) /\ (raw = "content_block_stop" => heard.text = text)

\* One step of the stream of an agent from place p to place q of message said.
BeginsMessage(m, p, q) ==
    /\ m.raw = "message_start" /\ p.closed /\ q.n = p.n + 1 /\ ~ q.closed /\ q.open = 0
Stays(p, q) == q.n = p.n /\ ~ p.closed /\ p.done \in Nat
OpensNext(m, p, q, said) ==
    /\ m.raw = "content_block_start" /\ Stays(p, q) /\ ~ q.closed
    /\ p.open = 0 /\ q.open = p.done + 1 /\ q.done = p.done /\ q.piece = 0 /\ m.index = p.done
    /\ m.kind = said[q.open].kind /\ IsSeq(said[q.open].text)
SaysPiece(m, p, q, b) ==
    /\ m.raw = "content_block_delta" /\ Stays(p, q) /\ ~ q.closed
    /\ p.open = p.done + 1 /\ q.open = p.open /\ q.done = p.done /\ m.index = p.done
    /\ p.piece \in Nat /\ p.piece < Len(b.text) /\ q.piece = p.piece + 1
    /\ IsSeq(b.text) /\ m.kind = b.kind /\ m.text = <<b.text[p.piece + 1]>>
EndsBlock(m, p, q, b) ==
    /\ m.raw = "content_block_stop" /\ Stays(p, q) /\ ~ q.closed
    /\ p.open = p.done + 1 /\ q.open = 0 /\ q.done = p.done + 1 /\ m.index = p.done
    /\ p.piece = Len(b.text) /\ IsSeq(b.text)
EndsMessage(m, p, q) ==
    /\ m.raw = "message_stop" /\ Stays(p, q) /\ q.closed /\ q.open = p.open /\ q.done = p.done

StreamStep(m, p, q, said) ==
    \/ BeginsMessage(m, p, q) \/ OpensNext(m, p, q, said)
    \/ SaysPiece(m, p, q, said[p.open]) \/ EndsBlock(m, p, q, said[p.open])
    \/ EndsMessage(m, p, q)

\* The block of its message that an agent at place p speaks.
BlockAt(t, a, p) == t[a][p.n][p.open]

\* A message begins in a new stream.
LEMMA MessageBegins ==
    ASSUME NEW ad, NEW m, NEW r, NEW es, NEW q, NEW t, FrameTold(ad, m, r, es),
           m.raw = "message_start", q.open = 0,
           \A i : SoFar(es, ad.streams[m.parent].stream, i) = Untold
    PROVE  /\ SpeaksFor(r.ad, es \o r.events, q, t, m.parent)
           /\ Silent(es, es \o r.events)
<1>1. r.ad = ad /\ Silent(es, es \o r.events)
  BY Zenon DEF FrameTold
<1>2. \A i : SoFar(es \o r.events, ad.streams[m.parent].stream, i) = Untold
  BY <1>1 DEF Silent
<1>3. ~ (q.open > 0)
  OBVIOUS
<1> QED BY <1>1, <1>2, <1>3, Zenon DEF SpeaksFor

\* A block is opened.
LEMMA BlockOpens ==
    ASSUME NEW ad, NEW m, NEW r, NEW es, NEW p, NEW q, NEW t, FrameTold(ad, m, r, es), IsAdapter(ad),
           SpeaksFor(ad, es, p, t, m.parent), OpensNext(m, p, q, t[m.parent][p.n])
    PROVE  /\ SpeaksFor(r.ad, es \o r.events, q, t, m.parent)
           /\ Silent(es, es \o r.events)
<1> DEFINE a == m.parent
           all == es \o r.events
           stream == ad.streams[a].stream
           b == BlockAt(t, a, q)
           key == <<stream, q.done>>
           new == [start |-> TRUE, pending |-> <<>>, visible |-> FALSE]
<1>01. m.raw = "content_block_start" /\ m.index = q.done
  BY Zenon DEF OpensNext
<1>02. m.kind = b.kind /\ IsSeq(b.text)
  BY Zenon DEF OpensNext, Stays, BlockAt
<1>03. p.done \in Nat /\ p.open = 0 /\ q.done = p.done /\ q.open = p.done + 1
  BY Zenon DEF OpensNext, Stays
<1>04. q.piece = 0
  BY Zenon DEF OpensNext
<1>1. r.ad = Opened(ad, m) /\ Silent(es, all)
  BY <1>01, Zenon DEF FrameTold
<1>2. ReplyKey(ad, m) = key
  BY <1>01 DEF ReplyKey
<1>3. /\ r.ad.streams = ad.streams /\ r.ad.blocks = Put(ad.blocks, key, m.kind)
      /\ m.kind = "text" => r.ad.replies = Put(ad.replies, key, new)
  <2> HIDE DEF new, key, b
  <2> QED BY <1>1, <1>2 DEF IsAdapter, Opened, new
<1>4. \A i : SoFar(all, stream, i) = SoFar(es, stream, i)
  BY <1>1 DEF Silent
<1>5. \A i : Unopened(p, i) => SoFar(es, stream, i) = Untold
  BY Zenon DEF SpeaksFor
<1>6. \A i : Unopened(q, i) => SoFar(all, stream, i) = Untold
  BY <1>03, <1>4, <1>5 DEF Unopened
<1>7. SoFar(all, stream, q.done) = Untold
  <2>1. Unopened(p, q.done)
    BY <1>03 DEF Unopened
  <2> QED BY <1>4, <1>5, <2>1
<1>8. Spoken(new, Untold, SubSeq(b.text, 1, q.piece))
  <2>1. b.text \in Seq(Range(b.text))
    BY <1>02, Zenon DEF IsSeq
  <2> DEFINE X == Range(b.text)
             text == b.text
  <2> HIDE DEF X, text
  <2>2. text \in Seq(X)
    BY <2>1 DEF X, text
  <2>3. SubSeq(text, 1, 0) = <<>>
    BY <2>2
  <2>4. <<>> \o <<>> = <<>>
    OBVIOUS
  <2> QED BY <1>04, <2>3, <2>4 DEF Spoken, Untold, text
<1> HIDE DEF new, key, b, all, stream
<1>9. key \in DOMAIN r.ad.blocks /\ r.ad.blocks[key] = b.kind
  <2>1. IsPut(r.ad.blocks, ad.blocks, key, m.kind)
    BY <1>3, Zenon DEF IsPut
  <2> QED BY <1>02, <2>1, PutAt
<1>10. b.kind = "text" => key \in DOMAIN r.ad.replies /\ r.ad.replies[key] = new
  <2>1. b.kind = "text" => IsPut(r.ad.replies, ad.replies, key, new)
    BY <1>02, <1>3, Zenon DEF IsPut
  <2> QED BY <2>1, PutAt
<1>11. /\ \A i : Unopened(q, i) => SoFar(all, stream, i) = Untold
       /\ key \in DOMAIN r.ad.blocks /\ r.ad.blocks[key] = b.kind
       /\ b.kind = "text" =>
             /\ key \in DOMAIN r.ad.replies
             /\ Spoken(r.ad.replies[key], SoFar(all, stream, q.done), SubSeq(b.text, 1, q.piece))
  BY <1>6, <1>7, <1>8, <1>9, <1>10
<1>12. SpeaksFor(r.ad, all, q, t, a)
  BY <1>3, <1>11, Zenon DEF SpeaksFor, BlockAt, key, b, stream
<1> QED BY <1>1, <1>12, Zenon DEF all

\* One more piece of a text is shown, with what was held back before.
ShowsPiece(b, n, reply, heard, piece, text, now, new) ==
    /\ IsSeq(b) /\ n \in Nat /\ n < Len(b) /\ IsSeq(reply.pending) /\ IsSeq(heard.text)
    /\ Spoken(reply, heard, SubSeq(b, 1, n)) /\ piece = <<b[n + 1]>>
    /\ text = IF reply.visible THEN piece ELSE reply.pending \o piece
    /\ now = [begun |-> heard.begun + (IF reply.start THEN 1 ELSE 0), text |-> heard.text \o text]
    /\ new = [start |-> FALSE, pending |-> <<>>, visible |-> TRUE]

LEMMA PieceShown ==
    ASSUME NEW b, NEW n, NEW reply, NEW heard, NEW piece, NEW text, NEW now, NEW new,
           ShowsPiece(b, n, reply, heard, piece, text, now, new)
    PROVE  /\ Spoken(new, now, SubSeq(b, 1, n + 1))
           /\ now.begun = 1 /\ IsPrefix(now.text, b)
<1> USE DEF ShowsPiece
<1>1. SubSeq(b, 1, n) \o piece = SubSeq(b, 1, n + 1)
  BY NextPiece
<1>2. IsSeq(piece)
  BY OneElement
<1>3. IsSeq(reply.pending \o piece) /\ IsSeq(text)
  BY <1>2, TextOfTwo
<1>4. now.begun = 1 /\ now.text = SubSeq(b, 1, n + 1)
  <2>1. CASE reply.start
    <3>1. ~ reply.visible /\ heard = Untold /\ heard.text \o reply.pending = SubSeq(b, 1, n)
      BY <2>1 DEF Spoken
    <3>2. now.begun = 1
      BY <2>1, <3>1 DEF Untold
    <3>3. now.text = heard.text \o (reply.pending \o piece)
      BY <3>1
    <3>4. (heard.text \o reply.pending) \o piece = SubSeq(b, 1, n + 1)
      BY <1>1, <3>1, Zenon
    <3>5. heard.text \o (reply.pending \o piece) = (heard.text \o reply.pending) \o piece
      <4> DEFINE x == heard.text
                 y == reply.pending
      <4>1. IsSeq(x) /\ IsSeq(y)
        OBVIOUS
      <4> HIDE DEF x, y
      <4>2. x \o (y \o piece) = (x \o y) \o piece
        BY <1>2, <4>1, Associative
      <4> QED BY <4>2 DEF x, y
    <3> QED BY <3>2, <3>3, <3>4, <3>5, Zenon
  <2>2. CASE ~ reply.start
    <3>1. /\ reply.visible /\ heard.begun = 1 /\ reply.pending = <<>>
          /\ heard.text \o <<>> = SubSeq(b, 1, n)
      BY <2>2 DEF Spoken
    <3>2. heard.text = SubSeq(b, 1, n)
      BY <3>1, NothingAdded
    <3>3. now.begun = 1 /\ now.text = heard.text \o piece
      BY <2>2, <3>1
    <3> QED BY <1>1, <3>2, <3>3
  <2> QED BY <2>1, <2>2
<1>5. IsSeq(now.text)
  <2>1. now.text = heard.text \o text
    OBVIOUS
  <2> QED BY <1>3, <2>1, TextOfTwo
<1>6. now.text \o <<>> = now.text
  BY <1>5, NothingAdded
<1>7. Spoken(new, now, SubSeq(b, 1, n + 1))
  BY <1>4, <1>6 DEF Spoken
<1>8. IsPrefix(now.text, b)
  <2>1. IsSeq(<<>>) /\ now.text \o <<>> = SubSeq(b, 1, n + 1)
    BY <1>4, <1>6, NoElements
  <2>2. n + 1 \in Nat /\ n + 1 <= Len(b)
    BY Elements
  <2> QED BY <1>5, <2>1, <2>2, ShownIsPrefix
<1> QED BY <1>4, <1>7, <1>8

\* One more piece of the text is held back, too.
LEMMA PieceHeld ==
    ASSUME NEW b, IsSeq(b), NEW n \in Nat, n < Len(b), NEW reply, ReplyHeld(reply), ~ reply.visible,
           NEW heard, IsSeq(heard.text), Spoken(reply, heard, SubSeq(b, 1, n)),
           NEW piece, piece = <<b[n + 1]>>,
           NEW new, new = [reply EXCEPT !.pending = reply.pending \o piece]
    PROVE  Spoken(new, heard, SubSeq(b, 1, n + 1))
<1>1. SubSeq(b, 1, n) \o piece = SubSeq(b, 1, n + 1) /\ IsSeq(piece)
  BY NextPiece, OneElement
<1>2. reply.start /\ heard = Untold /\ heard.text \o reply.pending = SubSeq(b, 1, n)
  BY DEF Spoken
<1>3. new.start = reply.start /\ new.visible = reply.visible /\ new.pending = reply.pending \o piece
  BY DEF ReplyHeld
<1>4. heard.text \o new.pending = SubSeq(b, 1, n + 1)
  <2> DEFINE x == heard.text
             y == reply.pending
  <2>1. IsSeq(x) /\ IsSeq(y)
    BY DEF ReplyHeld
  <2>2. x \o y = SubSeq(b, 1, n)
    BY <1>2
  <2> HIDE DEF x, y
  <2>3. x \o (y \o piece) = (x \o y) \o piece
    BY <1>1, <2>1, Associative
  <2>4. x \o (y \o piece) = SubSeq(b, 1, n + 1)
    BY <1>1, <2>2, <2>3, Zenon
  <2> QED BY <1>3, <2>4 DEF x, y
<1> QED BY <1>2, <1>3, <1>4 DEF Spoken

\* A piece of the open block arrives.
LEMMA PieceArrives ==
    ASSUME NEW ad, NEW m, NEW r, NEW es, NEW p, NEW q, NEW t, FrameTold(ad, m, r, es), IsAdapter(ad),
           RepliesHeld(ad, es), WellTold(es),
           SpeaksFor(ad, es, p, t, m.parent),
           NEW b, b = BlockAt(t, m.parent, p), SaysPiece(m, p, q, b)
    PROVE  LET all == es \o r.events IN
           /\ SpeaksFor(r.ad, all, q, t, m.parent)
           /\ TellsOf(es, all, m.raw, SoFar(all, ad.streams[m.parent].stream, m.index), b.text)
<1> DEFINE a == m.parent
           all == es \o r.events
           stream == ad.streams[a].stream
           key == <<stream, p.done>>
           heard == SoFar(es, stream, p.done)
           now == SoFar(all, stream, p.done)
           reply == KeptReply(ad, key)
           new == [start |-> FALSE, pending |-> <<>>, visible |-> TRUE]
           text == IF reply.visible THEN m.text ELSE reply.pending \o m.text
           kept2 == [reply EXCEPT !.pending = reply.pending \o m.text]
<1>01. m.raw = "content_block_delta" /\ m.index = p.done /\ m.kind = b.kind
  BY Zenon DEF SaysPiece
<1>02. p.done \in Nat /\ p.open = p.done + 1 /\ q.done = p.done /\ q.open = p.open
  BY Zenon DEF SaysPiece, Stays
<1>03. /\ IsSeq(b.text) /\ p.piece \in Nat /\ p.piece < Len(b.text)
       /\ q.piece = p.piece + 1 /\ m.text = <<b.text[p.piece + 1]>>
  BY Zenon DEF SaysPiece
<1>04. b = BlockAt(t, a, q)
  BY Zenon DEF SaysPiece, Stays, BlockAt
<1>1. ReplyKey(ad, m) = key
  BY <1>01 DEF ReplyKey
<1>2. /\ key \in DOMAIN ad.blocks /\ ad.blocks[key] = b.kind
      /\ \A i : Unopened(p, i) => SoFar(es, stream, i) = Untold
      /\ b.kind = "text" => key \in DOMAIN ad.replies
                            /\ Spoken(ad.replies[key], heard, SubSeq(b.text, 1, p.piece))
  <2>1. p.open > 0
    BY <1>02
  <2> QED BY <2>1, Zenon DEF SpeaksFor, BlockAt
<1>3. key \in DOMAIN ad.replies => reply = ad.replies[key] /\ ReplyHeld(reply)
  <2>1. key \in DOMAIN ad.replies => reply = ad.replies[key]
    BY Zenon DEF KeptReply, Get
  <2> HIDE DEF reply, key
  <2> QED BY <2>1 DEF RepliesHeld
<1>4. IsSeq(heard.text)
  BY Zenon DEF WellTold
<1>5. /\ FrameLeaves(ad, m, r, es) /\ a \in DOMAIN r.ad.streams => r.ad.streams[a] = ad.streams[a]
      /\ \A x, i : <<x, i>> # key => SoFar(all, x, i) = SoFar(es, x, i)
  <2>1. FrameLeaves(ad, m, r, es)
    BY FrameElsewhere
  <2> QED BY <1>1, <2>1 DEF FrameLeaves
<1> HIDE DEF all, reply, now, heard
<1>6. ASSUME Silent(es, all)
      PROVE  /\ \A i : SoFar(all, stream, i) = SoFar(es, stream, i)
             /\ now = heard
  BY <1>6 DEF Silent, now, heard
<1>7. \A i : Unopened(q, i) => SoFar(all, stream, i) = Untold
  <2> SUFFICES ASSUME NEW i, Unopened(q, i) PROVE SoFar(all, stream, i) = Untold
    OBVIOUS
  <2>1. Unopened(p, i) /\ i # p.done
    BY <1>02 DEF Unopened
  <2>2. <<stream, i>> # key
    BY <2>1
  <2>3. SoFar(all, stream, i) = SoFar(es, stream, i)
    BY <1>5, <2>2, Zenon
  <2> QED BY <1>2, <2>1, <2>3
<1> DEFINE Shown == /\ key \in DOMAIN r.ad.blocks /\ r.ad.blocks[key] = b.kind
                    /\ b.kind = "text" =>
                         /\ key \in DOMAIN r.ad.replies
                         /\ Spoken(r.ad.replies[key], now, SubSeq(b.text, 1, q.piece))
<1>8. ASSUME r.ad.streams = ad.streams, Shown PROVE SpeaksFor(r.ad, all, q, t, a)
  <2>1. q.open > 0 => Shown
    BY <1>8
  <2> HIDE DEF key, stream, a
  <2>2. q.open > 0 => /\ key \in DOMAIN r.ad.blocks /\ r.ad.blocks[key] = b.kind
                      /\ b.kind = "text" =>
                           /\ key \in DOMAIN r.ad.replies
                           /\ Spoken(r.ad.replies[key], now, SubSeq(b.text, 1, q.piece))
    BY <2>1
  <2> HIDE DEF Shown
  <2>3. r.ad.streams[a].stream = stream
    BY <1>8, Zenon DEF stream
  <2>4. b = BlockAt(t, a, q)
    BY <1>04, Zenon DEF a
  <2> QED BY <1>02, <1>7, <2>2, <2>3, <2>4, Zenon DEF SpeaksFor, BlockAt, key, now
<1>9. CASE r.ad = ad /\ Silent(es, all) /\ m.kind # "text"
  <2>1. Shown
    BY <1>01, <1>2, <1>9
  <2>2. SpeaksFor(r.ad, all, q, t, a)
    BY <1>8, <1>9, <2>1
  <2> QED BY <1>9, <2>2 DEF TellsOf, all
<1>10. CASE Shows(ad, m, r, es) /\ m.kind = "text"
  <2> DEFINE begins == IF reply.start THEN 1 ELSE 0
             then == [begun |-> heard.begun + begins, text |-> heard.text \o text]
  <2>1. /\ r.ad = [ad EXCEPT !.replies = Put(@, key, new)]
        /\ Speaks(es, all, stream, p.done, begins, text, SaysDelta(ad, m, text))
    BY <1>01, <1>1, <1>10, Zenon DEF Shows, all, reply
  <2>2. now = then
    BY <2>1 DEF Speaks, now, heard
  <2>3. Spoken(new, then, SubSeq(b.text, 1, p.piece + 1)) /\ then.begun = 1 /\ IsPrefix(then.text, b.text)
    <3>1. Spoken(reply, heard, SubSeq(b.text, 1, p.piece)) /\ IsSeq(reply.pending)
      BY <1>01, <1>2, <1>3, <1>10 DEF ReplyHeld
    <3>2. /\ text = IF reply.visible THEN m.text ELSE reply.pending \o m.text
          /\ then = [begun |-> heard.begun + (IF reply.start THEN 1 ELSE 0), text |-> heard.text \o text]
          /\ new = [start |-> FALSE, pending |-> <<>>, visible |-> TRUE]
      BY Zenon
    <3> DEFINE whole == b.text
               n == p.piece
    <3>3. IsSeq(whole) /\ n \in Nat /\ n < Len(whole) /\ m.text = <<whole[n + 1]>>
      BY <1>03, Zenon
    <3>4. Spoken(reply, heard, SubSeq(whole, 1, n))
      BY <3>1
    <3> HIDE DEF new, then, text, kept2, whole, n
    <3>5. Spoken(new, then, SubSeq(whole, 1, n + 1)) /\ then.begun = 1 /\ IsPrefix(then.text, whole)
      <4>1. ShowsPiece(whole, n, reply, heard, m.text, text, then, new)
        BY <1>4, <3>1, <3>2, <3>3, <3>4, Zenon DEF ShowsPiece
      <4> QED BY <4>1, PieceShown, Zenon
    <3> QED BY <3>5 DEF whole, n
  <2>4. /\ r.ad.streams = ad.streams /\ r.ad.blocks = ad.blocks
        /\ r.ad.replies = Put(ad.replies, key, new)
    <3> HIDE DEF key, new
    <3> QED BY <2>1 DEF IsAdapter
  <2> HIDE DEF key, new, then, text, begins
  <2>5. key \in DOMAIN r.ad.replies /\ r.ad.replies[key] = new
    <3>1. IsPut(r.ad.replies, ad.replies, key, new)
      BY <2>4, Zenon DEF IsPut
    <3> QED BY <3>1, PutAt
  <2>6. Shown
    BY <1>03, <1>2, <2>2, <2>3, <2>4, <2>5
  <2>7. SpeaksFor(r.ad, all, q, t, a)
    BY <1>8, <2>4, <2>6
  <2>8. now.begun = 1 /\ IsPrefix(now.text, b.text)
    BY <2>2, <2>3
  <2>9. TellsOf(es, all, m.raw, now, b.text)
    BY <1>01, <2>8 DEF TellsOf
  <2> QED BY <1>01, <2>7, <2>9, Zenon DEF all, now
<1>11. CASE HoldsBack(ad, m, r, es) /\ m.kind = "text"
  <2>1. /\ r.ad = [ad EXCEPT !.replies = Put(@, key, kept2)] /\ ~ reply.visible /\ Silent(es, all)
    BY <1>01, <1>1, <1>11, Zenon DEF HoldsBack, all, reply
  <2>2. Spoken(kept2, heard, SubSeq(b.text, 1, p.piece + 1))
    <3>1. Spoken(reply, heard, SubSeq(b.text, 1, p.piece)) /\ ReplyHeld(reply)
      BY <1>01, <1>2, <1>3, <1>11
    <3> HIDE DEF kept2
    <3> QED BY <1>03, <1>4, <2>1, <3>1, PieceHeld, Zenon DEF kept2
  <2>4. /\ r.ad.streams = ad.streams /\ r.ad.blocks = ad.blocks
        /\ r.ad.replies = Put(ad.replies, key, kept2)
    <3> HIDE DEF key, kept2
    <3> QED BY <2>1 DEF IsAdapter
  <2> HIDE DEF key, kept2, text
  <2>5. key \in DOMAIN r.ad.replies /\ r.ad.replies[key] = kept2
    <3>1. IsPut(r.ad.replies, ad.replies, key, kept2)
      BY <2>4, Zenon DEF IsPut
    <3> QED BY <3>1, PutAt
  <2>6. Shown
    BY <1>03, <1>2, <1>6, <2>1, <2>2, <2>4, <2>5
  <2>7. SpeaksFor(r.ad, all, q, t, a)
    BY <1>8, <2>4, <2>6
  <2> QED BY <2>1, <2>7 DEF TellsOf, all
<1>12. \/ r.ad = ad /\ Silent(es, all) /\ m.kind # "text"
       \/ Shows(ad, m, r, es) /\ m.kind = "text"
       \/ HoldsBack(ad, m, r, es) /\ m.kind = "text"
  BY <1>01, Zenon DEF FrameTold, all
<1> QED BY <1>9, <1>10, <1>11, <1>12

\* The open block ends.
LEMMA BlockEnds ==
    ASSUME NEW ad, NEW m, NEW r, NEW es, NEW p, NEW q, NEW t, FrameTold(ad, m, r, es), IsAdapter(ad),
           RepliesHeld(ad, es), WellTold(es),
           SpeaksFor(ad, es, p, t, m.parent),
           NEW b, b = BlockAt(t, m.parent, p), EndsBlock(m, p, q, b)
    PROVE  LET all == es \o r.events IN
           /\ SpeaksFor(r.ad, all, q, t, m.parent)
           /\ TellsOf(es, all, m.raw, SoFar(all, ad.streams[m.parent].stream, m.index), b.text)
<1> DEFINE a == m.parent
           all == es \o r.events
           stream == ad.streams[a].stream
           key == <<stream, p.done>>
           heard == SoFar(es, stream, p.done)
           now == SoFar(all, stream, p.done)
<1>01. m.raw = "content_block_stop" /\ m.index = p.done
  BY Zenon DEF EndsBlock
<1>02. p.done \in Nat /\ p.open = p.done + 1 /\ q.done = p.done + 1 /\ q.open = 0
  BY Zenon DEF EndsBlock, Stays
<1>03. IsSeq(b.text) /\ p.piece = Len(b.text)
  BY Zenon DEF EndsBlock
<1>1. ReplyKey(ad, m) = key
  BY <1>01 DEF ReplyKey
<1>2. /\ key \in DOMAIN ad.blocks /\ ad.blocks[key] = b.kind
      /\ \A i : Unopened(p, i) => SoFar(es, stream, i) = Untold
      /\ b.kind = "text" => key \in DOMAIN ad.replies
                            /\ Spoken(ad.replies[key], heard, SubSeq(b.text, 1, p.piece))
  <2>1. p.open > 0
    BY <1>02
  <2> QED BY <2>1, Zenon DEF SpeaksFor, BlockAt
<1>3. IsSeq(heard.text)
  BY Zenon DEF WellTold
<1>4. \A x, i : <<x, i>> # key => SoFar(all, x, i) = SoFar(es, x, i)
  <2>1. FrameLeaves(ad, m, r, es)
    BY FrameElsewhere
  <2> QED BY <1>1, <2>1 DEF FrameLeaves
<1>5. r.ad.streams = ad.streams
  <2>1. r.ad \in {ad, Ended(ad, m)}
    BY <1>01, Zenon DEF FrameTold
  <2> QED BY <2>1 DEF Ended, IsAdapter
<1> HIDE DEF all, now, heard
<1>6. SpeaksFor(r.ad, all, q, t, a)
  <2>1. \A i : Unopened(q, i) => SoFar(all, stream, i) = Untold
    <3> SUFFICES ASSUME NEW i, Unopened(q, i) PROVE SoFar(all, stream, i) = Untold
      OBVIOUS
    <3>1. Unopened(p, i) /\ i # p.done
      BY <1>02 DEF Unopened
    <3>2. <<stream, i>> # key
      BY <3>1
    <3>3. SoFar(all, stream, i) = SoFar(es, stream, i)
      BY <1>4, <3>2, Zenon
    <3> QED BY <1>2, <3>1, <3>3
  <2>2. ~ (q.open > 0)
    BY <1>02
  <2> QED BY <1>5, <2>1, <2>2, Zenon DEF SpeaksFor
<1>7. TellsOf(es, all, m.raw, now, b.text)
  <2>1. CASE Silent(es, all)
    BY <2>1 DEF TellsOf
  <2>2. CASE ~ Silent(es, all)
    <3> DEFINE reply == Get(ad.replies, key, [visible |-> FALSE])
    <3>1. /\ b.kind = "text" /\ reply.visible
          /\ Speaks(es, all, stream, p.done, 0, <<>>, SaysStop(ad, m))
      <4>1. Get(ad.blocks, key, "none") = b.kind
        BY <1>2, Zenon DEF Get
      <4> QED BY <1>01, <1>1, <2>2, <4>1, Zenon DEF FrameTold, all
    <3>2. reply = ad.replies[key] /\ Spoken(reply, heard, SubSeq(b.text, 1, p.piece))
      BY <1>2, <3>1, Zenon DEF Get
    <3> HIDE DEF reply
    <3>3. heard.begun = 1 /\ reply.pending = <<>> /\ heard.text \o reply.pending = SubSeq(b.text, 1, p.piece)
      BY <3>1, <3>2, Zenon DEF Spoken
    <3>4. SubSeq(b.text, 1, p.piece) = b.text
      <4> DEFINE x == b.text
                 X == Range(b.text)
      <4>1. x \in Seq(X)
        BY <1>03, Zenon DEF IsSeq
      <4> HIDE DEF x, X
      <4>2. SubSeq(x, 1, Len(x)) = x
        BY <4>1
      <4> QED BY <1>03, <4>2 DEF x
    <3>5. heard.text = b.text
      BY <1>3, <3>3, <3>4, NothingAdded
    <3>6. now = [begun |-> heard.begun + 0, text |-> heard.text \o <<>>]
      BY <3>1, Zenon DEF Speaks, now, heard
    <3>7. now.begun = 1 /\ now.text = b.text
      <4>1. heard.begun + 0 = 1
        <5>1. 1 + 0 = 1
          OBVIOUS
        <5> QED BY <3>3, <5>1, Zenon
      <4>2. b.text \o <<>> = b.text
        BY <1>03, NothingAdded, Zenon
      <4> QED BY <3>5, <3>6, <4>1, <4>2, Zenon
    <3>8. IsPrefix(b.text, b.text)
      <4> DEFINE x == b.text
      <4>1. IsSeq(x) /\ x = SubSeq(x, 1, Len(x))
        BY <1>03, <3>4
      <4> HIDE DEF x
      <4>3. Len(x) \in Nat /\ IsSeq(<<>>) /\ x \o <<>> = SubSeq(x, 1, Len(x))
        BY <4>1, NothingAdded, NoElements, Elements
      <4> DEFINE n == Len(x)
                 u == <<>>
      <4>4. IsSeq(x) /\ n \in Nat /\ n <= Len(x) /\ IsSeq(u) /\ x \o u = SubSeq(x, 1, n)
        BY <4>1, <4>3
      <4> HIDE DEF n, u
      <4>2. IsPrefix(x, x)
        BY <4>4, ShownIsPrefix
      <4> QED BY <4>2 DEF x
    <3> QED BY <3>7, <3>8 DEF TellsOf
  <2> QED BY <2>1, <2>2
<1> QED BY <1>01, <1>6, <1>7, Zenon DEF all, now

\* Whoever is streamed and in a message has a stream that tells it.
StreamsAreWhole(ad, es, p, t, who) ==
    /\ \A a \in who : ~ p[a].closed => /\ a \in DOMAIN ad.streams
                                       /\ ad.streams[a].message = <<a, p[a].n>>
    /\ \A a \in DOMAIN ad.streams : SpeaksFor(ad, es, p[a], t, a)

\* Its own stream goes on.
LEMMA OwnStreamGoesOn ==
    ASSUME NEW ad, NEW m, NEW r, NEW es, NEW p, NEW q, NEW t, FrameTold(ad, m, r, es), IsAdapter(ad),
           RepliesHeld(ad, es), WellTold(es), StreamStep(m, p, q, t[m.parent][p.n]),
           IF m.raw = "message_start"
           THEN \A i : SoFar(es, ad.streams[m.parent].stream, i) = Untold
           ELSE SpeaksFor(ad, es, p, t, m.parent)
    PROVE  LET all == es \o r.events IN
           /\ m.raw # "message_stop" => SpeaksFor(r.ad, all, q, t, m.parent)
           /\ TellsOf(es, all, m.raw, SoFar(all, ad.streams[m.parent].stream, m.index),
                      t[m.parent][q.n][m.index + 1].text)
<1> DEFINE said == t[m.parent][p.n]
           all == es \o r.events
           now == SoFar(all, ad.streams[m.parent].stream, m.index)
<1>1. CASE BeginsMessage(m, p, q)
  <2>1. SpeaksFor(r.ad, all, q, t, m.parent) /\ Silent(es, all)
    BY <1>1, MessageBegins DEF BeginsMessage
  <2> QED BY <2>1, Zenon DEF TellsOf
<1>2. CASE OpensNext(m, p, q, said)
  <2>1. SpeaksFor(r.ad, all, q, t, m.parent) /\ Silent(es, all)
    <3>1. SpeaksFor(ad, es, p, t, m.parent)
      BY <1>2 DEF OpensNext
    <3> QED BY <1>2, <3>1, BlockOpens, Zenon
  <2> QED BY <2>1, Zenon DEF TellsOf
<1>3. CASE SaysPiece(m, p, q, said[p.open])
  <2> DEFINE b == said[p.open]
  <2>1. SpeaksFor(ad, es, p, t, m.parent)
    BY <1>3 DEF SaysPiece
  <2>2. SaysPiece(m, p, q, b) /\ b = BlockAt(t, m.parent, p)
    BY <1>3, Zenon DEF BlockAt
  <2>3. t[m.parent][q.n][m.index + 1].text = b.text
    BY <1>3, Zenon DEF SaysPiece, Stays
  <2> HIDE DEF b, said
  <2>4. SpeaksFor(r.ad, all, q, t, m.parent) /\ TellsOf(es, all, m.raw, now, b.text)
    BY <2>1, <2>2, PieceArrives, Zenon
  <2> QED BY <2>3, <2>4, Zenon
<1>4. CASE EndsBlock(m, p, q, said[p.open])
  <2> DEFINE b == said[p.open]
  <2>1. SpeaksFor(ad, es, p, t, m.parent)
    BY <1>4 DEF EndsBlock
  <2>2. EndsBlock(m, p, q, b) /\ b = BlockAt(t, m.parent, p)
    BY <1>4, Zenon DEF BlockAt
  <2>3. t[m.parent][q.n][m.index + 1].text = b.text
    BY <1>4, Zenon DEF EndsBlock, Stays
  <2> HIDE DEF b, said
  <2>4. SpeaksFor(r.ad, all, q, t, m.parent) /\ TellsOf(es, all, m.raw, now, b.text)
    BY <2>1, <2>2, BlockEnds, Zenon
  <2> QED BY <2>3, <2>4, Zenon
<1>5. CASE EndsMessage(m, p, q)
  <2>1. m.raw = "message_stop"
    BY <1>5 DEF EndsMessage
  <2>2. Silent(es, all)
    BY <2>1, Zenon DEF FrameTold
  <2> QED BY <2>1, <2>2, Zenon DEF TellsOf
<1> QED BY <1>1, <1>2, <1>3, <1>4, <1>5 DEF StreamStep

\* A frame keeps every stream as it should be.
LEMMA FrameKeepsWhole ==
    ASSUME NEW before, NEW m, NEW es, NEW p, NEW q, NEW fs, NEW t, NEW who,
           NEW gs, gs = fs \cup {m.uuid},
           RepliesHeld(before, es), WellTold(es), BeginsOnce(before, es, p, fs),
           Streaming(before, p, fs, t), StreamsAreWhole(before, es, p, t, who),
           IsFrame(m, p, q, fs), IsRaw(m), m.parent \in who, who \subseteq Agents,
           \A b \in Agents \ {m.parent} : q[b] = p[b],
           StreamStep(m, p[m.parent], q[m.parent], t[m.parent][p[m.parent].n])
    PROVE  LET r == AdaptStream(before, m)
               s == WithStream(before, m).streams[m.parent]
               all == es \o r.events
           IN  /\ StreamsAreWhole(r.ad, all, q, t, who)
               /\ s.message = <<m.parent, q[m.parent].n>>
               /\ TellsOf(es, all, m.raw, SoFar(all, s.stream, m.index),
                          t[m.parent][q[m.parent].n][m.index + 1].text)
<1> DEFINE ad == WithStream(before, m)
           r == AdaptStream(before, m)
           all == es \o r.events
           a == m.parent
           stream == ad.streams[a].stream
           key == ReplyKey(ad, m)
<1>0. IsAdapter(before)
  BY DEF RepliesHeld
<1>1. /\ IsAdapter(ad) /\ a \in DOMAIN ad.streams
      /\ \/ m.raw # "message_start" /\ a \in DOMAIN before.streams /\ ad = before
         \/ NewStream(before, ad, m)
  BY <1>0, StreamIs, Zenon
<1>2. PICK gone : /\ SameBut(before, ad, gone)
                  /\ a \in DOMAIN before.streams => gone = before.streams[a].stream
                  /\ a \notin DOMAIN before.streams => gone = m.uuid
  BY <1>0, StreamIs, Zenon
<1>3. Streaming(ad, q, gs, t)
  BY StreamIsKnown, Zenon
<1>4. FrameTold(ad, m, r, es)
  BY <1>1, FrameTells, Zenon
<1>5. m.uuid \notin fs /\ a \in Agents /\ m.message = <<a, q[a].n>>
  BY DEF IsFrame
<1>6. SomeReplies(before, ad)
  BY <1>0, StreamKeepsReplies
<1>7. RepliesHeld(ad, es)
  BY <1>6, SomeAreHeld
<1> HIDE DEF r, ad
<1>8. FrameLeaves(ad, m, r, es)
  BY <1>1, <1>4, FrameElsewhere
<1>9. key = <<stream, m.index>> /\ key[1] = stream
  BY DEF ReplyKey
<1>10. m.raw # "message_start" =>
         /\ ~ p[a].closed /\ q[a].n = p[a].n /\ a \in DOMAIN before.streams /\ ad = before
         /\ before.streams[a].message = <<a, p[a].n>> /\ SpeaksFor(before, es, p[a], t, a)
  <2> SUFFICES ASSUME m.raw # "message_start"
               PROVE  /\ ~ p[a].closed /\ q[a].n = p[a].n /\ a \in DOMAIN before.streams /\ ad = before
                      /\ before.streams[a].message = <<a, p[a].n>> /\ SpeaksFor(before, es, p[a], t, a)
    OBVIOUS
  <2>1. ~ p[a].closed /\ q[a].n = p[a].n
    BY DEF StreamStep, BeginsMessage, OpensNext, SaysPiece, EndsBlock, EndsMessage, Stays
  <2>2. /\ a \in DOMAIN before.streams
        /\ before.streams[a].message = <<a, p[a].n>> /\ SpeaksFor(before, es, p[a], t, a)
    BY <2>1, Zenon DEF StreamsAreWhole
  <2> QED BY <1>1, <2>1, <2>2 DEF NewStream
<1>11. m.raw = "message_start" =>
         /\ ad.streams[a] = [stream |-> m.uuid, message |-> <<a, q[a].n>>]
         /\ \A i : SoFar(es, stream, i) = Untold
  <2> SUFFICES ASSUME m.raw = "message_start"
               PROVE  /\ ad.streams[a] = [stream |-> m.uuid, message |-> <<a, q[a].n>>]
                      /\ \A i : SoFar(es, stream, i) = Untold
    OBVIOUS
  <2>1. ad.streams[a] = [stream |-> m.uuid, message |-> <<a, q[a].n>>]
    BY <1>1, <1>5 DEF NewStream
  <2>2. stream = m.uuid
    BY <2>1
  <2> QED BY <1>5, <2>1, <2>2 DEF BeginsOnce
<1>12. ad.streams[a].message = <<a, q[a].n>>
  <2>1. CASE m.raw = "message_start"
    BY <1>11, <2>1
  <2>2. CASE m.raw # "message_start"
    BY <1>10, <2>2
  <2> QED BY <2>1, <2>2
<1>13. /\ m.raw # "message_stop" => SpeaksFor(r.ad, all, q[a], t, a)
       /\ TellsOf(es, all, m.raw, SoFar(all, stream, m.index), t[a][q[a].n][m.index + 1].text)
  <2> HIDE DEF all, stream
  <2>1. IF m.raw = "message_start" THEN \A i : SoFar(es, ad.streams[m.parent].stream, i) = Untold
        ELSE SpeaksFor(ad, es, p[m.parent], t, m.parent)
    BY <1>10, <1>11 DEF stream
  <2> QED BY <1>1, <1>4, <1>7, <2>1, OwnStreamGoesOn, Zenon DEF all, stream
<1>14. ASSUME NEW b \in DOMAIN ad.streams, b # a
       PROVE  /\ b \in DOMAIN before.streams /\ ad.streams[b] = before.streams[b] /\ q[b] = p[b]
              /\ ad.streams[b].stream # stream /\ ad.streams[b].stream # gone
  <2>1. b \in DOMAIN before.streams /\ ad.streams[b] = before.streams[b]
    BY <1>1, <1>14 DEF NewStream
  <2>2. /\ b \in Agents /\ before.streams[b].stream \in fs
        /\ a \in DOMAIN before.streams => before.streams[a].stream # before.streams[b].stream
    BY <1>14, <2>1 DEF Streaming, StreamsOK
  <2>3. ad.streams[b].stream # stream
    BY <1>1, <1>3, <1>14 DEF Streaming, StreamsOK
  <2>4. ad.streams[b].stream # gone
    BY <1>2, <1>5, <2>1, <2>2
  <2> QED BY <1>14, <2>1, <2>2, <2>3, <2>4
<1>15. ASSUME NEW b \in DOMAIN r.ad.streams PROVE SpeaksFor(r.ad, all, q[b], t, b)
  <2>1. b \in DOMAIN ad.streams /\ r.ad.streams[b] = ad.streams[b] /\ (m.raw = "message_stop" => b # a)
    BY <1>8 DEF FrameLeaves
  <2>2. CASE b = a
    BY <1>13, <2>1, <2>2
  <2>3. CASE b # a
    <3>1. /\ b \in DOMAIN before.streams /\ ad.streams[b] = before.streams[b] /\ q[b] = p[b]
          /\ ad.streams[b].stream # stream /\ ad.streams[b].stream # gone
      BY <1>14, <2>1, <2>3
    <3> DEFINE mine == before.streams[b].stream
    <3>2. \A i : SoFar(all, mine, i) = SoFar(es, mine, i)
      <4>1. \A i : <<mine, i>> # key
        BY <1>9, <3>1
      <4> HIDE DEF mine, key
      <4> QED BY <1>8, <4>1 DEF FrameLeaves, key
    <3>3. \A k : k[1] = mine => SameAt(before.blocks, r.ad.blocks, k) /\ SameAt(before.replies, r.ad.replies, k)
      <4>1. mine # gone /\ mine # key[1]
        BY <1>9, <3>1
      <4>2. SameBut(before, ad, gone) /\ SameBut(ad, r.ad, key[1])
        BY <1>2, <1>8 DEF FrameLeaves
      <4> HIDE DEF mine, key
      <4> QED BY <4>1, <4>2 DEF SameBut, SameAt
    <3>4. SpeaksFor(before, es, p[b], t, b)
      BY <3>1, Zenon DEF StreamsAreWhole
    <3>5. r.ad.streams[b] = before.streams[b]
      BY <2>1, <3>1
    <3>6. q[b].n = p[b].n /\ q[b].open = p[b].open /\ q[b].piece = p[b].piece /\ q[b].done = p[b].done
      BY <3>1
    <3> HIDE DEF all
    <3> QED BY <3>2, <3>3, <3>4, <3>5, <3>6, OthersSpeak
  <2> QED BY <2>2, <2>3
<1>16. ASSUME NEW b \in who, ~ q[b].closed
       PROVE  b \in DOMAIN r.ad.streams /\ r.ad.streams[b].message = <<b, q[b].n>>
  <2>1. CASE b = a
    <3>1. m.raw # "message_stop"
      BY <1>16, <2>1 DEF StreamStep, BeginsMessage, OpensNext, SaysPiece, EndsBlock, EndsMessage
    <3> QED BY <1>1, <1>8, <1>12, <2>1, <3>1 DEF FrameLeaves
  <2>2. CASE b # a
    <3>1. b \in Agents /\ q[b] = p[b]
      BY <2>2
    <3>2. b \in DOMAIN before.streams /\ before.streams[b].message = <<b, p[b].n>>
      BY <1>16, <3>1, Zenon DEF StreamsAreWhole
    <3>3. b \in DOMAIN ad.streams
      BY <1>1, <3>2 DEF NewStream
    <3>4. ad.streams[b] = before.streams[b]
      BY <1>14, <2>2, <3>3
    <3>5. b \in DOMAIN r.ad.streams /\ r.ad.streams[b] = ad.streams[b]
      BY <1>8, <2>2, <3>3 DEF FrameLeaves
    <3> QED BY <3>1, <3>2, <3>4, <3>5
  <2> QED BY <2>1, <2>2
<1>17. StreamsAreWhole(r.ad, all, q, t, who)
  BY <1>15, <1>16 DEF StreamsAreWhole
<1> QED BY <1>12, <1>13, <1>17, Zenon DEF ad, r

\* A frame that arrives keeps what is told of replies as it should be, as far
\* as the frames that were lost allow.
TellsWell(ad, es, p, fs, t, who, lost) ==
    /\ RepliesHeld(ad, es) /\ WellTold(es) /\ EventsWell(es, t, lost)
    /\ lost <= 1 => BeginsOnce(ad, es, p, fs)
    /\ lost = 0 => StreamsAreWhole(ad, es, p, t, who)

\* The one event of a reply that a frame tells says enough.
LEMMA FrameSaysEnough ==
    ASSUME NEW ad, NEW m, NEW r, NEW es, NEW t, NEW lost \in Nat, NEW n,
           FrameTold(ad, m, r, es), EventsWell(es, t, lost),
           Silent(es, es \o r.events)
           \/ HasText(SoFar(es \o r.events, ad.streams[m.parent].stream, m.index).text),
           lost <= 1 => SoFar(es \o r.events, ad.streams[m.parent].stream, m.index).begun <= 1,
           lost = 0 => /\ ad.streams[m.parent].message = <<m.parent, n>>
                       /\ TellsOf(es, es \o r.events, m.raw,
                                  SoFar(es \o r.events, ad.streams[m.parent].stream, m.index),
                                  t[m.parent][n][m.index + 1].text)
    PROVE  EventsWell(es \o r.events, t, lost)
<1> DEFINE all == es \o r.events
           stream == ad.streams[m.parent].stream
           now == SoFar(all, stream, m.index)
<1>1. CASE Silent(es, all)
  BY <1>1, SilenceIsWell
<1>2. CASE ~ Silent(es, all)
  <2>1. \/ /\ m.raw = "content_block_delta"
           /\ \E begins, text : Speaks(es, all, stream, m.index, begins, text, SaysDelta(ad, m, text))
        \/ /\ m.raw = "content_block_stop"
           /\ Speaks(es, all, stream, m.index, 0, <<>>, SaysStop(ad, m))
    <3> HIDE DEF all
    <3>1. CASE m.raw = "content_block_delta" /\ Shows(ad, m, r, es)
      BY <3>1, Zenon DEF Shows, all
    <3>2. CASE ~ (m.raw = "content_block_delta" /\ Shows(ad, m, r, es))
      BY <1>2, <3>2, Zenon DEF FrameTold, HoldsBack, all
    <3> QED BY <3>1, <3>2
  <2>2. PICK begins, text, name, e :
          /\ Speaks(es, all, stream, m.index, begins, text, e)
          /\ e.event = name /\ e.data.stream = stream
          /\ e.data.block = <<ad.streams[m.parent].message, m.index>> /\ e.data.block[2] = m.index
          /\ TellsReply(e) /\ name \in {"assistant.reply.delta", "assistant.reply.stopped"}
          /\ name = "assistant.reply.stopped" => m.raw = "content_block_stop"
    <3> HIDE DEF all
    <3>1. CASE m.raw = "content_block_stop"
      <4>1. Speech(SaysStop(ad, m), "assistant.reply.stopped", ad, m, <<>>)
        BY StreamSays, Zenon DEF SaysStop
      <4>2. Speaks(es, all, stream, m.index, 0, <<>>, SaysStop(ad, m))
        BY <2>1, <3>1
      <4> DEFINE e == SaysStop(ad, m)
      <4> HIDE DEF e, stream
      <4>3. /\ Speaks(es, all, stream, m.index, 0, <<>>, e)
            /\ e.event = "assistant.reply.stopped" /\ e.data.stream = stream
            /\ e.data.block = <<ad.streams[m.parent].message, m.index>> /\ e.data.block[2] = m.index
            /\ TellsReply(e)
        BY <4>1, <4>2 DEF Speech, e, stream
      <4> QED BY <3>1, <4>3
    <3>2. CASE m.raw = "content_block_delta"
      <4>1. PICK begins, text : Speaks(es, all, stream, m.index, begins, text, SaysDelta(ad, m, text))
        BY <2>1, <3>2
      <4> DEFINE e == SaysDelta(ad, m, text)
      <4>2. Speech(e, "assistant.reply.delta", ad, m, text)
        BY StreamSays, Zenon DEF SaysDelta
      <4> HIDE DEF e, stream
      <4>3. /\ Speaks(es, all, stream, m.index, begins, text, e)
            /\ e.event = "assistant.reply.delta" /\ e.data.stream = stream
            /\ e.data.block = <<ad.streams[m.parent].message, m.index>> /\ e.data.block[2] = m.index
            /\ TellsReply(e)
        BY <4>1, <4>2 DEF Speech, e, stream
      <4> QED BY <4>3
    <3> QED BY <2>1, <3>1, <3>2
  <2> HIDE DEF all, stream
  <2>3. HasText(now.text) /\ (lost <= 1 => now.begun <= 1)
    BY <1>2 DEF all, stream
  <2>4. ASSUME lost = 0
        PROVE  LET said == t[e.data.block[1][1]][e.data.block[1][2]][e.data.block[2] + 1].text
               IN  /\ now.begun = 1 /\ IsPrefix(now.text, said)
                   /\ e.event = "assistant.reply.stopped" => now.text = said
    <3>1. /\ ad.streams[m.parent].message = <<m.parent, n>>
          /\ TellsOf(es, all, m.raw, now, t[m.parent][n][m.index + 1].text)
      BY <2>4 DEF all, stream
    <3>2. e.data.block[1] = <<m.parent, n>>
      BY <2>2, <3>1
    <3>3. e.data.block[1][1] = m.parent /\ e.data.block[1][2] = n
      BY <3>2
    <3> HIDE DEF now
    <3> DEFINE said == t[m.parent][n][m.index + 1].text
    <3>4. t[e.data.block[1][1]][e.data.block[1][2]][e.data.block[2] + 1].text = said
      BY <2>2, <3>3
    <3>5. now.begun = 1 /\ IsPrefix(now.text, said) /\ (m.raw = "content_block_stop" => now.text = said)
      BY <1>2, <3>1, Zenon DEF TellsOf
    <3> HIDE DEF said
    <3> QED BY <2>2, <3>4, <3>5
  <2>5. ToldWell(e, now, t, lost)
    <3> HIDE DEF now
    <3> QED BY <2>3, <2>4, Zenon DEF ToldWell
  <2> QED BY <2>2, <2>5, SpeechIsWell DEF all
<1> QED BY <1>1, <1>2

\* A step of a stream opens the next block or tells of the open one.
LEMMA StepOpens ==
    ASSUME NEW m, NEW p, NEW q, NEW said, StreamStep(m, p[m.parent], q[m.parent], said),
           \A b \in Agents \ {m.parent} : q[b] = p[b]
    PROVE  Opens(m, p, q)
<1> DEFINE a == m.parent
           pa == p[a]
           qa == q[a]
<1>1. StreamStep(m, pa, qa, said)
  OBVIOUS
<1> HIDE DEF pa, qa
<1>2. /\ m.raw # "message_start" => \A i : Unopened(qa, i) => Unopened(pa, i)
      /\ m.raw = "content_block_start" => Unopened(pa, m.index)
      /\ m.raw = "content_block_delta" => ~ Unopened(qa, m.index)
  BY <1>1 DEF StreamStep, BeginsMessage, OpensNext, SaysPiece, EndsBlock, EndsMessage, Stays, Unopened
<1> QED BY <1>2 DEF Opens, pa, qa

LEMMA FrameKeepsReplies ==
    ASSUME NEW before, NEW m, NEW es, NEW p, NEW q, NEW fs, NEW t, NEW who, NEW lost \in Nat,
           NEW gs, gs = fs \cup {m.uuid}, TellsWell(before, es, p, fs, t, who, lost),
           lost <= 1 => Streaming(before, p, fs, t),
           IsFrame(m, p, q, fs), IsRaw(m), IsSeq(m.text), m.parent \in who, who \subseteq Agents,
           \A b \in Agents \ {m.parent} : q[b] = p[b],
           StreamStep(m, p[m.parent], q[m.parent], t[m.parent][p[m.parent].n])
    PROVE  LET r == AdaptStream(before, m)
           IN  TellsWell(r.ad, es \o r.events, q, gs, t, who, lost)
<1> DEFINE r == AdaptStream(before, m)
           all == es \o r.events
           ad == WithStream(before, m)
           a == m.parent
           s == ad.streams[a]
<1>1. RepliesHeld(before, es) /\ WellTold(es) /\ EventsWell(es, t, lost) /\ IsAdapter(before)
  BY DEF TellsWell, RepliesHeld
<1>2. IsAdapter(ad) /\ a \in DOMAIN ad.streams
  BY <1>1, StreamIs
<1>3. FrameTold(ad, m, r, es)
  BY <1>1, <1>2, FrameTells
<1>4. RepliesHeld(ad, es)
  <2>1. SomeReplies(before, ad)
    BY <1>1, StreamKeepsReplies
  <2> HIDE DEF ad
  <2> QED BY <1>1, <2>1, SomeAreHeld
<1>5. /\ RepliesHeld(r.ad, all) /\ WellTold(all)
      /\ Silent(es, all) \/ HasText(SoFar(all, s.stream, m.index).text)
  <2> HIDE DEF ad, r
  <2> QED BY <1>1, <1>2, <1>3, <1>4, FrameHolds
<1>6. lost <= 1 => BeginsOnce(r.ad, all, q, gs)
  <2> SUFFICES ASSUME lost <= 1 PROVE BeginsOnce(r.ad, all, q, gs)
    OBVIOUS
  <2>1. BeginsOnce(before, es, p, fs) /\ Streaming(before, p, fs, t)
    BY DEF TellsWell
  <2>2. Opens(m, p, q)
    BY StepOpens
  <2> QED BY <1>1, <2>1, <2>2, FrameBeginsOnce
<1>7. lost = 0 => /\ StreamsAreWhole(r.ad, all, q, t, who)
                  /\ s.message = <<a, q[a].n>>
                  /\ TellsOf(es, all, m.raw, SoFar(all, s.stream, m.index), t[a][q[a].n][m.index + 1].text)
  <2> SUFFICES ASSUME lost = 0
               PROVE  /\ StreamsAreWhole(r.ad, all, q, t, who)
                      /\ s.message = <<a, q[a].n>>
                      /\ TellsOf(es, all, m.raw, SoFar(all, s.stream, m.index), t[a][q[a].n][m.index + 1].text)
    OBVIOUS
  <2>1. /\ BeginsOnce(before, es, p, fs) /\ Streaming(before, p, fs, t)
        /\ StreamsAreWhole(before, es, p, t, who)
    BY DEF TellsWell
  <2> QED BY <1>1, <2>1, FrameKeepsWhole
<1> HIDE DEF ad, r
<1>8. EventsWell(all, t, lost)
  <2>1. lost <= 1 => SoFar(all, s.stream, m.index).begun <= 1
    BY <1>6 DEF BeginsOnce
  <2> QED BY <1>1, <1>3, <1>5, <1>7, <2>1, FrameSaysEnough
<1> QED BY <1>5, <1>6, <1>7, <1>8 DEF TellsWell, r

\* Events that were told well stay so when a frame is lost.
LEMMA LostFrame ==
    ASSUME NEW ad, NEW m, NEW es, NEW p, NEW q, NEW fs, NEW t, NEW who, NEW lost \in Nat,
           NEW gs, gs = fs \cup {m.uuid}, TellsWell(ad, es, p, fs, t, who, lost),
           lost = 0 => /\ \A b \in DOMAIN ad.streams : b \in Agents /\ (p[b].closed => lost > 0)
                       /\ \A b \in Agents \ {m.parent} : q[b] = p[b]
                       /\ StreamStep(m, p[m.parent], q[m.parent], t[m.parent][p[m.parent].n])
    PROVE  TellsWell(ad, es, q, gs, t, who, lost + 1)
<1>1. RepliesHeld(ad, es) /\ WellTold(es) /\ EventsWell(es, t, lost)
  BY DEF TellsWell
<1>2. EventsWell(es, t, lost + 1)
  <2>1. /\ lost + 1 # 0 /\ (lost + 1 <= 1 => lost <= 1)
    OBVIOUS
  <2> QED BY <1>1, <2>1, Zenon DEF EventsWell, ToldWell
<1>3. ASSUME lost + 1 <= 1 PROVE BeginsOnce(ad, es, q, gs)
  <2>1. lost = 0 /\ lost <= 1
    BY <1>3
  <2>2. BeginsOnce(ad, es, p, fs) /\ Opens(m, p, q)
    BY <2>1, StepOpens DEF TellsWell
  <2>3. \A b \in DOMAIN ad.streams : \A i : Unopened(q[b], i) => Unopened(p[b], i)
    <3> SUFFICES ASSUME NEW b \in DOMAIN ad.streams, NEW i, Unopened(q[b], i) PROVE Unopened(p[b], i)
      OBVIOUS
    <3>1. b \in Agents /\ ~ p[b].closed
      BY <2>1
    <3>2. CASE b # m.parent
      BY <2>1, <3>1, <3>2
    <3>3. CASE b = m.parent
      <4>1. m.raw # "message_start"
        BY <2>1, <3>1, <3>3 DEF StreamStep, BeginsMessage, OpensNext, SaysPiece, EndsBlock, EndsMessage
      <4> QED BY <2>2, <3>3, <4>1 DEF Opens
    <3> QED BY <3>2, <3>3
  <2> QED BY <2>2, <2>3 DEF BeginsOnce
<1> QED BY <1>1, <1>2, <1>3 DEF TellsWell

-----------------------------------------------------------------------------
(* The conversation *)

Streamers == script.streamed \cap Agents

\* What is written down last is an envelope of blocks, if it is one.
LastSaid(all) ==
    all # <<>> /\ all[Len(all)].type = "assistant" =>
        LET m == all[Len(all)] IN
        IsSeq(m.content) /\ \A i \in DOMAIN m.content : m.content[i].kind \in {"text", "thinking", "tool"}

RepliesTell == TellsWell(adapter, events, at, Frames, Script[turn], Streamers, count.lost)

\* The inductive invariant.
RepliesKept == NamesKept /\ RepliesTell /\ LastSaid(main) /\ LastSaid(subs)

FrameOf(a, raw, index, kind, text, n) ==
    [type |-> "stream", raw |-> raw, parent |-> a, uuid |-> <<"frame", count.frame>>,
     message |-> <<a, n>>, index |-> index, kind |-> kind, text |-> text]

\* A frame is delivered or lost.
LEMMA FrameIs ==
    ASSUME Places, NEW a, NEW raw, NEW index, NEW kind, NEW text, Frame(a, raw, index, kind, text)
    PROVE  /\ count'.frame = count.frame + 1
           /\ \/ Deliver(FrameOf(a, raw, index, kind, text, at'[a].n)) /\ count'.lost = count.lost
              \/ adapter' = adapter /\ events' = events /\ count'.lost = count.lost + 1
<1> DEFINE m == FrameOf(a, raw, index, kind, text, at'[a].n)
<1>1. \/ Deliver(m) /\ count' = [count EXCEPT !.frame = @ + 1]
      \/ live' = live /\ count' = [count EXCEPT !.frame = @ + 1, !.lost = @ + 1]
  BY DEF Frame, FrameOf
<1> HIDE DEF m
<1>2. DOMAIN count = {"frame", "packet", "lost", "repeats", "untold", "foreign"}
  BY DEF Places, Counts
<1>3. CASE Deliver(m) /\ count' = [count EXCEPT !.frame = @ + 1]
  BY <1>2, <1>3 DEF m
<1>4. CASE live' = live /\ count' = [count EXCEPT !.frame = @ + 1, !.lost = @ + 1]
  BY <1>2, <1>4 DEF live
<1> QED BY <1>1, <1>3, <1>4

LEMMA FrameKeepsTelling ==
    ASSUME NamesKept, RepliesTell, NEW a \in Agents, NEW raw, NEW index, NEW kind, NEW text,
           Frame(a, raw, index, kind, text), Calm, a \in script.streamed,
           \A b \in Agents \ {a} : at'[b] = at[b],
           raw \in {"message_start", "content_block_start", "content_block_delta",
                    "content_block_stop", "message_stop"},
           raw \in {"content_block_start", "content_block_delta"} => kind \in {"text", "thinking", "tool"},
           raw # "message_start" => at'[a].n = at[a].n,
           IsSeq(text),
           StreamStep(FrameOf(a, raw, index, kind, text, at'[a].n), at[a], at'[a], Said(a)[at[a].n])
    PROVE  RepliesTell'
<1> DEFINE m == FrameOf(a, raw, index, kind, text, at'[a].n)
           t == Script[turn]
<1>1. /\ count'.frame = count.frame + 1
      /\ \/ Deliver(m) /\ count'.lost = count.lost
         \/ adapter' = adapter /\ events' = events /\ count'.lost = count.lost + 1
  BY FrameIs DEF NamesKept
<1>2. Script'[turn'] = t /\ Streamers' = Streamers
  BY DEF Calm, Script, Streamers
<1>3. count.lost \in Nat /\ (count.lost <= 1 => Names)
  BY DEF NamesKept, Places, Counts
<1>4. /\ m.raw = raw /\ m.parent = a /\ m.uuid = <<"frame", count.frame>> /\ m.text = text
      /\ m.kind = kind /\ m.message = <<a, at'[a].n>>
  BY DEF FrameOf
<1>5. StreamStep(m, at[m.parent], at'[m.parent], t[m.parent][at[m.parent].n])
  BY <1>4 DEF Said
<1> HIDE DEF m
<1>6. Frames' = Frames \cup {m.uuid} /\ m.uuid \notin Frames
  BY <1>1, <1>4, NextFrame DEF NamesKept
<1>7. TellsWell(adapter, events, at, Frames, t, Streamers, count.lost)
  BY DEF RepliesTell
<1>8. \A b \in Agents \ {m.parent} : at'[b] = at[b]
  BY <1>4
<1> HIDE DEF t
<1>9. CASE Deliver(m) /\ count'.lost = count.lost
  <2> DEFINE r == AdaptStream(adapter, m)
  <2>1. m.type = "stream"
    BY DEF m, FrameOf
  <2>2. adapter' = r.ad /\ events' = events \o r.events
    BY <1>9, <2>1 DEF Deliver, Adapt
  <2>3. IsFrame(m, at, at', Frames) /\ IsRaw(m) /\ m.parent \in Streamers /\ Streamers \subseteq Agents
    BY <1>4, <1>6, <1>8 DEF IsFrame, IsRaw, Streamers
  <2>4. count.lost <= 1 => Streaming(adapter, at, Frames, t)
    BY <1>3 DEF Names, StreamNames, t
  <2>5. TellsWell(r.ad, events \o r.events, at', Frames', t, Streamers, count.lost)
    <3>1. IsSeq(m.text)
      BY <1>4
    <3> QED BY <1>3, <1>5, <1>6, <1>7, <1>8, <2>3, <2>4, <3>1, FrameKeepsReplies
  <2> HIDE DEF r
  <2>6. TellsWell(adapter', events', at', Frames', Script'[turn'], Streamers', count'.lost)
    BY <1>2, <1>9, <2>2, <2>5
  <2> QED BY <2>6 DEF RepliesTell
<1>10. CASE adapter' = adapter /\ events' = events /\ count'.lost = count.lost + 1
  <2>1. count.lost = 0 =>
          \A b \in DOMAIN adapter.streams : b \in Agents /\ (at[b].closed => count.lost > 0)
    <3> SUFFICES ASSUME count.lost = 0
                 PROVE  \A b \in DOMAIN adapter.streams : b \in Agents /\ (at[b].closed => count.lost > 0)
      OBVIOUS
    <3>1. Names
      BY <1>3
    <3> QED BY <3>1, Zenon DEF Names, StreamNames, Streaming, StreamsOK
  <2>2. TellsWell(adapter, events, at', Frames', t, Streamers, count.lost + 1)
    BY <1>3, <1>5, <1>6, <1>7, <1>8, <2>1, LostFrame
  <2> QED BY <1>2, <1>10, <2>2 DEF RepliesTell
<1> QED BY <1>1, <1>9, <1>10

\* Every step of a stream is one: it begins, opens, tells, closes or ends where its agent is.
LEMMA StreamKeepsTelling ==
    ASSUME NamesKept, RepliesTell, NEW a \in Agents,
           Begin(a) \/ OpenBlock(a) \/ Piece(a) \/ CloseBlock(a) \/ CloseMessage(a)
    PROVE  RepliesTell'
<1>1. Places
  BY DEF NamesKept
<1> DEFINE p == at[a]
           said == Said(a)[p.n]
           Told(raw, index, kind, text, to) ==
               /\ Moves(a, to) /\ Frame(a, raw, index, kind, text) /\ Calm /\ a \in script.streamed
               /\ IsSeq(text) /\ (raw # "message_start" => to.n = p.n)
               /\ raw \in {"content_block_start", "content_block_delta"} => kind \in {"text", "thinking", "tool"}
               /\ raw \in {"message_start", "content_block_start", "content_block_delta",
                           "content_block_stop", "message_stop"}
<1>2. /\ p \in Place /\ DOMAIN at = Agents
      /\ p.n <= Len(Said(a)) /\ (p.n = 0 => p.closed)
      /\ p.open \in {0, p.done + 1}
      /\ p.open > 0 => a \in script.streamed /\ ~ p.closed
      /\ p.n > 0 => p.open <= Len(Said(a)[p.n])
      /\ Blocks(a) = said
  BY <1>1 DEF Places, PlaceOK, Blocks
<1>3. /\ DOMAIN p = {"n", "closed", "open", "piece", "done", "sent"}
      /\ p.n \in Nat /\ p.closed \in BOOLEAN /\ p.open \in Nat /\ p.done \in Nat /\ p.piece \in Nat
  BY <1>2 DEF Place
<1>4. /\ Len(Said(a)) \in Nat
      /\ \A n \in 1..Len(Said(a)) :
           /\ IsSeq(Said(a)[n]) /\ Len(Said(a)[n]) \in Nat
           /\ \A i \in 1..Len(Said(a)[n]) :
                Said(a)[n][i].kind \in {"text", "thinking", "tool"} /\ IsSeq(Said(a)[n][i].text)
  BY <1>1, SaidWell, Zenon
<1>5. ~ p.closed =>
        /\ p.n \in 1..Len(Said(a)) /\ Len(said) \in Nat
        /\ \A i \in 1..Len(said) : said[i].kind \in {"text", "thinking", "tool"} /\ IsSeq(said[i].text)
  <2> SUFFICES ASSUME ~ p.closed
               PROVE  /\ p.n \in 1..Len(Said(a)) /\ Len(said) \in Nat
                      /\ \A i \in 1..Len(said) :
                           said[i].kind \in {"text", "thinking", "tool"} /\ IsSeq(said[i].text)
    OBVIOUS
  <2>1. p.n \in 1..Len(Said(a))
    BY <1>2, <1>3, <1>4
  <2> QED BY <1>4, <2>1
<1>6. p.open > 0 => /\ ~ p.closed /\ a \in script.streamed /\ p.open = p.done + 1
                    /\ p.open \in 1..Len(said) /\ IsSeq(said[p.open].text)
                    /\ said[p.open].kind \in {"text", "thinking", "tool"}
  <2> SUFFICES ASSUME p.open > 0
               PROVE  /\ ~ p.closed /\ a \in script.streamed /\ p.open = p.done + 1
                      /\ p.open \in 1..Len(said) /\ IsSeq(said[p.open].text)
                      /\ said[p.open].kind \in {"text", "thinking", "tool"}
    OBVIOUS
  <2>1. ~ p.closed /\ a \in script.streamed /\ p.open = p.done + 1
    BY <1>2, <1>3
  <2>2. p.n > 0 /\ Len(said) \in Nat /\ p.open <= Len(said)
    BY <1>2, <1>3, <1>5, <2>1
  <2>3. p.open \in 1..Len(said)
    BY <1>3, <2>2
  <2> QED BY <1>5, <2>1, <2>3
<1>7. ASSUME NEW raw, NEW index, NEW kind, NEW text, NEW to, Told(raw, index, kind, text, to),
             StreamStep(FrameOf(a, raw, index, kind, text, to.n), p, to, said)
      PROVE  RepliesTell'
  <2>1. at'[a] = to /\ \A b \in Agents \ {a} : at'[b] = at[b]
    BY <1>2, <1>7 DEF Moves
  <2>2. StreamStep(FrameOf(a, raw, index, kind, text, at'[a].n), at[a], at'[a], Said(a)[at[a].n])
    BY <1>7, <2>1
  <2>3. raw # "message_start" => at'[a].n = at[a].n
    BY <1>7, <2>1
  <2> QED BY <1>7, <2>1, <2>2, <2>3, FrameKeepsTelling
<1>8. ASSUME NEW raw, NEW index, NEW kind, NEW text, NEW n
      PROVE  LET m == FrameOf(a, raw, index, kind, text, n)
             IN  m.raw = raw /\ m.index = index /\ m.kind = kind /\ m.text = text
  BY DEF FrameOf
<1>9. IsSeq(<<>>)
  BY NoElements
<1>10. CASE Begin(a)
  <2> DEFINE to == Begun(a)
             m == FrameOf(a, "message_start", 0, "none", <<>>, to.n)
  <2>1. /\ Moves(a, to) /\ Frame(a, "message_start", 0, "none", <<>>) /\ Calm
        /\ a \in script.streamed /\ p.closed
    BY <1>10 DEF Begin, MayBegin
  <2>2. to.n = p.n + 1 /\ to.closed = FALSE /\ to.open = 0
    BY <1>3, BegunPlace, Zenon
  <2>3. m.raw = "message_start"
    BY <1>8
  <2> HIDE DEF m, p, to
  <2>4. StreamStep(m, p, to, said)
    BY <2>1, <2>2, <2>3 DEF StreamStep, BeginsMessage
  <2>5. Told("message_start", 0, "none", <<>>, to)
    BY <1>9, <2>1
  <2> QED BY <1>7, <2>4, <2>5 DEF m
<1>11. CASE OpenBlock(a)
  <2> DEFINE to == [p EXCEPT !.open = p.done + 1, !.piece = 0]
             kind == said[p.done + 1].kind
             m == FrameOf(a, "content_block_start", p.done, kind, <<>>, to.n)
  <2>1. /\ Moves(a, to) /\ Frame(a, "content_block_start", p.done, kind, <<>>) /\ Calm
        /\ a \in script.streamed /\ ~ p.closed /\ p.done < Len(said) /\ p.open = 0
    BY <1>2, <1>11 DEF OpenBlock
  <2>2. /\ to.n = p.n /\ to.closed = p.closed /\ to.open = p.done + 1 /\ to.done = p.done /\ to.piece = 0
    <3> HIDE DEF p
    <3> QED BY <1>3
  <2>3. m.raw = "content_block_start" /\ m.index = p.done /\ m.kind = kind
    BY <1>8
  <2>4. p.done + 1 \in 1..Len(said)
    <3> HIDE DEF p
    <3> QED BY <1>3, <1>5, <2>1
  <2>5. kind \in {"text", "thinking", "tool"} /\ IsSeq(said[p.done + 1].text)
    BY <1>5, <2>1, <2>4
  <2> HIDE DEF m, p, to, said
  <2>6. OpensNext(m, p, to, said)
    BY <1>3, <2>1, <2>2, <2>3, <2>5 DEF OpensNext, Stays
  <2>7. Told("content_block_start", p.done, kind, <<>>, to)
    BY <1>9, <2>1, <2>2, <2>5
  <2>8. StreamStep(m, p, to, said)
    BY <2>6 DEF StreamStep
  <2> QED BY <1>7, <2>7, <2>8 DEF m
<1>12. CASE Piece(a)
  <2> DEFINE to == [p EXCEPT !.piece = p.piece + 1]
             b == said[p.open]
             text == <<b.text[p.piece + 1]>>
             m == FrameOf(a, "content_block_delta", p.done, b.kind, text, to.n)
  <2>1. /\ Moves(a, to) /\ Frame(a, "content_block_delta", p.done, b.kind, text) /\ Calm
        /\ p.open > 0 /\ p.piece < Len(b.text)
    BY <1>2, <1>12 DEF Piece
  <2>2. to.n = p.n /\ to.closed = p.closed /\ to.open = p.open /\ to.done = p.done /\ to.piece = p.piece + 1
    <3> HIDE DEF p
    <3> QED BY <1>3
  <2>3. m.raw = "content_block_delta" /\ m.index = p.done /\ m.kind = b.kind /\ m.text = text
    <3> HIDE DEF p, b, text, to
    <3> QED BY <1>8
  <2>4. IsSeq(text)
    BY OneElement
  <2>5. /\ ~ p.closed /\ a \in script.streamed /\ p.open = p.done + 1
        /\ IsSeq(b.text) /\ b.kind \in {"text", "thinking", "tool"}
    BY <1>6, <2>1
  <2> HIDE DEF m, p, to, b, said
  <2>6. SaysPiece(m, p, to, b)
    BY <1>3, <2>1, <2>2, <2>3, <2>5, Zenon DEF SaysPiece, Stays
  <2>7. Told("content_block_delta", p.done, b.kind, text, to)
    BY <2>1, <2>2, <2>4, <2>5
  <2>8. StreamStep(m, p, to, said)
    BY <2>6, Zenon DEF StreamStep, b
  <2> QED BY <1>7, <2>7, <2>8 DEF m
<1>13. CASE CloseBlock(a)
  <2> DEFINE to == [p EXCEPT !.open = 0, !.done = p.done + 1]
             b == said[p.open]
             m == FrameOf(a, "content_block_stop", p.done, "none", <<>>, to.n)
  <2>1. /\ Moves(a, to) /\ Frame(a, "content_block_stop", p.done, "none", <<>>) /\ Calm
        /\ p.open > 0 /\ p.piece = Len(b.text)
    BY <1>2, <1>13 DEF CloseBlock
  <2>2. to.n = p.n /\ to.closed = p.closed /\ to.open = 0 /\ to.done = p.done + 1
    <3> HIDE DEF p
    <3> QED BY <1>3
  <2>3. m.raw = "content_block_stop" /\ m.index = p.done
    BY <1>8
  <2>4. ~ p.closed /\ a \in script.streamed /\ p.open = p.done + 1 /\ IsSeq(b.text)
    BY <1>6, <2>1
  <2> HIDE DEF m, p, to, b, said
  <2>5. EndsBlock(m, p, to, b)
    BY <1>3, <2>1, <2>2, <2>3, <2>4, Zenon DEF EndsBlock, Stays
  <2>6. Told("content_block_stop", p.done, "none", <<>>, to)
    BY <1>9, <2>1, <2>2, <2>4
  <2>7. StreamStep(m, p, to, said)
    BY <2>5, Zenon DEF StreamStep, b
  <2> QED BY <1>7, <2>6, <2>7 DEF m
<1>14. CASE CloseMessage(a)
  <2> DEFINE to == [p EXCEPT !.closed = TRUE]
             m == FrameOf(a, "message_stop", 0, "none", <<>>, to.n)
  <2>1. /\ Moves(a, to) /\ Frame(a, "message_stop", 0, "none", <<>>) /\ Calm
        /\ a \in script.streamed /\ ~ p.closed
    BY <1>14 DEF CloseMessage
  <2>2. to.n = p.n /\ to.closed = TRUE /\ to.open = p.open /\ to.done = p.done
    <3> HIDE DEF p
    <3> QED BY <1>3
  <2>3. m.raw = "message_stop"
    BY <1>8
  <2> HIDE DEF m, p, to, said
  <2>4. EndsMessage(m, p, to)
    BY <1>3, <2>1, <2>2, <2>3, Zenon DEF EndsMessage, Stays
  <2>5. Told("message_stop", 0, "none", <<>>, to)
    BY <1>9, <2>1, <2>2
  <2>6. StreamStep(m, p, to, said)
    BY <2>4, Zenon DEF StreamStep
  <2> QED BY <1>7, <2>5, <2>6 DEF m
<1> QED BY <1>10, <1>11, <1>12, <1>13, <1>14

\* What no frame brings keeps the telling: no reply is told of, and streams and
\* the places of whom is streamed stay.
LEMMA SilenceKeepsTelling ==
    ASSUME NamesKept, RepliesTell, script' = script, turn' = turn,
           count'.frame = count.frame, count'.lost = count.lost,
           IsAdapter(adapter'), adapter'.streams = adapter.streams,
           adapter'.blocks = adapter.blocks, adapter'.replies = adapter.replies,
           Silent(events, events'),
           \A a \in Streamers :
               /\ at'[a].n = at[a].n /\ at'[a].closed = at[a].closed /\ at'[a].open = at[a].open
               /\ at'[a].piece = at[a].piece /\ at'[a].done = at[a].done
    PROVE  RepliesTell'
<1> DEFINE t == Script[turn]
           lost == count.lost
<1>1. /\ Script'[turn'] = t /\ Streamers' = Streamers /\ Frames' = Frames /\ count'.lost = lost
  BY DEF Script, Streamers, Frames
<1>2. TellsWell(adapter, events, at, Frames, t, Streamers, lost)
  BY DEF RepliesTell
<1>3. lost \in Nat /\ (lost <= 1 => Names)
  BY DEF NamesKept, Places, Counts
<1>4. lost <= 1 => \A b \in DOMAIN adapter.streams : b \in Streamers
  BY <1>3, Zenon DEF Names, StreamNames, Streaming, StreamsOK, Streamers
<1> HIDE DEF t, lost
<1>5. RepliesHeld(adapter', events') /\ WellTold(events') /\ EventsWell(events', t, lost)
  <2>1. RepliesHeld(adapter, events) /\ WellTold(events) /\ EventsWell(events, t, lost)
    BY <1>2 DEF TellsWell
  <2>2. SomeReplies(adapter, adapter')
    BY DEF SomeReplies
  <2>3. \A stream, index : SoFar(events', stream, index) = SoFar(events, stream, index)
    BY DEF Silent
  <2>4. RepliesHeld(adapter', events')
    BY <2>1, <2>2, <2>3, SomeAreHeld
  <2>5. WellTold(events')
    BY <2>1, <2>3 DEF WellTold, Silent, GoesOn
  <2> QED BY <2>1, <2>4, <2>5, SilenceIsWell
<1>6. ASSUME lost <= 1 PROVE BeginsOnce(adapter', events', at', Frames)
  <2>1. BeginsOnce(adapter, events, at, Frames)
    BY <1>2, <1>6 DEF TellsWell
  <2>2. \A stream, index : SoFar(events', stream, index) = SoFar(events, stream, index)
    BY DEF Silent
  <2>3. \A a \in DOMAIN adapter.streams : \A i : Unopened(at'[a], i) => Unopened(at[a], i)
    BY <1>4, <1>6 DEF Unopened
  <2>4. /\ \A x, i : SoFar(events', x, i).begun <= 1 /\ (x \notin Frames => SoFar(events', x, i) = Untold)
        /\ \A k \in DOMAIN adapter'.replies :
             adapter'.replies[k].start => SoFar(events', k[1], k[2]).begun = 0
        /\ \A a \in DOMAIN adapter'.streams : \A i :
             Unopened(at'[a], i) => SoFar(events', adapter'.streams[a].stream, i).begun = 0
    <3>1. \A x, i : SoFar(events', x, i).begun <= 1 /\ (x \notin Frames => SoFar(events', x, i) = Untold)
      BY <2>1, <2>2 DEF BeginsOnce
    <3>2. ASSUME NEW k \in DOMAIN adapter'.replies, adapter'.replies[k].start
          PROVE  SoFar(events', k[1], k[2]).begun = 0
      <4>1. k \in DOMAIN adapter.replies /\ adapter.replies[k].start
        BY <3>2
      <4> QED BY <2>1, <2>2, <4>1 DEF BeginsOnce
    <3>3. ASSUME NEW a \in DOMAIN adapter'.streams, NEW i, Unopened(at'[a], i)
          PROVE  SoFar(events', adapter'.streams[a].stream, i).begun = 0
      <4>1. a \in DOMAIN adapter.streams /\ adapter'.streams[a] = adapter.streams[a] /\ Unopened(at[a], i)
        BY <2>3, <3>3
      <4> QED BY <2>1, <2>2, <4>1 DEF BeginsOnce
    <3> QED BY <3>1, <3>2, <3>3
  <2> QED BY <2>4 DEF BeginsOnce
<1>7. ASSUME lost = 0 PROVE StreamsAreWhole(adapter', events', at', t, Streamers)
  <2>1. StreamsAreWhole(adapter, events, at, t, Streamers)
    BY <1>2, <1>7 DEF TellsWell
  <2>2. \A stream, index : SoFar(events', stream, index) = SoFar(events, stream, index)
    BY DEF Silent
  <2>3. ASSUME NEW a \in Streamers, ~ at'[a].closed
        PROVE  a \in DOMAIN adapter'.streams /\ adapter'.streams[a].message = <<a, at'[a].n>>
    BY <2>1, <2>3 DEF StreamsAreWhole
  <2>4. ASSUME NEW a \in DOMAIN adapter'.streams PROVE SpeaksFor(adapter', events', at'[a], t, a)
    <3>1. a \in DOMAIN adapter.streams /\ a \in Streamers
      BY <1>4, <1>7
    <3>2. SpeaksFor(adapter, events, at[a], t, a)
      BY <2>1, <3>1 DEF StreamsAreWhole
    <3>3. \A k : SameAt(adapter.blocks, adapter'.blocks, k) /\ SameAt(adapter.replies, adapter'.replies, k)
      BY DEF SameAt
    <3> QED BY <2>2, <3>1, <3>2, <3>3, OthersSpeak
  <2> QED BY <2>3, <2>4 DEF StreamsAreWhole
<1>8. TellsWell(adapter', events', at', Frames, t, Streamers, lost)
  BY <1>5, <1>6, <1>7 DEF TellsWell
<1> QED BY <1>1, <1>8 DEF RepliesTell

\* Events without a stream tell of no reply.
LEMMA TameIsSilent ==
    ASSUME NEW es, NEW all, NEW fs, IsSeq(es), IsSeq(fs), all = es \o fs,
           \A e \in Range(fs) : "stream" \notin DOMAIN e.data
    PROVE  Silent(es, all)
<1>1. \A e \in Range(fs) : ~ TellsReply(e)
  BY DEF TellsReply
<1> QED BY <1>1, SilenceGoesOn

\* An envelope tells of no reply.
LEMMA EnvelopeKeepsTelling ==
    ASSUME NamesKept, RepliesTell, script' = script, turn' = turn,
           count'.frame = count.frame, count'.lost = count.lost,
           NEW m, Deliver(m), m.type = "assistant", IsSeq(m.content),
           \A i \in DOMAIN m.content : m.content[i].kind \in {"text", "thinking", "tool"},
           \A a \in Streamers :
               /\ at'[a].n = at[a].n /\ at'[a].closed = at[a].closed /\ at'[a].open = at[a].open
               /\ at'[a].piece = at[a].piece /\ at'[a].done = at[a].done
    PROVE  RepliesTell'
<1> DEFINE r == Adapt(adapter, m)
<1>1. adapter' = r.ad /\ events' = events \o r.events
  BY DEF Deliver
<1>2. IsAdapter(adapter) /\ IsSeq(events)
  BY DEF RepliesTell, TellsWell, RepliesHeld, WellTold
<1>3. /\ IsAdapter(r.ad) /\ r.ad.streams = adapter.streams
      /\ r.ad.blocks = adapter.blocks /\ r.ad.replies = adapter.replies
      /\ IsSeq(r.events) /\ \A e \in Range(r.events) : "stream" \notin DOMAIN e.data
  <2>1. EnvelopeArrived(adapter, m)
    BY <1>2, EnvelopeArrives
  <2>2. \A offset, e : ShownAt(m, offset, e) => "stream" \notin DOMAIN e.data
    BY Zenon DEF ShownAt, Tame
  <2> QED BY <2>1, <2>2, Zenon DEF EnvelopeArrived
<1> HIDE DEF r
<1>4. Silent(events, events')
  BY <1>1, <1>2, <1>3, TameIsSilent
<1> QED BY <1>1, <1>3, <1>4, SilenceKeepsTelling

\* Neither do answers, tasks, prints and foreign changes.
LEMMA QuietKeepsTelling ==
    ASSUME NamesKept, RepliesTell, script' = script, turn' = turn, at' = at,
           count'.frame = count.frame, count'.lost = count.lost,
           \/ UNCHANGED live
           \/ \E m : Deliver(m) /\ (m.type = "task" \/ (m.type = "user" /\ IsSeq(m.content)))
    PROVE  RepliesTell'
<1>1. IsAdapter(adapter) /\ IsSeq(events)
  BY DEF RepliesTell, TellsWell, RepliesHeld, WellTold
<1>2. CASE UNCHANGED live
  <2>1. adapter' = adapter /\ events' = events
    BY <1>2 DEF live
  <2>2. Silent(events, events')
    <3>1. events' = events \o <<>> /\ IsSeq(<<>>) /\ Range(<<>>) = {}
      BY <1>1, <2>1, NothingAdded, NoElements
    <3> QED BY <1>1, <3>1, TameIsSilent
  <2> QED BY <1>1, <2>1, <2>2, SilenceKeepsTelling
<1>3. CASE \E m : Deliver(m) /\ (m.type = "task" \/ (m.type = "user" /\ IsSeq(m.content)))
  <2>1. PICK m : Deliver(m) /\ (m.type = "task" \/ (m.type = "user" /\ IsSeq(m.content)))
    BY <1>3
  <2> DEFINE r == Adapt(adapter, m)
  <2>2. adapter' = r.ad /\ events' = events \o r.events
    BY <2>1 DEF Deliver
  <2>3. SameNames(adapter, r.ad) /\ IsSeq(r.events) /\ \A e \in Range(r.events) : Tame(e)
    BY <1>1, <2>1, UserKeepsNames, TaskKeepsNames
  <2> HIDE DEF r
  <2>4. Silent(events, events')
    <3>1. \A e \in Range(r.events) : "stream" \notin DOMAIN e.data
      BY <2>3 DEF Tame
    <3> QED BY <1>1, <2>2, <2>3, <3>1, TameIsSilent
  <2> QED BY <2>2, <2>3, <2>4, SilenceKeepsTelling DEF SameNames
<1> QED BY <1>2, <1>3

\* What is written down last is what it was, the new message, or no envelope.
LEMMA WrittenLast ==
    ASSUME Places, LastSaid(main), LastSaid(subs), NEW a, NEW m, WriteDown(a, m),
           m.type = "assistant" =>
               IsSeq(m.content) /\ \A i \in DOMAIN m.content : m.content[i].kind \in {"text", "thinking", "tool"}
    PROVE  LastSaid(main') /\ LastSaid(subs')
<1>1. ASSUME NEW s, IsSeq(s) PROVE LastSaid(Append(s, m))
  <2>1. Append(s, m)[Len(Append(s, m))] = m
    BY <1>1, OneMore
  <2> QED BY <2>1 DEF LastSaid
<1>2. IsSeq(main) /\ IsSeq(subs)
  BY DEF Places
<1> QED BY <1>1, <1>2 DEF WriteDown

LEMMA SendKeepsReplies ==
    ASSUME RepliesKept, NEW a \in Agents, NEW to \in 1..MaxBlocks, SendEnvelope(a, to)
    PROVE  RepliesKept'
<1> DEFINE m == Sent(a, to)
           now == Now(a)
           mid == [now EXCEPT !.sent = to]
           new == [mid EXCEPT !.closed = a \notin script.streamed /\ to = Len(Said(a)[now.n])]
<1>1. NamesKept /\ Places /\ RepliesTell /\ LastSaid(main) /\ LastSaid(subs) /\ NamesKept'
  BY SendKeepsNames DEF RepliesKept, NamesKept
<1>2. /\ ~ now.closed /\ Deliver(m) /\ WriteDown(a, m) /\ Moves(a, new)
      /\ count' = [count EXCEPT !.packet = @ + 1] /\ script' = script /\ turn' = turn
  BY SendIs, Zenon
<1>3. count'.frame = count.frame /\ count'.lost = count.lost
  BY <1>1, <1>2 DEF Places, Counts
<1>4. /\ m.type = "assistant" /\ IsSeq(m.content)
      /\ \A i \in DOMAIN m.content : m.content[i].kind \in {"text", "thinking", "tool"}
  BY <1>1, SentIs, Zenon
<1>5. ASSUME NEW b \in Streamers
      PROVE  /\ at'[b].n = at[b].n /\ at'[b].closed = at[b].closed /\ at'[b].open = at[b].open
             /\ at'[b].piece = at[b].piece /\ at'[b].done = at[b].done
  <2>1. b \in script.streamed /\ b \in Agents /\ DOMAIN at = Agents
    BY <1>1 DEF Streamers, Places
  <2>2. CASE b # a
    <3>1. at'[b] = at[b]
      BY <1>2, <2>1, <2>2 DEF Moves
    <3> QED BY <3>1
  <2>3. CASE b = a
    <3>1. now = at[a] /\ at[a] \in Place
      BY <1>1, <2>1, <2>3 DEF Now, Places, PlaceOK
    <3>2. at'[a] = new
      BY <1>2, <2>1 DEF Moves
    <3> DEFINE p == at[a]
    <3>3. /\ p \in Place /\ now = p /\ ~ p.closed
      BY <1>2, <3>1
    <3> HIDE DEF p, now
    <3>4. /\ DOMAIN mid = {"n", "closed", "open", "piece", "done", "sent"}
          /\ mid.n = p.n /\ mid.closed = p.closed /\ mid.open = p.open /\ mid.piece = p.piece /\ mid.done = p.done
      BY <3>3, Zenon DEF Place
    <3> HIDE DEF mid
    <3>5. new.n = p.n /\ new.open = p.open /\ new.piece = p.piece /\ new.done = p.done /\ new.closed = FALSE
      BY <2>1, <2>3, <3>4, Zenon
    <3>6. p.closed = FALSE
      <4>1. p.closed \in BOOLEAN
        BY <3>3, Zenon DEF Place
      <4> QED BY <3>3, <4>1
    <3> HIDE DEF new
    <3> QED BY <2>3, <3>2, <3>5, <3>6 DEF p
  <2> QED BY <2>2, <2>3
<1> HIDE DEF m
<1>6. RepliesTell'
  BY <1>1, <1>2, <1>3, <1>4, <1>5, EnvelopeKeepsTelling
<1>7. LastSaid(main') /\ LastSaid(subs')
  BY <1>1, <1>2, <1>4, WrittenLast
<1> QED BY <1>1, <1>6, <1>7 DEF RepliesKept

LEMMA RepeatKeepsReplies ==
    ASSUME RepliesKept, NEW a \in Agents, RepeatEnvelope(a)
    PROVE  RepliesKept'
<1> DEFINE all == IF a = Main THEN main ELSE subs
           m == all[Len(all)]
<1>1. NamesKept /\ Places /\ RepliesTell /\ LastSaid(main) /\ LastSaid(subs) /\ NamesKept'
  BY RepeatKeepsNames DEF RepliesKept, NamesKept
<1>2. script' = script /\ turn' = turn /\ at' = at
  BY <1>1, QuietPlaces
<1>3. /\ all # <<>> /\ m.type = "assistant" /\ Deliver(m)
      /\ count' = [count EXCEPT !.repeats = @ + 1] /\ main' = main /\ subs' = subs
  BY DEF RepeatEnvelope, kept
<1>4. count'.frame = count.frame /\ count'.lost = count.lost
  BY <1>1, <1>3 DEF Places, Counts
<1>5. IsSeq(m.content) /\ \A i \in DOMAIN m.content : m.content[i].kind \in {"text", "thinking", "tool"}
  <2>1. LastSaid(all)
    BY <1>1
  <2> HIDE DEF all
  <2> QED BY <1>3, <2>1 DEF LastSaid
<1> HIDE DEF m
<1>6. RepliesTell'
  BY <1>1, <1>2, <1>3, <1>4, <1>5, EnvelopeKeepsTelling
<1> QED BY <1>1, <1>3, <1>6 DEF RepliesKept

\* A new adapter has told of no reply.
LEMMA FreshTells ==
    ASSUME NEW fs, NEW t, NEW who, who \subseteq Agents, NEW lost
    PROVE  TellsWell(Fresh, <<>>, Unbegun, fs, t, who, lost)
<1>1. IsAdapter(Fresh) /\ DOMAIN Fresh.streams = {} /\ DOMAIN Fresh.replies = {}
  BY DEF Fresh, NewAdapter, IsAdapter
<1> HIDE DEF Fresh
<1> DEFINE es == <<>>
<1>2. IsSeq(es) /\ Len(es) = 0
  BY NoElements
<1> HIDE DEF es
<1>3. \A stream, index : SoFar(es, stream, index) = Untold
  BY <1>2, ReplyFunction DEF SoFar
<1>4. Untold.begun = 0 /\ Untold.text = <<>> /\ IsSeq(Untold.text)
  BY NoElements DEF Untold
<1>5. RepliesHeld(Fresh, es) /\ WellTold(es) /\ EventsWell(es, t, lost)
  BY <1>1, <1>2, <1>3, <1>4 DEF RepliesHeld, WellTold, EventsWell
<1>6. BeginsOnce(Fresh, es, Unbegun, fs)
  BY <1>1, <1>3, <1>4 DEF BeginsOnce
<1>7. StreamsAreWhole(Fresh, es, Unbegun, t, who)
  <2>1. \A a \in who : Unbegun[a].closed
    BY DEF Unbegun, NotBegun
  <2> QED BY <1>1, <2>1 DEF StreamsAreWhole
<1> QED BY <1>5, <1>6, <1>7 DEF TellsWell, es

LEMMA PromptKeepsReplies ==
    ASSUME RepliesKept, NextPrompt
    PROVE  RepliesKept'
<1>1. NamesKept /\ Places /\ LastSaid(main) /\ LastSaid(subs) /\ NamesKept'
  BY PromptKeepsNames DEF RepliesKept, NamesKept
<1>2. /\ at' = Unbegun /\ adapter' = Fresh /\ events' = <<>>
      /\ main' = Append(main, Prompt(turn + 1)) /\ subs' = subs
  BY DEF NextPrompt, Unbegun, Fresh
<1>3. RepliesTell'
  <2>1. TellsWell(Fresh, <<>>, Unbegun, Frames', Script'[turn'], Streamers', count'.lost)
    <3>1. Streamers' \subseteq Agents
      BY DEF Streamers
    <3> QED BY <3>1, FreshTells
  <2> QED BY <1>2, <2>1 DEF RepliesTell
<1>4. LastSaid(main')
  <2>1. IsSeq(main) /\ Prompt(turn + 1).type # "assistant"
    BY <1>1 DEF Places, Prompt
  <2>2. main'[Len(main')] = Prompt(turn + 1)
    BY <1>2, <2>1, OneMore
  <2> QED BY <2>1, <2>2 DEF LastSaid
<1> QED BY <1>1, <1>2, <1>3, <1>4 DEF RepliesKept

LEMMA RepliesAtFirst ==
    ASSUME Init
    PROVE  RepliesKept
<1>1. NamesKept
  BY NamesAtFirst
<1>2. at = Unbegun /\ adapter = Fresh /\ events = <<>> /\ main = <<Prompt(1)>> /\ subs = <<>>
  BY DEF Init, Unbegun, Fresh
<1>3. RepliesTell
  <2>1. TellsWell(Fresh, <<>>, Unbegun, Frames, Script[turn], Streamers, count.lost)
    <3>1. Streamers \subseteq Agents
      BY DEF Streamers
    <3> QED BY <3>1, FreshTells
  <2> QED BY <1>2, <2>1 DEF RepliesTell
<1>4. LastSaid(main) /\ LastSaid(subs)
  <2>1. main[Len(main)].type # "assistant"
    BY <1>2 DEF Prompt
  <2> QED BY <1>2, <2>1 DEF LastSaid
<1> QED BY <1>1, <1>3, <1>4 DEF RepliesKept

\* Every step keeps the replies.
LEMMA RepliesStay ==
    ASSUME RepliesKept, [Next]_vars
    PROVE  RepliesKept'
<1> DEFINE Streams(a) == Begin(a) \/ OpenBlock(a) \/ Piece(a) \/ CloseBlock(a) \/ CloseMessage(a)
           Quiet == \/ Answering \/ PrintOutput \/ EndTurn \/ UNCHANGED vars
                    \/ \E f, c : Foreign(f, c)
<1>0. /\ NamesKept /\ Places /\ RepliesTell /\ LastSaid(main) /\ LastSaid(subs)
      /\ NamesKept'
  BY NamesStay DEF RepliesKept, NamesKept
<1>1. \/ \E a \in Agents : Streams(a)
      \/ \E a \in Agents, to \in 1..MaxBlocks : SendEnvelope(a, to)
      \/ \E a \in Agents : RepeatEnvelope(a)
      \/ NextPrompt
      \/ Quiet
  BY Zenon DEF Next, Says, Works, Answering
<1>2. CASE \E a \in Agents : Streams(a)
  <2>1. PICK a \in Agents : Streams(a)
    BY <1>2
  <2>2. RepliesTell'
    BY <1>0, <2>1, StreamKeepsTelling
  <2>3. main' = main /\ subs' = subs
    BY <2>1 DEF Begin, OpenBlock, Piece, CloseBlock, CloseMessage, Calm, kept
  <2> QED BY <1>0, <2>2, <2>3 DEF RepliesKept
<1>3. CASE \E a \in Agents, to \in 1..MaxBlocks : SendEnvelope(a, to)
  BY <1>3, SendKeepsReplies
<1>4. CASE \E a \in Agents : RepeatEnvelope(a)
  BY <1>4, RepeatKeepsReplies
<1>5. CASE NextPrompt
  BY <1>5, PromptKeepsReplies
<1>6. CASE Quiet
  <2>1. script' = script /\ turn' = turn /\ at' = at
    BY <1>0, <1>6, QuietPlaces
  <2>2. count'.frame = count.frame /\ count'.lost = count.lost
    <3>0. count \in Counts
      BY <1>0 DEF Places
    <3>1. \/ count' = count \/ count' = [count EXCEPT !.foreign = @ + 1]
          \/ \E tells \in BOOLEAN : count' = [count EXCEPT !.untold = @ + (IF tells THEN 0 ELSE 1)]
      BY <1>6, AnsweringCounts DEF PrintOutput, EndTurn, Foreign, vars
    <3> QED BY <3>0, <3>1 DEF Counts
  <2>3. /\ UNCHANGED live \/ \E m : Deliver(m) /\ (m.type = "task" \/ (m.type = "user" /\ IsSeq(m.content)))
        /\ (\E a, m : m.type = "user" /\ WriteDown(a, m)) \/ (main' = main /\ subs' = subs)
    <3>1. CASE Answering
      BY <3>1, AnsweringIs
    <3>2. CASE PrintOutput
      <4> DEFINE m == [type |-> "user", parent |-> Main, uuid |-> <<"print", turn>>, said |-> "stdout",
                       note |-> NoNote, content |-> <<[kind |-> "text", text |-> Output]>>]
      <4>1. WriteDown(Main, m) /\ UNCHANGED live
        BY <3>2 DEF PrintOutput
      <4>2. m.type = "user"
        OBVIOUS
      <4> HIDE DEF m
      <4> QED BY <4>1, <4>2
    <3>3. CASE EndTurn \/ UNCHANGED vars \/ \E f, c : Foreign(f, c)
      BY <3>3 DEF EndTurn, Foreign, vars, kept
    <3> QED BY <1>6, <3>1, <3>2, <3>3
  <2>4. RepliesTell'
    BY <1>0, <2>1, <2>2, <2>3, QuietKeepsTelling
  <2>5. LastSaid(main') /\ LastSaid(subs')
    <3>1. CASE main' = main /\ subs' = subs
      BY <1>0, <3>1
    <3>2. CASE \E a, m : m.type = "user" /\ WriteDown(a, m)
      <4>1. PICK a, m : m.type = "user" /\ WriteDown(a, m)
        BY <3>2
      <4>2. m.type # "assistant"
        BY <4>1
      <4> QED BY <1>0, <4>1, <4>2, WrittenLast
    <3> QED BY <2>3, <3>1, <3>2
  <2> QED BY <1>0, <2>4, <2>5 DEF RepliesKept
<1> QED BY <1>1, <1>2, <1>3, <1>4, <1>5, <1>6

\* What the invariant says of the events and of what is held back is what the page relies on.
LEMMA KeptRepliesAreWhole ==
    ASSUME RepliesKept
    PROVE  RepliesAreWhole
<1> DEFINE t == Script[turn]
<1>1. RepliesHeld(adapter, events) /\ IsSeq(events) /\ EventsWell(events, t, count.lost)
  BY DEF RepliesKept, RepliesTell, TellsWell, WellTold
<1>2. \A k \in DOMAIN adapter.replies : ~ HasText(adapter.replies[k].pending)
  BY <1>1 DEF RepliesHeld, ReplyHeld
<1>3. ASSUME NEW i \in DOMAIN events PROVE ToldWell(events[i], Until(events, i), t, count.lost)
  BY <1>1, Elements DEF EventsWell
<1> QED BY <1>2, <1>3, Zenon DEF RepliesAreWhole, ToldWell, Until, Block

\* What streams, blocks and replies of _MessageAdapter hold, and what was told
\* of them until now, agree with what every agent has said so far.
THEOREM RepliesAreKept == Spec => []RepliesKept
<1>1. Init => RepliesKept
  BY RepliesAtFirst
<1>2. RepliesKept /\ [Next]_vars => RepliesKept'
  BY RepliesStay
<1> QED BY <1>1, <1>2, PTL DEF Spec

\* A streamed reply begins once, when it has text, shows no more than its block,
\* and shows all of it when it ends: for any scripts.
THEOREM RepliesTellAll == Spec => []RepliesAreWhole
<1>1. RepliesKept => RepliesAreWhole
  BY KeptRepliesAreWhole
<1> QED BY <1>1, RepliesAreKept, PTL

-----------------------------------------------------------------------------
(* What events show of the changes of files *)

\* A set of positions of a sequence has a greatest one, and Max is it.
LEMMA GreatestPosition ==
    ASSUME NEW n \in Nat, NEW T, T \subseteq 1..n, T # {}
    PROVE  Max(T) \in T /\ \A y \in T : Max(T) >= y
<1> DEFINE U == {k \in 0..n : n - k \in T}
<1>1. U \subseteq Nat /\ U # {}
  <2>1. PICK x \in T : TRUE
    OBVIOUS
  <2>2. n - x \in 0..n /\ n - (n - x) = x
    BY <2>1
  <2>3. n - x \in U
    BY <2>1, <2>2
  <2>4. U \subseteq Nat
    OBVIOUS
  <2> HIDE DEF U
  <2> QED BY <2>3, <2>4
<1>2. PICK k \in U : \A j \in U : k <= j
  <2> HIDE DEF U
  <2> QED BY <1>1, LeastPosition, Zenon
<1>3. n - k \in T
  BY <1>2
<1>4. ASSUME NEW y \in T PROVE n - k >= y
  <2>1. n - y \in U /\ y \in 1..n
    <3>1. y \in 1..n /\ n - y \in 0..n /\ n - (n - y) = y
      OBVIOUS
    <3> QED BY <3>1
  <2> QED BY <1>2, <2>1
<1>5. \E x \in T : \A y \in T : x >= y
  BY <1>3, <1>4
<1> QED BY <1>5, Zenon DEF Max

ShowsFiles(es) == {i \in DOMAIN es : es[i].event = "files.changed"}

\* Events of something else change nothing of what was shown last.
LEMMA ShownBefore ==
    ASSUME NEW es, NEW fs, IsSeq(es), IsSeq(fs), \A e \in Range(fs) : e.event # "files.changed"
    PROVE  LastShown(es \o fs) = LastShown(es)
<1> DEFINE all == es \o fs
<1>1. /\ Len(es) \in Nat /\ DOMAIN es = 1..Len(es) /\ Len(fs) \in Nat
      /\ \A i \in 1..Len(fs) : fs[i] \in Range(fs)
  BY Elements
<1>2. /\ DOMAIN all = 1..(Len(es) + Len(fs))
      /\ \A i \in 1..Len(es) : all[i] = es[i]
      /\ \A i \in 1..Len(fs) : all[Len(es) + i] = fs[i]
  <2> DEFINE X == Range(es) \cup Range(fs)
  <2>1. es \in Seq(Range(es)) /\ fs \in Seq(Range(fs)) /\ Range(es) \subseteq X /\ Range(fs) \subseteq X
    BY DEF IsSeq
  <2> HIDE DEF X
  <2>2. es \in Seq(X) /\ fs \in Seq(X)
    BY <2>1
  <2> QED BY <2>2
<1> HIDE DEF all
<1>3. ShowsFiles(all) = ShowsFiles(es)
  <2>1. ASSUME NEW i \in DOMAIN all, all[i].event = "files.changed" PROVE i \in 1..Len(es)
    <3> SUFFICES ASSUME i \notin 1..Len(es) PROVE FALSE
      OBVIOUS
    <3>1. i - Len(es) \in 1..Len(fs) /\ Len(es) + (i - Len(es)) = i
      BY <1>1, <1>2
    <3>2. all[i] \in Range(fs)
      BY <1>1, <1>2, <3>1
    <3> QED BY <2>1, <3>2
  <2>2. 1..Len(es) \subseteq DOMAIN all
    BY <1>1, <1>2
  <2> QED BY <1>1, <1>2, <2>1, <2>2 DEF ShowsFiles
<1>4. CASE ShowsFiles(es) = {}
  BY <1>3, <1>4 DEF LastShown, ShowsFiles, all
<1>5. CASE ShowsFiles(es) # {}
  <2>1. Max(ShowsFiles(es)) \in 1..Len(es)
    <3>1. ShowsFiles(es) \subseteq 1..Len(es)
      BY <1>1 DEF ShowsFiles
    <3> QED BY <1>1, <1>5, <3>1, GreatestPosition
  <2>2. all[Max(ShowsFiles(es))] = es[Max(ShowsFiles(es))]
    BY <1>2, <2>1
  <2> QED BY <1>3, <1>5, <2>2 DEF LastShown, ShowsFiles, all
<1> QED BY <1>4, <1>5

\* The last event shows the files, if it is of them.
LEMMA ShownNow ==
    ASSUME NEW es, IsSeq(es), NEW e, e.event = "files.changed"
    PROVE  LastShown(Append(es, e)) = e.data.files
<1> DEFINE all == Append(es, e)
           n == Len(all)
<1>1. IsSeq(all) /\ n = Len(es) + 1 /\ all[n] = e
  BY OneMore
<1> HIDE DEF all
<1>2. n \in Nat /\ n >= 1 /\ DOMAIN all = 1..n
  BY <1>1, Elements
<1>3. n \in ShowsFiles(all) /\ ShowsFiles(all) \subseteq 1..n
  BY <1>1, <1>2 DEF ShowsFiles
<1>4. Max(ShowsFiles(all)) = n
  <2> DEFINE top == Max(ShowsFiles(all))
  <2>1. top \in ShowsFiles(all) /\ \A y \in ShowsFiles(all) : top >= y
    BY <1>2, <1>3, GreatestPosition
  <2> HIDE DEF top
  <2>2. top \in 1..n /\ top >= n
    BY <1>3, <2>1
  <2> HIDE DEF n
  <2>3. top = n
    BY <1>2, <2>2
  <2> QED BY <2>3 DEF top, n
<1> QED BY <1>1, <1>3, <1>4 DEF LastShown, ShowsFiles, all

-----------------------------------------------------------------------------
(* What a message does to the changes *)

\* Without a tool that succeeded nothing is gathered.
LEMMA NothingGathered ==
    ASSUME NEW done, IsSeq(done.events), \A e \in Range(done.events) : ~ Succeeded(done.ad.tools, e)
    PROVE  Gathered(done) = done.ad.changes
<1> DEFINE last == Len(done.events)
           tools == done.ad.tools
           c == done.ad.changes
           Next1(f, n) == WithEdit(f[n - 1], tools, done.events[n])
           IsAfter(f) == f = [n \in 0..last |-> IF n = 0 THEN c ELSE Next1(f, n)]
           h == CHOOSE f : IsAfter(f)
           g == [n \in 0..last |-> c]
<1>1. last \in Nat /\ \A n \in 1..last : done.events[n] \in Range(done.events)
  BY Elements
<1>2. \A x : \A n \in 1..last : WithEdit(x, tools, done.events[n]) = x
  BY <1>1 DEF WithEdit
<1>3. \A n \in 0..last : n # 0 => n \in 1..last /\ n - 1 \in 0..last
  BY <1>1
<1> HIDE DEF last, tools, c
<1>4. IsAfter(g)
  <2>1. \A n \in 0..last : g[n] = IF n = 0 THEN c ELSE Next1(g, n)
    <3> SUFFICES ASSUME NEW n \in 0..last PROVE g[n] = IF n = 0 THEN c ELSE Next1(g, n)
      BY Zenon
    <3>1. n # 0 => g[n - 1] = c
      BY <1>3, Zenon
    <3> HIDE DEF g
    <3>2. n # 0 => Next1(g, n) = c
      BY <1>2, <1>3, <3>1, Zenon
    <3> QED BY <3>2, Zenon DEF g
  <2> QED BY <2>1, Zenon
<1>5. IsAfter(h)
  <2> HIDE DEF g, IsAfter
  <2>1. \E f : IsAfter(f)
    BY <1>4
  <2> QED BY <2>1, Zenon
<1>6. Gathered(done) = h[last]
  BY DEF Gathered, last, tools, c
<1>7. h[0] = c /\ \A n \in 1..last : h[n] = h[n - 1]
  <2> HIDE DEF h
  <2>1. 0 \in 0..last /\ \A n \in 1..last : n \in 0..last /\ n # 0
    BY <1>1 DEF last
  <2>2. h[0] = c /\ \A n \in 1..last : h[n] = Next1(h, n)
    BY <1>5, <2>1, Zenon
  <2> QED BY <1>2, <2>2, Zenon
<1> HIDE DEF h
<1>8. last + 1 \in {k \in 1..(last + 1) : h[k - 1] = c}
  <2> DEFINE Good == {k \in 1..(last + 1) : h[k - 1] = c}
  <2>1. last \in Nat /\ last + 1 \in Nat \ {0}
    BY <1>1 DEF last
  <2>2. 1 \in Good
    BY <1>7, <2>1
  <2>3. ASSUME NEW k \in 2..(last + 1), k - 1 \in Good PROVE k \in Good
    <3>1. k - 1 \in 1..last /\ k \in 1..(last + 1) /\ h[(k - 1) - 1] = c
      BY <2>1, <2>3
    <3> QED BY <1>7, <3>1
  <2> HIDE DEF Good
  <2>4. last + 1 \in Good
    BY <2>1, <2>2, <2>3, AlongPositions
  <2> QED BY <2>4 DEF Good
<1>9. h[last] = c
  <2>1. (last + 1) - 1 = last
    BY <1>1 DEF last
  <2> QED BY <1>8, <2>1
<1> QED BY <1>6, <1>9 DEF c

\* One event tells of one edit.
LEMMA OneGathered ==
    ASSUME NEW done, NEW e, done.events = <<e>>
    PROVE  Gathered(done) = WithEdit(done.ad.changes, done.ad.tools, e)
<1> DEFINE tools == done.ad.tools
           c == done.ad.changes
           es == done.events
           Next1(f, n) == WithEdit(f[n - 1], tools, es[n])
           IsAfter(f) == f = [n \in 0..1 |-> IF n = 0 THEN c ELSE Next1(f, n)]
           h == CHOOSE f : IsAfter(f)
           new == WithEdit(c, tools, e)
           g == [n \in 0..1 |-> IF n = 0 THEN c ELSE new]
<1>1. es[1] = e /\ Len(es) = 1
  OBVIOUS
<1>2. 0 \in 0..1 /\ 1 \in 0..1 /\ 1 # 0 /\ 1 - 1 = 0 /\ \A n \in 0..1 : n = 0 \/ n = 1
  OBVIOUS
<1> HIDE DEF tools, c, es, new
<1>3. IsAfter(g)
  <2>1. g[0] = c /\ g[1] = new
    BY <1>2, Zenon
  <2> HIDE DEF g
  <2>2. Next1(g, 1) = new
    BY <1>1, <1>2, <2>1 DEF new
  <2>3. \A n \in 0..1 : g[n] = IF n = 0 THEN c ELSE Next1(g, n)
    <3> SUFFICES ASSUME NEW n \in 0..1 PROVE g[n] = IF n = 0 THEN c ELSE Next1(g, n)
      BY Zenon
    <3>1. CASE n = 0
      BY <2>1, <3>1, Zenon
    <3>2. CASE n = 1
      <4>1. n # 0
        BY <3>2
      <4> QED BY <2>1, <2>2, <3>2, <4>1, Zenon
    <3> QED BY <1>2, <3>1, <3>2, Zenon
  <2>4. g = [n \in 0..1 |-> g[n]]
    BY Zenon DEF g
  <2> QED BY <2>3, <2>4, Zenon
<1>4. IsAfter(h)
  <2> HIDE DEF g, IsAfter
  <2>1. \E f : IsAfter(f)
    BY <1>3
  <2> QED BY <2>1, Zenon
<1>5. Gathered(done) = h[1]
  <2>1. Gathered(done) =
          (CHOOSE f : f = [n \in 0..Len(es) |-> IF n = 0 THEN c ELSE Next1(f, n)])[Len(es)]
    BY DEF Gathered, tools, c, es
  <2> QED BY <1>1, <2>1
<1>6. h[0] = c /\ h[1] = Next1(h, 1)
  <2> HIDE DEF h
  <2> QED BY <1>2, <1>4, Zenon
<1> HIDE DEF h
<1>7. h[1] = new
  BY <1>1, <1>2, <1>6 DEF new
<1> QED BY <1>5, <1>7 DEF new, tools, c

\* Events that are of no file.
OfNoFile(es) == IsSeq(es) /\ \A e \in Range(es) : e.event # "files.changed"

\* Changes and tools stay.
SameChanges(ad, new) == IsAdapter(new) /\ new.changes = ad.changes /\ new.tools = ad.tools

LEMMA NoFiles ==
    /\ OfNoFile(<<>>)
    /\ \A e : e.event # "files.changed" => OfNoFile(<<e>>)
    /\ \A es, fs : OfNoFile(es) /\ OfNoFile(fs) => OfNoFile(es \o fs)
  BY NoElements, OneElement, Joined DEF OfNoFile

\* No frame tells of files.
LEMMA FramesShowNoFiles ==
    ASSUME NEW before, NEW m, IsRaw(m)
    PROVE  OfNoFile(AdaptStream(before, m).events)
<1> DEFINE ad == WithStream(before, m)
           s == ad.streams[m.parent]
           r == AdaptStream(before, m)
           said(name, text) == Event(name, m, StreamData(s, m, text))
<1>1. OfNoFile(<<>>) /\ \A name, text : name # "files.changed" => OfNoFile(<<said(name, text)>>)
  <2>1. \A name, text : said(name, text).event = name
    BY DEF Event
  <2> HIDE DEF said
  <2> QED BY <2>1, NoFiles
<1>2. CASE m.raw = "message_start"
  <2>1. r = [ad |-> ad, events |-> <<said("assistant.message.started", <<>>)>>]
    BY <1>2, Zenon DEF AdaptStream
  <2> HIDE DEF ad, r, said
  <2>2. r.events = <<said("assistant.message.started", <<>>)>>
    BY <2>1
  <2> QED BY <1>1, <2>2 DEF r
<1>3. CASE m.raw = "message_stop"
  <2>1. r = [ad |-> FinishStream(ad, m), events |-> <<said("assistant.message.stopped", <<>>)>>]
    BY <1>3, Zenon DEF AdaptStream
  <2> HIDE DEF ad, r, said
  <2>2. r.events = <<said("assistant.message.stopped", <<>>)>>
    BY <2>1
  <2> QED BY <1>1, <2>2 DEF r
<1>4. CASE m.raw = "content_block_start"
  <2>1. r = BlockStart(ad, s, m) /\ m.kind \in {"text", "thinking", "tool"}
    BY <1>4, Zenon DEF AdaptStream, IsRaw
  <2>2. r.events = <<>> \/ r.events = <<said("assistant.thinking.started", <<>>)>>
    BY <2>1 DEF BlockStart
  <2> HIDE DEF ad, r, said
  <2> QED BY <1>1, <2>2 DEF r
<1>5. CASE m.raw = "content_block_stop"
  <2>1. r = BlockStop(ad, s, m)
    BY <1>5, Zenon DEF AdaptStream
  <2>2. \/ r.events = <<>> \/ r.events = <<said("assistant.reply.stopped", <<>>)>>
        \/ r.events = <<said("assistant.thinking.stopped", <<>>)>>
    BY <2>1 DEF BlockStop
  <2> HIDE DEF ad, r, said
  <2> QED BY <1>1, <2>2 DEF r
<1>6. CASE m.raw = "content_block_delta"
  <2>1. r = BlockDelta(ad, s, m) /\ m.kind \in {"text", "thinking", "tool"}
    BY <1>6, Zenon DEF AdaptStream, IsRaw
  <2>2. CASE m.kind = "text"
    <3>1. r = TextDelta(ad, s, m)
      BY <2>1, <2>2, Zenon DEF BlockDelta
    <3> DEFINE reply == KeptReply(ad, ReplyKey(ad, m))
               text == IF reply.visible THEN m.text ELSE reply.pending \o m.text
               started == IF reply.start THEN <<said("assistant.reply.started", <<>>)>> ELSE <<>>
               delta == <<said("assistant.reply.delta", text)>>
               shown == [ad EXCEPT !.replies =
                            Put(@, ReplyKey(ad, m), [start |-> FALSE, pending |-> <<>>, visible |-> TRUE])]
               kept2 == [ad EXCEPT !.replies = Put(@, ReplyKey(ad, m), [reply EXCEPT !.pending = text])]
    <3>2. r = IF reply.visible \/ HasText(text) THEN [ad |-> shown, events |-> started \o delta]
              ELSE [ad |-> kept2, events |-> <<>>]
      BY <3>1, Zenon DEF TextDelta, KeptReply, ReplyKey, Revealed
    <3>3. OfNoFile(delta)
      BY <1>1
    <3>4. OfNoFile(started)
      BY <1>1
    <3> HIDE DEF ad, r, started, delta, shown, kept2, reply, text
    <3>5. r.events = started \o delta \/ r.events = <<>>
      BY <3>2
    <3> QED BY <1>1, <3>3, <3>4, <3>5, NoFiles DEF r
  <2>3. CASE m.kind = "thinking"
    <3>1. r.events = <<said("assistant.thinking.delta", m.text)>>
      BY <2>1, <2>3 DEF BlockDelta
    <3> HIDE DEF ad, r, said
    <3> QED BY <1>1, <3>1 DEF r
  <2>4. CASE m.kind = "tool"
    <3>1. \/ r.events = <<said("tool.input.delta", <<>>)>>
          \/ r.events = <<said("subagent.tool.input.delta", <<>>)>>
      BY <2>1, <2>4 DEF BlockDelta, Named
    <3> HIDE DEF ad, r, said
    <3> QED BY <1>1, <3>1 DEF r
  <2> QED BY <2>1, <2>2, <2>3, <2>4
<1> QED BY <1>2, <1>3, <1>4, <1>5, <1>6 DEF IsRaw

\* No frame changes the changes.
LEMMA FramesKeepChanges ==
    ASSUME NEW before, NEW m, NEW es, IsAdapter(before), IsRaw(m), WellTold(es)
    PROVE  SameChanges(before, AdaptStream(before, m).ad)
<1> DEFINE ad == WithStream(before, m)
           r == AdaptStream(before, m)
           key == ReplyKey(ad, m)
           new == [stream |-> m.uuid, message |-> IF m.raw = "message_start" THEN m.message ELSE m.uuid]
<1>1. /\ \A x, y : SameChanges(x, y) => IsAdapter(y)
      /\ \A x, y, z : SameChanges(x, y) /\ SameChanges(y, z) => SameChanges(x, z)
      /\ \A x : IsAdapter(x) => SameChanges(x, x)
  BY DEF SameChanges
<1>2. ASSUME NEW x, IsAdapter(x)
      PROVE  /\ \A stream : SameChanges(x, Without(x, stream))
             /\ \A y : SameChanges(x, [x EXCEPT !.streams = y])
             /\ \A y : SameChanges(x, [x EXCEPT !.replies = y])
             /\ \A y, z : SameChanges(x, [x EXCEPT !.blocks = y, !.replies = z])
  BY <1>2 DEF SameChanges, IsAdapter, Without
<1>3. SameChanges(before, ad)
  <2>1. \E old : /\ SameChanges(before, old)
                 /\ ad \in {before, [old EXCEPT !.streams = Put(old.streams, m.parent, new)]}
    <3>1. \/ ad = before
          \/ ad = [before EXCEPT !.streams = Put(before.streams, m.parent, new)]
          \/ \E stream : ad = [Without(before, stream) EXCEPT
                                  !.streams = Put(Without(before, stream).streams, m.parent, new)]
      BY DEF WithStream
    <3>2. SameChanges(before, before) /\ \A stream : SameChanges(before, Without(before, stream))
      BY <1>1, <1>2
    <3> HIDE DEF ad, new
    <3> QED BY <3>1, <3>2, Zenon
  <2> HIDE DEF ad, new
  <2>2. PICK old : /\ SameChanges(before, old)
                   /\ ad \in {before, [old EXCEPT !.streams = Put(old.streams, m.parent, new)]}
    BY <2>1
  <2>3. SameChanges(before, before)
    BY <1>1
  <2>4. IsAdapter(old) /\ SameChanges(before, old)
    BY <1>1, <2>2
  <2>5. SameChanges(old, [old EXCEPT !.streams = Put(old.streams, m.parent, new)])
    <3> DEFINE y == Put(old.streams, m.parent, new)
    <3> HIDE DEF y
    <3>1. SameChanges(old, [old EXCEPT !.streams = y])
      BY <1>2, <2>4
    <3> QED BY <3>1 DEF y
  <2>6. SameChanges(before, [old EXCEPT !.streams = Put(old.streams, m.parent, new)])
    BY <1>1, <2>4, <2>5
  <2> QED BY <2>2, <2>3, <2>6
<1>4. IsAdapter(ad)
  BY <1>1, <1>3, Zenon
<1>5. FrameTold(ad, m, r, es)
  BY <1>4, FrameTells, Zenon
<1> HIDE DEF ad, r
<1>6. \/ r.ad \in {ad, Opened(ad, m), Ended(ad, m), FinishStream(ad, m)}
      \/ \E x : r.ad = [ad EXCEPT !.replies = Put(@, key, x)]
  BY <1>5 DEF FrameTold, Shows, HoldsBack
<1>7. SameChanges(ad, ad) /\ SameChanges(ad, Opened(ad, m)) /\ SameChanges(ad, Ended(ad, m))
  BY <1>4 DEF Opened, Ended, SameChanges, IsAdapter
<1>8. SameChanges(ad, FinishStream(ad, m))
  <2> DEFINE mid == [ad EXCEPT !.streams = Restrict(@, DOMAIN @ \ {m.parent})]
  <2>1. SameChanges(ad, mid)
    BY <1>2, <1>4, Zenon
  <2> HIDE DEF mid
  <2>2. \A stream : SameChanges(mid, Without(mid, stream))
    BY <1>1, <1>2, <2>1, Zenon
  <2>3. \E stream : FinishStream(ad, m) = Without(mid, stream)
    BY Zenon DEF FinishStream, mid
  <2> QED BY <1>1, <2>1, <2>2, <2>3, Zenon
<1>9. \A x : SameChanges(ad, [ad EXCEPT !.replies = Put(@, key, x)])
  BY <1>2, <1>4, Zenon
<1>10. SameChanges(ad, r.ad)
  BY <1>6, <1>7, <1>8, <1>9
<1> QED BY <1>1, <1>3, <1>10, Zenon DEF r

\* What a message shows after what was gathered from it.
LEMMA GatheredIsShown ==
    ASSUME NEW done, IsAdapter(done.ad), OfNoFile(done.events), NEW es, IsSeq(es),
           LastShown(es) = Snapshot(done.ad.changes)
    PROVE  LET r == WithChanges(done) IN
           /\ r.ad.changes = Gathered(done) /\ r.ad.tools = done.ad.tools
           /\ LastShown(es \o r.events) = Snapshot(Gathered(done))
<1> DEFINE r == WithChanges(done)
           news == [event |-> "files.changed", parent |-> Main, data |-> [files |-> Snapshot(Gathered(done))]]
<1>1. CASE Gathered(done) = done.ad.changes
  <2>1. r = done
    BY <1>1 DEF WithChanges
  <2>2. LastShown(es \o done.events) = LastShown(es)
    BY ShownBefore DEF OfNoFile
  <2> QED BY <1>1, <2>1, <2>2
<1>2. CASE Gathered(done) # done.ad.changes
  <2>1. r = [ad |-> [done.ad EXCEPT !.changes = Gathered(done)], events |-> Append(done.events, news)]
    BY <1>2 DEF WithChanges
  <2>2. news.event = "files.changed" /\ news.data.files = Snapshot(Gathered(done))
    OBVIOUS
  <2> HIDE DEF news
  <2>3. r.ad.changes = Gathered(done) /\ r.ad.tools = done.ad.tools
    BY <2>1 DEF IsAdapter
  <2>4. es \o Append(done.events, news) = Append(es \o done.events, news)
    <3> DEFINE X == Range(es) \cup Range(done.events) \cup {news}
    <3>1. es \in Seq(Range(es)) /\ done.events \in Seq(Range(done.events))
      BY DEF OfNoFile, IsSeq
    <3>2. Range(es) \subseteq X /\ Range(done.events) \subseteq X /\ news \in X
      OBVIOUS
    <3> HIDE DEF X
    <3>3. es \in Seq(X) /\ done.events \in Seq(X)
      BY <3>1, <3>2
    <3> QED BY <3>2, <3>3
  <2>5. IsSeq(es \o done.events)
    BY Joined DEF OfNoFile
  <2>6. LastShown(Append(es \o done.events, news)) = Snapshot(Gathered(done))
    BY <2>2, <2>5, ShownNow
  <2> HIDE DEF r
  <2>7. r.events = Append(done.events, news)
    BY <2>1
  <2> QED BY <2>3, <2>4, <2>6, <2>7 DEF r
<1> QED BY <1>1, <1>2

\* An envelope changes no file, and adds the tools that it calls.
LEMMA EnvelopeCalls ==
    ASSUME NEW ad, NEW m, IsAdapter(ad), m.type = "assistant", IsSeq(m.content),
           \A i \in DOMAIN m.content : m.content[i].kind \in {"text", "thinking", "tool"},
           NEW es, IsSeq(es), LastShown(es) = Snapshot(ad.changes)
    PROVE  LET r == Adapt(ad, m) IN
           /\ r.ad.changes = ad.changes /\ r.ad.tools = Over(Calls(m), ad.tools)
           /\ LastShown(es \o r.events) = LastShown(es)
<1> DEFINE known == Get(ad.envelopes, <<m.parent, m.message>>, [next |-> 0, offsets |-> <<>>, texts |-> <<>>])
           offset == Offset(known, m)
           done == AdaptAssistant(ad, m)
           place(i) == offset + i - 1
           pieces == [i \in DOMAIN m.content |-> BlockEvents(m, place(i), m.content[i])]
           last  == Event("assistant.message.completed", m,
                          [message |-> m.message, usage |-> m.usage, stop |-> m.stop])
           Other(e) == e.event \notin {"files.changed", "tool.completed", "subagent.tool.completed"}
           Others(fs) == IsSeq(fs) /\ \A e \in Range(fs) : Other(e)
<1>1. Adapt(ad, m) = WithChanges(done)
  BY DEF Adapt
<1>2. /\ \E x, y : done.ad = [ad EXCEPT !.envelopes = x, !.tools = Over(Calls(m), @), !.mainText = y]
      /\ done.events = FlattenSeq(pieces) \o <<last>>
  BY DEF AdaptAssistant
<1> HIDE DEF done, known, offset
<1>3. IsAdapter(done.ad) /\ done.ad.changes = ad.changes /\ done.ad.tools = Over(Calls(m), ad.tools)
  BY <1>2 DEF IsAdapter
<1>4. ASSUME NEW i \in DOMAIN m.content PROVE Others(pieces[i])
  <2> DEFINE b == m.content[i]
             es2 == BlockEvents(m, place(i), b)
             names == {"assistant.reply.completed", "subagent.reply.completed",
                       "assistant.thinking.completed", "subagent.thinking.completed",
                       "subagent.started", "ask_user.requested", "plan.approval.requested",
                       "tool.requested", "subagent.tool.requested"}
  <2>1. pieces[i] = es2 /\ b.kind \in {"text", "thinking", "tool"}
    OBVIOUS
  <2>2. ASSUME NEW name \in names, NEW data PROVE Others(<<Event(name, m, data)>>)
    <3> DEFINE e == Event(name, m, data)
    <3>1. Other(e)
      BY DEF Event
    <3> HIDE DEF e, Other
    <3>2. Others(<<e>>)
      BY <3>1, OneElement
    <3> QED BY <3>2 DEF e
  <2>3. es2 = <<>> \/ \E name \in names : \E data : es2 = <<Event(name, m, data)>>
    <3>1. ToolRequested(b.name, m.parent) \in names
      BY DEF ToolRequested, Named
    <3>2. Named(m.parent, "assistant.reply.completed", "subagent.reply.completed") \in names
      BY DEF Named
    <3>3. Named(m.parent, "assistant.thinking.completed", "subagent.thinking.completed") \in names
      BY DEF Named
    <3>4. \/ es2 = <<>>
          \/ \E name \in {ToolRequested(b.name, m.parent),
                          Named(m.parent, "assistant.reply.completed", "subagent.reply.completed"),
                          Named(m.parent, "assistant.thinking.completed", "subagent.thinking.completed")} :
                \E data : es2 = <<Event(name, m, data)>>
      BY <2>1 DEF BlockEvents
    <3> HIDE DEF es2, names
    <3> QED BY <3>1, <3>2, <3>3, <3>4
  <2>4. Others(<<>>)
    BY NoElements
  <2> HIDE DEF es2, Others, names, b, pieces
  <2> QED BY <2>1, <2>2, <2>3, <2>4
<1>5. IsSeq(pieces) /\ DOMAIN pieces = DOMAIN m.content
  <2> DEFINE X == {BlockEvents(m, place(i), m.content[i]) : i \in DOMAIN m.content}
  <2>1. Len(m.content) \in Nat /\ DOMAIN m.content = 1..Len(m.content)
    BY Elements
  <2>2. pieces \in [1..Len(m.content) -> X]
    BY <2>1
  <2> HIDE DEF X, pieces
  <2>3. pieces \in Seq(X)
    BY <2>1, <2>2, SeqDef
  <2> QED BY <2>1, <2>2, <2>3, SequenceOf
<1>6. Other(last)
  BY DEF Event
<1> HIDE DEF last, pieces, Other
<1>7. Others(FlattenSeq(pieces))
  BY <1>4, <1>5, Flattened
<1>8. Others(done.events)
  <2>1. IsSeq(<<last>>) /\ Range(<<last>>) = {last}
    BY OneElement
  <2> QED BY <1>2, <1>6, <1>7, <2>1, Joined
<1>9. OfNoFile(done.events) /\ Gathered(done) = ad.changes
  <2>1. \A e : Other(e) => e.event # "files.changed" /\ ~ Succeeded(done.ad.tools, e)
    BY DEF Other, Succeeded
  <2> QED BY <1>3, <1>8, <2>1, NothingGathered DEF OfNoFile
<1> QED BY <1>1, <1>3, <1>9, GatheredIsShown

\* The tools of an envelope have the names that their blocks give them.
LEMMA CallsNamed ==
    ASSUME NEW s \in Scripts, NEW m, ToolBlocks(m.content) \subseteq CallsOf(s)
    PROVE  /\ DOMAIN Calls(m) = {b.tool : b \in ToolBlocks(m.content)}
           /\ \A b \in CallsOf(s) : b.tool \in DOMAIN Calls(m) => Calls(m)[b.tool].name = b.name
<1> DEFINE calls == {i \in DOMAIN m.content : m.content[i].kind = "tool"}
           pick(t) == CHOOSE i \in calls : m.content[i].tool = t
           T == {m.content[i].tool : i \in calls}
<1>1. Calls(m) = [t \in T |-> [name |-> m.content[pick(t)].name, parent |-> m.parent]]
  BY DEF Calls
<1>2. ToolBlocks(m.content) = {m.content[i] : i \in calls}
  BY DEF ToolBlocks
<1>3. ASSUME NEW t \in T PROVE pick(t) \in calls /\ m.content[pick(t)].tool = t
  <2>1. \E i \in calls : m.content[i].tool = t
    OBVIOUS
  <2> HIDE DEF calls
  <2> QED BY <2>1, Zenon
<1> HIDE DEF calls, pick
<1>4. T = {b.tool : b \in ToolBlocks(m.content)}
  BY <1>2
<1>5. ASSUME NEW b \in CallsOf(s), b.tool \in T PROVE Calls(m)[b.tool].name = b.name
  <2> DEFINE c == m.content[pick(b.tool)]
  <2>1. c \in CallsOf(s) /\ c.tool = b.tool
    BY <1>2, <1>3, <1>5
  <2>2. c.name = b.name
    BY <2>1, CallsAssumption
  <2> HIDE DEF T
  <2> QED BY <1>1, <1>5, <2>2
<1> QED BY <1>1, <1>4, <1>5

AnswerOf(a, b, edit) ==
    [type |-> "user", parent |-> a, uuid |-> <<"result", b.tool>>, said |-> "none",
     note |-> NoNote, origin |-> "none",
     content |-> <<[kind |-> "result", tool |-> b.tool, error |-> FALSE, edit |-> edit]>>]

\* The edit as an answer tells it.
ToldEdit(a, b, edit) == Over([tool |-> b.tool, restorable |-> a = Main], edit)

\* An answer gives the edit of its tool to the changes, if that is a file tool.
LEMMA AnswerEdits ==
    ASSUME NEW ad, IsAdapter(ad), NEW a, NEW b, NEW edit, b.tool \in DOMAIN ad.tools,
           ad.tools[b.tool].name = b.name,
           NEW es, IsSeq(es), LastShown(es) = Snapshot(ad.changes)
    PROVE  LET r == Adapt(ad, AnswerOf(a, b, edit)) IN
           /\ r.ad.tools = ad.tools
           /\ \E parent : r.ad.changes = ApplyEdit(ad.changes, b.name, ToldEdit(parent, b, edit))
           /\ LastShown(es \o r.events) = Snapshot(r.ad.changes)
<1> DEFINE m == AnswerOf(a, b, edit)
           c == [kind |-> "result", tool |-> b.tool, error |-> FALSE, edit |-> edit]
           e == ToolResult(ad, m, c)
           done == [ad |-> ad, events |-> <<e>>]
           new(parent) == ApplyEdit(ad.changes, b.name, ToldEdit(parent, b, edit))
<1>1. m.type = "user" /\ m.content = <<c>> /\ m.parent = a
  BY DEF AnswerOf
<1> HIDE DEF m
<1>2. Adapt(ad, m) = WithChanges(AdaptUser(ad, m))
  BY <1>1 DEF Adapt
<1>3. AdaptUser(ad, m) = done
  <2> DEFINE One(x) == IF x.kind = "result" THEN ToolResult(ad, m, x)
                       ELSE Event(UserText(m), m, [text |-> x.text, note |-> m.note])
  <2>1. AdaptUser(ad, m) = [ad |-> ad, events |-> [i \in DOMAIN m.content |-> One(m.content[i])]]
    BY DEF AdaptUser
  <2>2. One(c) = e
    OBVIOUS
  <2> HIDE DEF One, e, c
  <2>3. [i \in DOMAIN m.content |-> One(m.content[i])] = <<e>>
    BY <1>1, <2>2
  <2> QED BY <2>1, <2>3
<1>4. /\ e.event \notin {"files.changed"}
      /\ b.name \in FileTools => e.event \in {"tool.completed", "subagent.tool.completed"}
      /\ e.data.tool = b.tool /\ e.data.error = FALSE /\ e.data.edit = edit
  <2> DEFINE call == Get(ad.tools, b.tool, [name |-> "none", parent |-> Main])
             parent == IF m.parent = Main THEN call.parent ELSE m.parent
  <2>1. call.name = b.name
    BY DEF Get
  <2>2. e.event = ToolCompleted(call.name, parent)
    BY DEF ToolResult
  <2>3. e.data.tool = b.tool /\ e.data.error = FALSE /\ e.data.edit = edit
    BY DEF ToolResult
  <2> HIDE DEF call, parent, e
  <2>4. \A name, p : /\ ToolCompleted(name, p) # "files.changed"
                     /\ name \in FileTools => ToolCompleted(name, p) \in {"tool.completed", "subagent.tool.completed"}
    BY DEF ToolCompleted, Named, FileTools
  <2> QED BY <2>1, <2>2, <2>3, <2>4
<1> HIDE DEF e
<1>5. WithEdit(ad.changes, ad.tools, e) = new(e.parent)
  <2>1. CASE Succeeded(ad.tools, e)
    BY <1>4, <2>1 DEF WithEdit, ToldEdit
  <2>2. CASE ~ Succeeded(ad.tools, e)
    <3>1. b.name \notin FileTools
      BY <1>4, <2>2 DEF Succeeded
    <3> QED BY <2>2, <3>1 DEF WithEdit, ApplyEdit
  <2> QED BY <2>1, <2>2
<1>6. done.ad = ad /\ done.events = <<e>>
  OBVIOUS
<1>7. OfNoFile(<<e>>)
  BY <1>4, NoFiles
<1> HIDE DEF done, new
<1>8. Gathered(done) = new(e.parent)
  BY <1>5, <1>6, OneGathered
<1>9. LET r == WithChanges(done) IN
      /\ r.ad.changes = Gathered(done) /\ r.ad.tools = done.ad.tools
      /\ LastShown(es \o r.events) = Snapshot(Gathered(done))
  BY <1>6, <1>7, GatheredIsShown
<1> QED BY <1>2, <1>3, <1>6, <1>8, <1>9 DEF m, new

-----------------------------------------------------------------------------
(* What the changes say of what the tools did *)

IsEdited(d) == DOMAIN d = {"first", "last", "joined"} /\ d.joined \in BOOLEAN

\* What is known of a file agrees with what its tools did in the turn.
TellsEdits(s, d) ==
    IF d = NotEdited THEN s = Untouched
    ELSE /\ DOMAIN s = {"touched", "before", "after", "created", "complete", "restorable"}
         /\ s.touched = TRUE /\ s.created = FALSE /\ s.complete \in BOOLEAN
         /\ s.after = d.last /\ d.last # Unknown
         /\ s.complete => d.joined /\ s.before = d.first

EditsHeld(c, over, ed) ==
    /\ DOMAIN c = {"files", "seen"} /\ c.seen \subseteq over /\ DOMAIN c.files = Files
    /\ DOMAIN ed = Files
    /\ \A f \in Files : IsEdited(ed[f]) /\ TellsEdits(c.files[f], ed[f])

\* What one more tool does to a file.
EditedBy(d, before, after) ==
    [first  |-> IF d = NotEdited THEN before ELSE d.first,
     last   |-> after,
     joined |-> d.joined /\ (d = NotEdited \/ d.last = before)]

LEMMA TouchedIs ==
    ASSUME NEW s, NEW d, TellsEdits(s, d)
    PROVE  s = Untouched <=> d = NotEdited
<1>1. CASE d # NotEdited
  <2>1. s.touched = TRUE
    BY <1>1 DEF TellsEdits
  <2>2. Untouched.touched = FALSE
    BY DEF Untouched
  <2> QED BY <1>1, <2>1, <2>2
<1> QED BY <1>1 DEF TellsEdits

\* One more edit of a file: known from its beginning, or from where the last one ended.
LEMMA EditTells ==
    ASSUME NEW s, NEW d, TellsEdits(s, d), IsEdited(d),
           NEW e, NEW before, NEW after, after # Unknown,
           e.before = before \/ e.before = Unknown, e.after = after, e.created = FALSE
    PROVE  LET d2 == EditedBy(d, before, after)
               s2 == IF s = Untouched THEN FirstEdit(e) ELSE LaterEdit(s, e)
           IN  IsEdited(d2) /\ TellsEdits(s2, d2)
<1> DEFINE d2 == EditedBy(d, before, after)
           s2 == IF s = Untouched THEN FirstEdit(e) ELSE LaterEdit(s, e)
<1>1. /\ DOMAIN d2 = {"first", "last", "joined"} /\ d2.last = after
      /\ d2.first = IF d = NotEdited THEN before ELSE d.first
      /\ d2.joined = (d.joined /\ (d = NotEdited \/ d.last = before))
  BY DEF EditedBy
<1> HIDE DEF d2
<1>2. d2 # NotEdited /\ IsEdited(d2)
  <2>1. NotEdited.last = Unknown
    BY DEF NotEdited
  <2>2. d2.joined \in BOOLEAN
    BY <1>1 DEF IsEdited
  <2> QED BY <1>1, <2>1, <2>2 DEF IsEdited
<1>3. CASE d = NotEdited
  <2>1. s2 = FirstEdit(e)
    BY <1>3, TouchedIs
  <2>2. /\ DOMAIN s2 = {"touched", "before", "after", "created", "complete", "restorable"}
        /\ s2.touched = TRUE /\ s2.created = FALSE /\ s2.after = after /\ s2.before = e.before
        /\ s2.complete = (e.before # Unknown /\ after # Unknown)
    BY <2>1 DEF FirstEdit
  <2> HIDE DEF s2
  <2>3. d2.joined /\ d2.first = before
    <3>1. d.joined
      BY <1>3 DEF NotEdited
    <3> QED BY <1>1, <1>3, <3>1
  <2>4. s2.complete \in BOOLEAN /\ (s2.complete => e.before = before)
    BY <2>2
  <2>5. TellsEdits(s2, d2)
    BY <1>1, <1>2, <2>2, <2>3, <2>4 DEF TellsEdits
  <2> QED BY <1>2, <2>5 DEF d2, s2
<1>4. CASE d # NotEdited
  <2>1. s2 = LaterEdit(s, e)
    BY <1>4, TouchedIs
  <2>2. /\ DOMAIN s = {"touched", "before", "after", "created", "complete", "restorable"}
        /\ s.touched = TRUE /\ s.created = FALSE /\ s.complete \in BOOLEAN
        /\ s.after = d.last /\ d.last # Unknown
        /\ s.complete => d.joined /\ s.before = d.first
    BY <1>4 DEF TellsEdits
  <2>3. /\ DOMAIN s2 = {"touched", "before", "after", "created", "complete", "restorable"}
        /\ s2.touched = TRUE /\ s2.created = FALSE /\ s2.after = after /\ s2.before = s.before
        /\ s2.complete = (s.complete /\ e.before = s.after /\ after # Unknown)
    BY <2>1, <2>2 DEF LaterEdit
  <2> HIDE DEF s2
  <2>4. s2.complete \in BOOLEAN
    BY <2>2, <2>3
  <2>5. ASSUME s2.complete PROVE d2.joined /\ s2.before = d2.first
    <3>1. s.complete /\ e.before = s.after
      BY <2>3, <2>5
    <3>2. d.joined /\ s.before = d.first /\ d.last = before
      BY <2>2, <3>1
    <3> QED BY <1>1, <1>4, <2>3, <3>2
  <2>6. TellsEdits(s2, d2)
    BY <1>1, <1>2, <2>3, <2>4, <2>5 DEF TellsEdits
  <2> QED BY <1>2, <2>6 DEF d2, s2
<1> QED BY <1>3, <1>4

\* A file tool that has not answered yet counts once, for its file.
LEMMA EditCounts ==
    ASSUME NEW c, NEW over, NEW ed, EditsHeld(c, over, ed),
           NEW b, b.name \in FileTools, b.file \in Files, b.content # Unknown, b.tool \notin over,
           NEW before, NEW shown, shown \in {before, Unknown}, NEW parent
    PROVE  LET edit == [file |-> b.file, before |-> shown, after |-> b.content, created |-> FALSE]
           IN  EditsHeld(ApplyEdit(c, b.name, ToldEdit(parent, b, edit)), over \cup {b.tool},
                         [ed EXCEPT ![b.file] = EditedBy(@, before, b.content)])
<1> DEFINE edit == [file |-> b.file, before |-> shown, after |-> b.content, created |-> FALSE]
           e == ToldEdit(parent, b, edit)
           f == b.file
           one == [tool |-> b.tool, restorable |-> parent = Main]
           new == ApplyEdit(c, b.name, e)
           ed2 == [ed EXCEPT ![f] = EditedBy(@, before, b.content)]
<1>1. /\ e.tool = b.tool /\ e.file = f /\ e.before = shown /\ e.after = b.content /\ e.created = FALSE
  <2>1. /\ DOMAIN one = {"tool", "restorable"} /\ DOMAIN edit = {"file", "before", "after", "created"}
        /\ one.tool = b.tool /\ edit.file = f /\ edit.before = shown /\ edit.after = b.content
        /\ edit.created = FALSE
    OBVIOUS
  <2>2. e = Over(one, edit)
    BY DEF ToldEdit
  <2> HIDE DEF one, edit, e
  <2> QED BY <2>1, <2>2 DEF Over
<1>2. /\ DOMAIN c = {"files", "seen"} /\ c.seen \subseteq over /\ DOMAIN c.files = Files
      /\ DOMAIN ed = Files
      /\ \A g \in Files : IsEdited(ed[g]) /\ TellsEdits(c.files[g], ed[g])
  BY DEF EditsHeld
<1> HIDE DEF e, one, edit
<1>3. new = [seen |-> c.seen \cup {b.tool},
             files |-> [c.files EXCEPT ![f] = IF @ = Untouched THEN FirstEdit(e) ELSE LaterEdit(@, e)]]
  <2>1. ~ (b.name \notin FileTools \/ e.tool \in c.seen)
    BY <1>1, <1>2
  <2> QED BY <1>1, <2>1 DEF ApplyEdit
<1> DEFINE s2 == IF c.files[f] = Untouched THEN FirstEdit(e) ELSE LaterEdit(c.files[f], e)
           d2 == EditedBy(ed[f], before, b.content)
<1>4. /\ DOMAIN new = {"files", "seen"} /\ new.seen = c.seen \cup {b.tool}
      /\ DOMAIN new.files = Files /\ new.files[f] = s2
      /\ \A g \in Files \ {f} : new.files[g] = c.files[g]
  <2> HIDE DEF new
  <2> QED BY <1>2, <1>3
<1>5. /\ DOMAIN ed2 = Files /\ ed2[f] = d2 /\ \A g \in Files \ {f} : ed2[g] = ed[g]
  <2> HIDE DEF d2
  <2> QED BY <1>2 DEF d2
<1>6. IsEdited(d2) /\ TellsEdits(s2, d2)
  BY <1>1, <1>2, EditTells
<1> HIDE DEF new, ed2, s2, d2
<1>7. EditsHeld(new, over \cup {b.tool}, ed2)
  BY <1>2, <1>4, <1>5, <1>6 DEF EditsHeld
<1> QED BY <1>7 DEF new, ed2, e, edit

\* What is shown of changes that hold is true.
LEMMA HeldIsTrue ==
    ASSUME NEW c, NEW over, EditsHeld(c, over, edited)
    PROVE  True(Snapshot(c))
<1> SUFFICES ASSUME NEW f \in Files
             PROVE  LET s == {p \in Snapshot(c) : p[1] = f} IN
                    /\ \A p \in s : p[2].complete =>
                          /\ edited[f].joined
                          /\ p[2].before = edited[f].first /\ p[2].after = edited[f].last
                    /\ s = {} => edited[f].first = edited[f].last
  BY DEF True
<1> DEFINE d == edited[f]
           x == c.files[f]
           p == <<f, x>>
           Hidden(y) == y = Untouched \/ (y.complete /\ ~ y.created /\ y.before = y.after)
<1>1. TellsEdits(x, d) /\ (x = Untouched <=> d = NotEdited)
  BY TouchedIs DEF EditsHeld
<1>2. Snapshot(c) = {<<g, c.files[g]>> : g \in {g \in Files : ~ Hidden(c.files[g])}}
  BY DEF Snapshot
<1> HIDE DEF Hidden
<1>3. \A q \in Snapshot(c) : q[1] = f => q = p /\ ~ Hidden(x)
  BY <1>2
<1>4. ~ Hidden(x) => p \in Snapshot(c) /\ p[1] = f
  BY <1>2
<1>5. p[2] = x
  OBVIOUS
<1> HIDE DEF p, x, d
<1>6. ASSUME ~ Hidden(x), x.complete PROVE d.joined /\ x.before = d.first /\ x.after = d.last
  <2>1. d # NotEdited
    BY <1>1, <1>6 DEF Hidden
  <2> QED BY <1>1, <1>6, <2>1 DEF TellsEdits
<1>7. ASSUME Hidden(x) PROVE d.first = d.last
  <2>1. CASE d = NotEdited
    BY <2>1 DEF NotEdited
  <2>2. CASE d # NotEdited
    <3>1. x.complete /\ x.before = x.after
      BY <1>1, <1>7, <2>2 DEF Hidden
    <3> QED BY <1>1, <2>2, <3>1 DEF TellsEdits
  <2> QED BY <2>1, <2>2
<1> QED BY <1>3, <1>4, <1>5, <1>6, <1>7 DEF d

-----------------------------------------------------------------------------
(* What every action does to the changes *)

\* Every tool has the name of its block.
ToolsNamed(tools, s) ==
    \A b \in CallsOf(s) : b.tool \in DOMAIN tools => tools[b.tool].name = b.name

\* What is written down last calls tools that the script names, if it is an envelope.
LastCalls(all, s) ==
    all # <<>> /\ all[Len(all)].type = "assistant" => ToolBlocks(all[Len(all)].content) \subseteq CallsOf(s)

\* The inductive invariant.
ChangesHeld ==
    /\ asked \subseteq DOMAIN adapter.tools /\ ToolsNamed(adapter.tools, script)
    /\ LastCalls(main, script) /\ LastCalls(subs, script)
    /\ EditsHeld(adapter.changes, answered, edited)
    /\ LastShown(events) = Snapshot(adapter.changes)

\* What the changes rest on, of the invariants before.
LEMMA KeptIs ==
    ASSUME RepliesKept
    PROVE  /\ Places /\ IsAdapter(adapter) /\ IsSeq(events) /\ WellTold(events)
           /\ LastSaid(main) /\ LastSaid(subs)
  BY DEF RepliesKept, NamesKept, RepliesTell, TellsWell, RepliesHeld, WellTold

\* The script names what its agents call.
LEMMA SaidIsCalled ==
    ASSUME Places, NEW a \in Agents, NEW n \in DOMAIN Said(a)
    PROVE  ToolBlocks(Said(a)[n]) \subseteq CallsOf(script)
<1> DEFINE calls(j, x) == UNION {ToolBlocks(script.turns[j][x][i]) : i \in DOMAIN script.turns[j][x]}
<1>1. turn \in DOMAIN script.turns /\ Said(a) = script.turns[turn][a]
  BY DEF Places, Said, Script
<1>2. ToolBlocks(Said(a)[n]) \subseteq calls(turn, a)
  BY <1>1
<1>3. CallsOf(script) = UNION {calls(j, x) : j \in DOMAIN script.turns, x \in Agents}
  BY DEF CallsOf
<1> HIDE DEF calls
<1> QED BY <1>1, <1>2, <1>3

\* Whoever answers calls a tool of the script.
LEMMA ToolsAreCalled ==
    ASSUME Places, NEW a \in Agents, NEW b \in ToolsOf(a)
    PROVE  b \in CallsOf(script)
<1>1. PICK k \in 1..at[a].n : b \in ToolBlocks(Said(a)[k])
  BY DEF ToolsOf
<1>2. k \in DOMAIN Said(a)
  <2>1. at[a].n \in Nat /\ at[a].n <= Len(Said(a))
    BY DEF Places, PlaceOK, Place
  <2>2. IsSeq(Said(a))
    BY ScriptsAssumption DEF Places, Said, Script, IsSaid
  <2> QED BY <2>1, <2>2, Elements
<1> QED BY <1>1, <1>2, SaidIsCalled

\* What is written down last, if nothing or no envelope is written down.
LEMMA LastCallsStay ==
    ASSUME Places, LastCalls(main, script), LastCalls(subs, script), NEW a, NEW m, WriteDown(a, m),
           m.type = "assistant" => ToolBlocks(m.content) \subseteq CallsOf(script)
    PROVE  LastCalls(main', script) /\ LastCalls(subs', script)
<1>1. ASSUME NEW s, IsSeq(s) PROVE LastCalls(Append(s, m), script)
  <2>1. Append(s, m)[Len(Append(s, m))] = m
    BY <1>1, OneMore
  <2> QED BY <2>1 DEF LastCalls
<1>2. IsSeq(main) /\ IsSeq(subs)
  BY DEF Places
<1> QED BY <1>1, <1>2 DEF WriteDown

\* Nothing but tools is new.
LEMMA ChangesStay ==
    ASSUME ChangesHeld, script' = script, answered \subseteq answered', edited' = edited,
           asked' \subseteq DOMAIN adapter'.tools, ToolsNamed(adapter'.tools, script),
           LastCalls(main', script), LastCalls(subs', script),
           adapter'.changes = adapter.changes, LastShown(events') = LastShown(events)
    PROVE  ChangesHeld'
  BY DEF ChangesHeld, EditsHeld

\* What every step of a stream delivers, or loses.
LEMMA StreamFrames ==
    ASSUME Places, NEW a \in Agents,
           Begin(a) \/ OpenBlock(a) \/ Piece(a) \/ CloseBlock(a) \/ CloseMessage(a)
    PROVE  Calm /\ ((\E m : m.type = "stream" /\ IsRaw(m) /\ Deliver(m)) \/ UNCHANGED live)
<1> DEFINE p == at[a]
           Brings(raw, index, kind, text) ==
               /\ Frame(a, raw, index, kind, text)
               /\ raw \in {"message_start", "content_block_start", "content_block_delta",
                           "content_block_stop", "message_stop"}
               /\ raw \in {"content_block_start", "content_block_delta"} => kind \in {"text", "thinking", "tool"}
<1>1. /\ p \in Place /\ p.n <= Len(Said(a)) /\ (p.n = 0 => p.closed)
      /\ p.open > 0 => ~ p.closed
      /\ p.n > 0 => p.open <= Len(Said(a)[p.n])
      /\ Blocks(a) = Said(a)[p.n]
  BY DEF Places, PlaceOK, Blocks
<1>2. ~ p.closed => /\ Len(Said(a)[p.n]) \in Nat
                    /\ \A i \in 1..Len(Said(a)[p.n]) : Said(a)[p.n][i].kind \in {"text", "thinking", "tool"}
  <2> SUFFICES ASSUME ~ p.closed
               PROVE  /\ Len(Said(a)[p.n]) \in Nat
                      /\ \A i \in 1..Len(Said(a)[p.n]) : Said(a)[p.n][i].kind \in {"text", "thinking", "tool"}
    OBVIOUS
  <2>1. Len(Said(a)) \in Nat
    BY SaidWell
  <2>2. p.n \in 1..Len(Said(a))
    <3> HIDE DEF p
    <3> QED BY <1>1, <2>1 DEF Place
  <2> QED BY <2>2, SaidWell, Zenon
<1>3. ASSUME NEW raw, NEW index, NEW kind, NEW text, Brings(raw, index, kind, text)
      PROVE  (\E m : m.type = "stream" /\ IsRaw(m) /\ Deliver(m)) \/ UNCHANGED live
  <2> DEFINE m == FrameOf(a, raw, index, kind, text, at'[a].n)
  <2>1. m.type = "stream" /\ IsRaw(m)
    BY <1>3 DEF FrameOf, IsRaw
  <2>2. Deliver(m) \/ UNCHANGED live
    BY <1>3 DEF Frame, FrameOf
  <2> HIDE DEF m
  <2> QED BY <2>1, <2>2
<1>4. CASE Begin(a)
  <2>1. Brings("message_start", 0, "none", <<>>) /\ Calm
    BY <1>4 DEF Begin
  <2> QED BY <1>3, <2>1
<1>5. CASE OpenBlock(a)
  <2> DEFINE kind == Said(a)[p.n][p.done + 1].kind
  <2>1. /\ Frame(a, "content_block_start", p.done, kind, <<>>) /\ Calm
        /\ ~ p.closed /\ p.done < Len(Said(a)[p.n])
    BY <1>1, <1>5 DEF OpenBlock
  <2>2. p.done + 1 \in 1..Len(Said(a)[p.n])
    <3> HIDE DEF p
    <3> QED BY <1>1, <1>2, <2>1 DEF Place
  <2>3. Brings("content_block_start", p.done, kind, <<>>)
    BY <1>2, <2>1, <2>2
  <2> QED BY <1>3, <2>1, <2>3
<1>6. CASE Piece(a)
  <2> DEFINE b == Said(a)[p.n][p.open]
  <2>1. /\ Frame(a, "content_block_delta", p.done, b.kind, <<b.text[p.piece + 1]>>) /\ Calm
        /\ p.open > 0
    BY <1>1, <1>6 DEF Piece
  <2>2. ~ p.closed /\ p.open \in 1..Len(Said(a)[p.n])
    <3> HIDE DEF p
    <3> QED BY <1>1, <1>2, <2>1 DEF Place
  <2>3. Brings("content_block_delta", p.done, b.kind, <<b.text[p.piece + 1]>>)
    BY <1>2, <2>1, <2>2
  <2> QED BY <1>3, <2>1, <2>3
<1>7. CASE CloseBlock(a)
  <2>1. Brings("content_block_stop", p.done, "none", <<>>) /\ Calm
    BY <1>7 DEF CloseBlock
  <2> QED BY <1>3, <2>1
<1>8. CASE CloseMessage(a)
  <2>1. Brings("message_stop", 0, "none", <<>>) /\ Calm
    BY <1>8 DEF CloseMessage
  <2> QED BY <1>3, <2>1
<1> QED BY <1>4, <1>5, <1>6, <1>7, <1>8

\* What is delivered and changes no file.
LEMMA HarmlessKeepsChanges ==
    ASSUME RepliesKept, ChangesHeld, script' = script, asked' = asked, answered' = answered, edited' = edited,
           LastCalls(main', script), LastCalls(subs', script),
           \/ UNCHANGED live
           \/ \E m : m.type = "stream" /\ IsRaw(m) /\ Deliver(m)
           \/ \E m : m.type = "task" /\ m.event # "files.changed" /\ Deliver(m)
    PROVE  ChangesHeld'
<1>1. IsAdapter(adapter) /\ IsSeq(events) /\ WellTold(events)
  BY KeptIs
<1>2. /\ adapter'.changes = adapter.changes /\ adapter'.tools = adapter.tools
      /\ LastShown(events') = LastShown(events)
  <2>1. CASE UNCHANGED live
    BY <2>1 DEF live
  <2>2. CASE \E m : m.type = "stream" /\ IsRaw(m) /\ Deliver(m)
    <3>1. PICK m : m.type = "stream" /\ IsRaw(m) /\ Deliver(m)
      BY <2>2
    <3> DEFINE r == AdaptStream(adapter, m)
    <3>2. adapter' = r.ad /\ events' = events \o r.events
      BY <3>1 DEF Deliver, Adapt
    <3>3. SameChanges(adapter, r.ad) /\ OfNoFile(r.events)
      BY <1>1, <3>1, FramesKeepChanges, FramesShowNoFiles
    <3> HIDE DEF r
    <3> QED BY <1>1, <3>2, <3>3, ShownBefore DEF SameChanges, OfNoFile
  <2>3. CASE \E m : m.type = "task" /\ m.event # "files.changed" /\ Deliver(m)
    <3>1. PICK m : m.type = "task" /\ m.event # "files.changed" /\ Deliver(m)
      BY <2>3
    <3> DEFINE e == Event(m.event, m, [task |-> m.task, tool |-> m.tool, usage |-> m.usage])
    <3>2. adapter' = adapter /\ events' = events \o <<e>>
      BY <3>1 DEF Deliver, Adapt
    <3>3. e.event # "files.changed"
      BY <3>1 DEF Event
    <3> HIDE DEF e
    <3>4. OfNoFile(<<e>>)
      BY <3>3, NoFiles
    <3> QED BY <1>1, <3>2, <3>4, ShownBefore DEF OfNoFile
  <2> QED BY <2>1, <2>2, <2>3
<1>3. asked' \subseteq DOMAIN adapter'.tools /\ ToolsNamed(adapter'.tools, script)
  BY <1>2 DEF ChangesHeld
<1> QED BY <1>2, <1>3, ChangesStay

\* An envelope, for the first time or once more.
LEMMA EnvelopeKeepsChanges ==
    ASSUME RepliesKept, ChangesHeld, script' = script, answered' = answered, edited' = edited,
           LastCalls(main', script), LastCalls(subs', script),
           NEW m, m.type = "assistant", IsSeq(m.content),
           \A i \in DOMAIN m.content : m.content[i].kind \in {"text", "thinking", "tool"},
           ToolBlocks(m.content) \subseteq CallsOf(script), Deliver(m),
           asked' \subseteq asked \cup {b.tool : b \in ToolBlocks(m.content)}
    PROVE  ChangesHeld'
<1> DEFINE r == Adapt(adapter, m)
<1>1. Places /\ IsAdapter(adapter) /\ IsSeq(events)
  BY KeptIs
<1>2. adapter' = r.ad /\ events' = events \o r.events
  BY DEF Deliver
<1>3. /\ asked \subseteq DOMAIN adapter.tools /\ ToolsNamed(adapter.tools, script)
      /\ LastShown(events) = Snapshot(adapter.changes)
  BY DEF ChangesHeld
<1>4. /\ r.ad.changes = adapter.changes /\ r.ad.tools = Over(Calls(m), adapter.tools)
      /\ LastShown(events \o r.events) = LastShown(events)
  BY <1>1, <1>3, EnvelopeCalls
<1> HIDE DEF r
<1>5. /\ DOMAIN Calls(m) = {b.tool : b \in ToolBlocks(m.content)}
      /\ \A b \in CallsOf(script) : b.tool \in DOMAIN Calls(m) => Calls(m)[b.tool].name = b.name
  <2>1. script \in Scripts
    BY <1>1 DEF Places
  <2> QED BY <2>1, CallsNamed
<1>6. /\ DOMAIN Over(Calls(m), adapter.tools) = DOMAIN Calls(m) \cup DOMAIN adapter.tools
      /\ \A t \in DOMAIN Calls(m) \cup DOMAIN adapter.tools :
           Over(Calls(m), adapter.tools)[t] = IF t \in DOMAIN Calls(m) THEN Calls(m)[t] ELSE adapter.tools[t]
  BY DEF Over
<1>7. asked' \subseteq DOMAIN adapter'.tools
  BY <1>2, <1>3, <1>4, <1>5, <1>6
<1>8. ToolsNamed(adapter'.tools, script)
  BY <1>2, <1>3, <1>4, <1>5, <1>6 DEF ToolsNamed
<1> QED BY <1>2, <1>4, <1>7, <1>8, ChangesStay

LEMMA SendKeepsChanges ==
    ASSUME RepliesKept, ChangesHeld, NEW a \in Agents, NEW to \in 1..MaxBlocks, SendEnvelope(a, to)
    PROVE  ChangesHeld'
<1> DEFINE m == Sent(a, to)
           now == Now(a)
<1>1. Places /\ LastCalls(main, script) /\ LastCalls(subs, script)
  BY KeptIs DEF ChangesHeld
<1>2. /\ ~ now.closed /\ Deliver(m) /\ WriteDown(a, m) /\ script' = script
  BY SendIs, Zenon
<1>3. /\ asked' = asked \cup {b.tool : b \in ToolBlocks(m.content)}
      /\ answered' = answered /\ edited' = edited
  BY DEF SendEnvelope, Sent, Now, disks
<1>4. /\ m.type = "assistant" /\ IsSeq(m.content) /\ Len(m.content) = to - now.sent
      /\ DOMAIN m.content = 1..(to - now.sent)
      /\ \A i \in DOMAIN m.content : m.content[i] = Script[turn][a][now.n][now.sent + i]
      /\ \A i \in DOMAIN m.content : m.content[i].kind \in {"text", "thinking", "tool"}
  BY <1>1, SentIs, Zenon
<1>5. to \in Nat /\ to <= Len(Said(a)[now.n]) /\ now.n \in 1..Len(Said(a)) /\ now.sent \in Nat
  <2>1. to \in Nat /\ to <= Len(Said(a)[now.n])
    BY <1>1, SendPlaces
  <2>2. now \in Place /\ now.n \in 1..Len(Said(a))
    BY <1>1, <1>2, NowPlace
  <2> HIDE DEF now
  <2> QED BY <2>1, <2>2 DEF Place
<1> HIDE DEF m, now
<1>6. ToolBlocks(m.content) \subseteq CallsOf(script)
  <2>1. /\ Len(Said(a)) \in Nat /\ DOMAIN Said(a)[now.n] = 1..Len(Said(a)[now.n])
        /\ Len(Said(a)[now.n]) \in Nat
    BY <1>1, <1>5, SaidWell
  <2>2. ASSUME NEW i \in DOMAIN m.content, m.content[i].kind = "tool"
        PROVE  m.content[i] \in ToolBlocks(Said(a)[now.n])
    <3>1. i \in 1..(to - now.sent)
      BY <1>4
    <3>2. now.sent + i \in 1..Len(Said(a)[now.n])
      BY <1>5, <2>1, <3>1
    <3>3. m.content[i] = Said(a)[now.n][now.sent + i]
      BY <1>4 DEF Said
    <3> QED BY <2>1, <2>2, <3>2, <3>3 DEF ToolBlocks
  <2>3. ToolBlocks(Said(a)[now.n]) \subseteq CallsOf(script)
    <3>1. now.n \in DOMAIN Said(a)
      <4>1. IsSeq(Said(a))
        BY <1>1, ScriptsAssumption DEF Places, Said, Script, IsSaid
      <4> QED BY <1>5, <4>1, Elements
    <3> QED BY <1>1, <3>1, SaidIsCalled
  <2> QED BY <2>2, <2>3 DEF ToolBlocks
<1>7. LastCalls(main', script) /\ LastCalls(subs', script)
  BY <1>1, <1>2, <1>6, LastCallsStay
<1> QED BY <1>2, <1>3, <1>4, <1>6, <1>7, EnvelopeKeepsChanges

LEMMA RepeatKeepsChanges ==
    ASSUME RepliesKept, ChangesHeld, NEW a \in Agents, RepeatEnvelope(a)
    PROVE  ChangesHeld'
<1> DEFINE all == IF a = Main THEN main ELSE subs
           m == all[Len(all)]
<1>1. /\ all # <<>> /\ m.type = "assistant" /\ Deliver(m) /\ main' = main /\ subs' = subs
      /\ script' = script /\ asked' = asked /\ answered' = answered /\ edited' = edited
  BY DEF RepeatEnvelope, kept, work, disks
<1>2. LastCalls(main, script) /\ LastCalls(subs, script) /\ LastSaid(main) /\ LastSaid(subs)
  BY KeptIs DEF ChangesHeld
<1>3. LastCalls(all, script) /\ LastSaid(all)
  BY <1>2
<1> HIDE DEF all
<1>4. /\ IsSeq(m.content) /\ \A i \in DOMAIN m.content : m.content[i].kind \in {"text", "thinking", "tool"}
      /\ ToolBlocks(m.content) \subseteq CallsOf(script)
  BY <1>1, <1>3 DEF LastCalls, LastSaid
<1> HIDE DEF m
<1> QED BY <1>1, <1>2, <1>4, EnvelopeKeepsChanges

\* An answer gives the changes what its tool did, and nothing else.
LEMMA AnswerKeepsChanges ==
    ASSUME RepliesKept, ChangesHeld, NEW a \in Agents, NEW b \in ToolsOf(a),
           (\E tells \in BOOLEAN : FileAnswers(a, b, tells)) \/ ToolAnswers(a, b)
    PROVE  ChangesHeld'
<1>1. Places /\ IsAdapter(adapter) /\ IsSeq(events)
  BY KeptIs
<1>2. /\ asked \subseteq DOMAIN adapter.tools /\ ToolsNamed(adapter.tools, script)
      /\ LastCalls(main, script) /\ LastCalls(subs, script)
      /\ EditsHeld(adapter.changes, answered, edited)
      /\ LastShown(events) = Snapshot(adapter.changes)
  BY DEF ChangesHeld
<1>3. b \in CallsOf(script)
  BY <1>1, ToolsAreCalled
<1>4. b.tool \in asked /\ b.tool \notin answered /\ script' = script /\ asked' = asked
  BY DEF FileAnswers, ToolAnswers, Pending
<1>5. b.tool \in DOMAIN adapter.tools /\ adapter.tools[b.tool].name = b.name
  BY <1>2, <1>3, <1>4 DEF ToolsNamed
<1>6. ASSUME NEW edit, Answers(a, b, edit),
             \A parent : EditsHeld(ApplyEdit(adapter.changes, b.name, ToldEdit(parent, b, edit)),
                                   answered \cup {b.tool}, edited')
      PROVE  ChangesHeld'
  <2> DEFINE m == AnswerOf(a, b, edit)
             r == Adapt(adapter, m)
  <2>1. Deliver(m) /\ WriteDown(a, m) /\ answered' = answered \cup {b.tool}
    BY <1>6 DEF Answers, AnswerOf
  <2>2. m.type # "assistant"
    BY DEF AnswerOf
  <2>3. adapter' = r.ad /\ events' = events \o r.events
    BY <2>1 DEF Deliver
  <2>4. /\ r.ad.tools = adapter.tools
        /\ \E parent : r.ad.changes = ApplyEdit(adapter.changes, b.name, ToldEdit(parent, b, edit))
        /\ LastShown(events \o r.events) = Snapshot(r.ad.changes)
    BY <1>1, <1>2, <1>5, AnswerEdits
  <2> HIDE DEF m, r
  <2>5. LastCalls(main', script) /\ LastCalls(subs', script)
    BY <1>1, <1>2, <2>1, <2>2, LastCallsStay
  <2>6. EditsHeld(adapter'.changes, answered', edited')
    BY <1>6, <2>1, <2>3, <2>4
  <2>7. /\ asked' \subseteq DOMAIN adapter'.tools /\ ToolsNamed(adapter'.tools, script)
        /\ LastShown(events') = Snapshot(adapter'.changes)
    BY <1>2, <1>4, <2>3, <2>4
  <2> QED BY <1>4, <2>5, <2>6, <2>7 DEF ChangesHeld
<1>7. CASE \E tells \in BOOLEAN : FileAnswers(a, b, tells)
  <2>1. PICK tells \in BOOLEAN : FileAnswers(a, b, tells)
    BY <1>7
  <2> DEFINE before == disk[b.file]
             shown == IF tells THEN before ELSE Unknown
             edit == [file |-> b.file, before |-> shown, after |-> b.content, created |-> FALSE]
  <2>2. Answers(a, b, edit) /\ b.name \in FileTools
    BY <2>1 DEF FileAnswers
  <2>3. edited' = [edited EXCEPT ![b.file] = EditedBy(@, before, b.content)]
    BY <2>1 DEF FileAnswers, EditedBy
  <2>4. b.file \in Files /\ b.content # Unknown
    BY <1>1, <1>3, <2>2, CallsAssumption DEF Places
  <2>5. shown \in {before, Unknown}
    OBVIOUS
  <2> HIDE DEF shown, before
  <2>6. \A parent : EditsHeld(ApplyEdit(adapter.changes, b.name, ToldEdit(parent, b, edit)),
                              answered \cup {b.tool}, edited')
    BY <1>2, <1>4, <2>2, <2>3, <2>4, <2>5, EditCounts
  <2> HIDE DEF edit
  <2> QED BY <1>6, <2>2, <2>6
<1>8. CASE ToolAnswers(a, b)
  <2>1. Answers(a, b, NoEdit) /\ b.name \notin FileTools /\ edited' = edited
    BY <1>8 DEF ToolAnswers, disks
  <2>2. \A e : ApplyEdit(adapter.changes, b.name, e) = adapter.changes
    BY <2>1 DEF ApplyEdit
  <2>3. EditsHeld(adapter.changes, answered \cup {b.tool}, edited')
    BY <1>2, <2>1 DEF EditsHeld
  <2> QED BY <1>6, <2>1, <2>2, <2>3
<1> QED BY <1>7, <1>8

\* A new adapter has shown no file, and no tool of a new turn has done anything.
LEMMA FreshChanges ==
    /\ \A over : EditsHeld(Fresh.changes, over, [f \in Files |-> NotEdited])
    /\ LastShown(<<>>) = Snapshot(Fresh.changes)
    /\ DOMAIN Fresh.tools = {}
<1>1. Fresh.changes = NoChanges /\ DOMAIN Fresh.tools = {}
  BY DEF Fresh, NewAdapter
<1>2. IsEdited(NotEdited) /\ TellsEdits(Untouched, NotEdited)
  BY DEF IsEdited, TellsEdits, NotEdited
<1>3. \A over : EditsHeld(NoChanges, over, [f \in Files |-> NotEdited])
  BY <1>2 DEF EditsHeld, NoChanges
<1>4. Snapshot(NoChanges) = {}
  BY DEF Snapshot, NoChanges
<1>5. LastShown(<<>>) = {}
  <2>1. {i \in DOMAIN <<>> : <<>>[i].event = "files.changed"} = {}
    OBVIOUS
  <2> QED BY <2>1 DEF LastShown
<1> QED BY <1>1, <1>3, <1>4, <1>5

LEMMA PromptKeepsChanges ==
    ASSUME RepliesKept, ChangesHeld, NextPrompt
    PROVE  ChangesHeld'
<1>1. Places /\ LastCalls(main, script) /\ LastCalls(subs, script)
  BY KeptIs DEF ChangesHeld
<1>2. /\ adapter' = Fresh /\ events' = <<>> /\ asked' = {} /\ script' = script
      /\ edited' = [f \in Files |-> NotEdited]
      /\ main' = Append(main, Prompt(turn + 1)) /\ subs' = subs
  BY DEF NextPrompt, Fresh
<1>3. LastCalls(main', script)
  <2>1. IsSeq(main) /\ Prompt(turn + 1).type # "assistant"
    BY <1>1 DEF Places, Prompt
  <2>2. main'[Len(main')] = Prompt(turn + 1)
    BY <1>2, <2>1, OneMore
  <2> QED BY <2>1, <2>2 DEF LastCalls
<1>4. ToolsNamed(Fresh.tools, script)
  BY FreshChanges DEF ToolsNamed
<1> QED BY <1>1, <1>2, <1>3, <1>4, FreshChanges DEF ChangesHeld

LEMMA ChangesAtFirst ==
    ASSUME Init
    PROVE  ChangesHeld
<1>1. /\ adapter = Fresh /\ events = <<>> /\ asked = {} /\ edited = [f \in Files |-> NotEdited]
      /\ main = <<Prompt(1)>> /\ subs = <<>>
  BY DEF Init, Fresh
<1>2. LastCalls(main, script) /\ LastCalls(subs, script)
  <2>1. main[Len(main)].type # "assistant"
    BY <1>1 DEF Prompt
  <2> QED BY <1>1, <2>1 DEF LastCalls
<1>3. ToolsNamed(Fresh.tools, script)
  BY FreshChanges DEF ToolsNamed
<1> QED BY <1>1, <1>2, <1>3, FreshChanges DEF ChangesHeld

\* Every step keeps the changes.
LEMMA ChangesAreKept ==
    ASSUME RepliesKept, ChangesHeld, [Next]_vars
    PROVE  ChangesHeld'
<1> DEFINE Streams(a) == Begin(a) \/ OpenBlock(a) \/ Piece(a) \/ CloseBlock(a) \/ CloseMessage(a)
           Answered(a, b) == (\E tells \in BOOLEAN : FileAnswers(a, b, tells)) \/ ToolAnswers(a, b)
<1>0. Places /\ LastCalls(main, script) /\ LastCalls(subs, script)
  BY KeptIs DEF ChangesHeld
<1>1. \/ \E a \in Agents : Streams(a)
      \/ \E a \in Agents, to \in 1..MaxBlocks : SendEnvelope(a, to)
      \/ \E a \in Agents : RepeatEnvelope(a)
      \/ \E a \in Agents : \E b \in ToolsOf(a) : Answered(a, b)
      \/ \E b : Notify(b)
      \/ \E a, b, tool : Launch(a, b, tool)
      \/ NextPrompt \/ PrintOutput
      \/ EndTurn \/ UNCHANGED vars \/ \E f, c : Foreign(f, c)
  BY Zenon DEF Next, Says, Works
<1>2. CASE \E a \in Agents : Streams(a)
  <2>1. PICK a \in Agents : Streams(a)
    BY <1>2
  <2>2. Calm /\ ((\E m : m.type = "stream" /\ IsRaw(m) /\ Deliver(m)) \/ UNCHANGED live)
    BY <1>0, <2>1, StreamFrames
  <2>3. /\ script' = script /\ asked' = asked /\ answered' = answered /\ edited' = edited
        /\ main' = main /\ subs' = subs
    BY <2>2 DEF Calm, kept, disks
  <2> QED BY <1>0, <2>2, <2>3, HarmlessKeepsChanges
<1>3. CASE \E a \in Agents, to \in 1..MaxBlocks : SendEnvelope(a, to)
  BY <1>3, SendKeepsChanges
<1>4. CASE \E a \in Agents : RepeatEnvelope(a)
  BY <1>4, RepeatKeepsChanges
<1>5. CASE \E a \in Agents : \E b \in ToolsOf(a) : Answered(a, b)
  BY <1>5, AnswerKeepsChanges
<1>6. CASE \E b : Notify(b)
  <2>1. PICK b : Notify(b)
    BY <1>6
  <2> DEFINE m == [type |-> "user", parent |-> Main, uuid |-> <<"note", b.tool>>, said |-> "notification",
                   content |-> <<[kind |-> "text", text |-> <<"notification">>]>>,
                   note |-> [task |-> <<"task", b.tool>>, tool |-> b.tool, total |-> Tokens(b.tool)]]
             news == Task("task.completed", b, b.tool, Tokens(b.tool))
  <2>2. /\ Deliver(news) /\ WriteDown(Main, m)
        /\ script' = script /\ asked' = asked /\ answered' = answered /\ edited' = edited
    BY <2>1 DEF Notify, disks
  <2>3. news.type = "task" /\ news.event # "files.changed" /\ m.type # "assistant"
    BY DEF Task
  <2> HIDE DEF m, news
  <2>4. LastCalls(main', script) /\ LastCalls(subs', script)
    BY <1>0, <2>2, <2>3, LastCallsStay
  <2> QED BY <2>2, <2>3, <2>4, HarmlessKeepsChanges
<1>7. CASE \E a, b, tool : Launch(a, b, tool)
  <2>1. PICK a, b, tool : Launch(a, b, tool)
    BY <1>7
  <2> DEFINE news == Task("task.started", b, tool, NoUsage)
  <2>2. /\ Deliver(news) /\ main' = main /\ subs' = subs
        /\ script' = script /\ asked' = asked /\ answered' = answered /\ edited' = edited
    BY <2>1 DEF Launch, disks, kept
  <2>3. news.type = "task" /\ news.event # "files.changed"
    BY DEF Task
  <2> HIDE DEF news
  <2> QED BY <1>0, <2>2, <2>3, HarmlessKeepsChanges
<1>8. CASE NextPrompt
  BY <1>8, PromptKeepsChanges
<1>9. CASE PrintOutput
  <2> DEFINE m == [type |-> "user", parent |-> Main, uuid |-> <<"print", turn>>, said |-> "stdout",
                   note |-> NoNote, content |-> <<[kind |-> "text", text |-> Output]>>]
  <2>1. /\ WriteDown(Main, m) /\ UNCHANGED live
        /\ script' = script /\ asked' = asked /\ answered' = answered /\ edited' = edited
    BY <1>9 DEF PrintOutput, work, disks
  <2>2. m.type # "assistant"
    OBVIOUS
  <2> HIDE DEF m
  <2>3. LastCalls(main', script) /\ LastCalls(subs', script)
    BY <1>0, <2>1, <2>2, LastCallsStay
  <2> QED BY <2>1, <2>3, HarmlessKeepsChanges
<1>10. CASE EndTurn \/ UNCHANGED vars \/ \E f, c : Foreign(f, c)
  <2>1. /\ UNCHANGED live /\ main' = main /\ subs' = subs
        /\ script' = script /\ asked' = asked /\ answered' = answered /\ edited' = edited
    BY <1>10 DEF EndTurn, Foreign, vars, work, kept, disks
  <2> QED BY <1>0, <2>1, HarmlessKeepsChanges
<1> QED BY <1>1, <1>2, <1>3, <1>4, <1>5, <1>6, <1>7, <1>8, <1>9, <1>10

\* What TurnFileChanges holds, and what was shown of it last, agree with what the
\* file tools of the turn have done so far.
THEOREM ChangesAreHeld == Spec => []ChangesHeld
<1>1. Init => ChangesHeld
  BY ChangesAtFirst
<1>2. RepliesKept /\ ChangesHeld /\ [Next]_vars => ChangesHeld'
  BY ChangesAreKept
<1> QED BY <1>1, <1>2, RepliesAreKept, PTL DEF Spec

\* A change of a file that is shown as complete is what the tools of the turn
\* did to the file and contains no change of somebody else: for any scripts,
\* files, losses and foreign changes.
THEOREM ChangesShownAreTrue == Spec => []LiveChangesAreTrue
<1>1. ChangesHeld => LiveChangesAreTrue
  BY HeldIsTrue DEF ChangesHeld, LiveChangesAreTrue
<1> QED BY <1>1, ChangesAreHeld, PTL

=============================================================================
