------------------------- MODULE EventDeliveryProofs ------------------------
(***************************************************************************)
(* Theorems about EventDelivery, for any number of turns, texts,           *)
(* permissions, connections, broken transports, sends that time out and    *)
(* requests that fail.                                                     *)
(*                                                                         *)
(* The invariants build on each other: what the server keeps (ServerOK,    *)
(* TurnOK), what the page is told of it (NetOK, WorldOK), what is on its   *)
(* way (FlowOK), what the page shows (PageOK), that nothing is missed or   *)
(* out of order (NothingLost), that the ends of turns arrive (UpToDate),   *)
(* that questions are settled (SettledOK).  InOrder and QuietIsUpToDate    *)
(* follow.  Every step is one of the classes of Steps, which tell what it  *)
(* does to the page and to what is on its way, or opens the session with   *)
(* turns that only the history tells (Misloads); what the page shows is    *)
(* known of a page that took none, which is timely.                        *)
(***************************************************************************)
EXTENDS EventDelivery, WellFoundedInduction, TLAPS

-----------------------------------------------------------------------------
(* What the server keeps *)

Event == [id : Nat \X Nat, turn : Nat, about : Permissions \cup {"none"},
          kind : {"text", "requested", "resolved", "completed"}]

AskStates == {"none", "pending", "denied", "answered", "over"}

ServerType ==
    /\ turn \in [number : Nat, phase : {"running", "ending", "over"}, texts : Nat, made : Nat]
    /\ made \in Seq(Event) /\ emitted \in Seq(Event)
    /\ asks \in [Permissions -> AskStates]

\* The events of the turn are numbered as they were made, and none is left when
\* the turn is over.
Numbers ==
    /\ turn.made = Len(emitted) + Len(made)
    /\ \A i \in DOMAIN emitted : emitted[i].id = <<turn.number, i>>
    /\ \A i \in DOMAIN made : made[i].id = <<turn.number, Len(emitted) + i>>
    /\ turn.phase = "over" => made = <<>>
    /\ turn.phase # "running" => \A p \in Permissions : asks[p] \in {"none", "over"}

\* Whoever is asked for was asked, and nobody waits who cannot be shown.
Asked(e) == e.kind = "requested" => e.about \in Permissions /\ asks[e.about] # "none"

Answerable ==
    /\ \A i \in DOMAIN emitted : Asked(emitted[i])
    /\ \A i \in DOMAIN made : Asked(made[i])
    /\ registered = {} => \A i \in DOMAIN emitted :
         emitted[i].kind = "requested" => asks[emitted[i].about] # "pending"

ServerOK == ServerType /\ Numbers /\ Answerable

\* What making an event changes, and that it keeps its type.
LEMMA MakeType ==
    ASSUME NEW changed \in [number : Nat, phase : {"running", "ending", "over"},
                            texts : Nat, made : Nat],
           NEW kind \in {"text", "requested", "resolved", "completed"},
           NEW p \in Permissions \cup {"none"}, made \in Seq(Event),
           Make(changed, kind, p)
    PROVE  /\ turn' = [changed EXCEPT !.made = changed.made + 1]
           /\ turn' \in [number : Nat, phase : {"running", "ending", "over"},
                         texts : Nat, made : Nat]
           /\ \E e \in Event : /\ e.id = <<changed.number, changed.made + 1>>
                               /\ e.kind = kind /\ e.about = p /\ e.turn = changed.number
                               /\ made' = Append(made, e)
<1>1. /\ turn' = [changed EXCEPT !.made = changed.made + 1]
      /\ turn' \in [number : Nat, phase : {"running", "ending", "over"},
                    texts : Nat, made : Nat]
      /\ turn'.number = changed.number /\ turn'.made = changed.made + 1
  BY DEF Make, Numbered
<1> DEFINE e == [id |-> <<turn'.number, turn'.made>>, turn |-> turn'.number,
                 kind |-> kind, about |-> p]
<1>2. /\ e \in Event /\ e.id = <<changed.number, changed.made + 1>>
      /\ e.kind = kind /\ e.about = p /\ e.turn = changed.number
  BY <1>1 DEF Event
<1>3. made' = Append(made, e)
  BY DEF Make
<1> QED BY <1>1, <1>2, <1>3

\* The client makes the next event of a running turn.
LEMMA Making ==
    ASSUME ServerOK, turn.phase = "running",
           NEW changed, NEW kind \in {"text", "requested", "resolved", "completed"},
           NEW p \in Permissions \cup {"none"}, Make(changed, kind, p),
           changed \in [number : Nat, phase : {"running", "ending", "over"},
                        texts : Nat, made : Nat],
           changed.number = turn.number, changed.made = turn.made,
           changed.phase \in {"running", "ending"},
           changed.phase = "ending" => \A q \in Permissions : asks'[q] \in {"none", "over"},
           asks' \in [Permissions -> AskStates], UNCHANGED <<emitted, registered>>,
           \A q \in Permissions : asks[q] # "none" => asks'[q] # "none",
           \A q \in Permissions : asks'[q] = "pending" => asks[q] \in {"pending", "none"},
           kind = "requested" => p \in Permissions /\ asks'[p] # "none"
    PROVE  ServerOK'
<1>1. /\ turn' = [changed EXCEPT !.made = changed.made + 1]
      /\ turn' \in [number : Nat, phase : {"running", "ending", "over"},
                    texts : Nat, made : Nat]
  BY MakeType DEF ServerOK, ServerType
<1>2. PICK e \in Event : /\ e.id = <<turn.number, turn.made + 1>>
                         /\ e.kind = kind /\ e.about = p /\ made' = Append(made, e)
  BY MakeType DEF ServerOK, ServerType
<1>3. /\ turn'.number = turn.number /\ turn'.made = turn.made + 1
      /\ turn'.phase = changed.phase
  BY <1>1
<1>4. /\ made \in Seq(Event) /\ emitted \in Seq(Event)
      /\ Len(made) \in Nat /\ Len(emitted) \in Nat
      /\ DOMAIN made = 1 .. Len(made)
  BY DEF ServerOK, ServerType
<1>5. /\ DOMAIN made' = 1 .. (Len(made) + 1) /\ Len(made') = Len(made) + 1
      /\ made' \in Seq(Event)
      /\ \A i \in DOMAIN made : made'[i] = made[i]
      /\ made'[Len(made) + 1] = e
  BY <1>2, <1>4
<1>6. ServerType'
  BY <1>1, <1>5 DEF ServerOK, ServerType
<1>7. Numbers'
  <2>1. turn'.made = Len(emitted) + Len(made')
    BY <1>3, <1>4, <1>5 DEF ServerOK, Numbers
  <2>2. \A i \in DOMAIN made' : made'[i].id = <<turn.number, Len(emitted) + i>>
    <3> SUFFICES ASSUME NEW i \in DOMAIN made'
                 PROVE  made'[i].id = <<turn.number, Len(emitted) + i>>
      OBVIOUS
    <3>1. CASE i \in DOMAIN made
      BY <1>5, <3>1 DEF ServerOK, Numbers
    <3>2. CASE i = Len(made) + 1
      <4>1. turn.made + 1 = Len(emitted) + i
        BY <1>4, <3>2 DEF ServerOK, Numbers
      <4> QED
        BY <1>2, <1>5, <3>2, <4>1
    <3> QED
      BY <1>4, <1>5, <3>1, <3>2
  <2> QED
    BY <1>3, <2>1, <2>2 DEF ServerOK, Numbers
<1>8. Answerable'
  <2>1. \A x \in Event : Asked(x) => Asked(x)'
    BY DEF Asked
  <2>2. \A i \in DOMAIN emitted : Asked(emitted[i])'
    BY <1>4, <2>1 DEF ServerOK, Answerable, Asked
  <2>3. \A i \in DOMAIN made' : Asked(made[i])'
    <3> SUFFICES ASSUME NEW i \in DOMAIN made' PROVE Asked(made[i])'
      OBVIOUS
    <3>1. CASE i \in DOMAIN made
      BY <1>5, <3>1 DEF ServerOK, Answerable, Asked
    <3>2. CASE i = Len(made) + 1
      BY <1>2, <1>5, <3>2 DEF Asked
    <3> QED
      BY <1>4, <1>5, <3>1, <3>2
  <2>4. registered = {} => \A i \in DOMAIN emitted :
          emitted[i].kind = "requested" => asks'[emitted[i].about] # "pending"
    BY DEF ServerOK, Answerable, Asked
  <2> QED
    BY <2>2, <2>3, <2>4 DEF Answerable
<1> QED BY <1>6, <1>7, <1>8 DEF ServerOK

\* Denying decides what is pending and nothing else.
LEMMA DeniedType ==
    ASSUME asks \in [Permissions -> AskStates], NEW ps
    PROVE  /\ Denied(ps) \in [Permissions -> AskStates]
           /\ \A p \in Permissions :
                /\ asks[p] # "none" => Denied(ps)[p] # "none"
                /\ asks[p] \in {"none", "over"} => Denied(ps)[p] = asks[p]
                /\ Denied(ps)[p] = "pending" => asks[p] = "pending" /\ p \notin ps
BY DEF Denied, AskStates

\* Questions are decided, and connections may go, but nothing is told.
LEMMA Deciding ==
    ASSUME ServerOK, UNCHANGED <<turn, made, emitted>>,
           asks' \in [Permissions -> AskStates],
           \A p \in Permissions :
             /\ asks[p] # "none" => asks'[p] # "none"
             /\ asks[p] \in {"none", "over"} => asks'[p] = asks[p]
             /\ asks'[p] = "pending" => asks[p] = "pending",
           registered' = {} => \A i \in DOMAIN emitted :
             emitted[i].kind = "requested" => asks'[emitted[i].about] # "pending"
    PROVE  ServerOK'
<1>1. ServerType'
  BY DEF ServerOK, ServerType
<1>2. Numbers'
  BY DEF ServerOK, Numbers
<1>3. Answerable'
  BY DEF ServerOK, Answerable, Asked
<1> QED BY <1>1, <1>2, <1>3 DEF ServerOK

\* What only concerns the connections leaves the server as it was.
LEMMA ServerUnchanged ==
    ASSUME ServerOK, UNCHANGED <<turn, made, emitted, asks>>,
           registered' = {} => registered = {}
    PROVE  ServerOK'
BY DEF ServerOK, ServerType, Numbers, Answerable, Asked

\* The first event is emitted; nobody can be shown a request without a
\* connection, so it is denied at once.
LEMMA Emitting ==
    ASSUME ServerOK, Emit
    PROVE  ServerOK'
<1> DEFINE e == Head(made)
<1>1. /\ made \in Seq(Event) /\ made # <<>> /\ emitted \in Seq(Event) /\ e \in Event
      /\ made' = Tail(made) /\ emitted' = Append(emitted, e)
      /\ UNCHANGED <<turn, registered>>
      /\ Len(made) \in Nat /\ Len(emitted) \in Nat /\ Len(made) > 0
      /\ asks \in [Permissions -> AskStates]
  BY DEF Emit, net, ServerOK, ServerType
<1>2. /\ DOMAIN made' = 1 .. (Len(made) - 1) /\ Len(made') = Len(made) - 1
      /\ made' \in Seq(Event)
      /\ \A i \in DOMAIN made' : made'[i] = made[i + 1] /\ i + 1 \in DOMAIN made
      /\ e = made[1] /\ 1 \in DOMAIN made
  BY <1>1
<1>3. /\ DOMAIN emitted' = 1 .. (Len(emitted) + 1) /\ Len(emitted') = Len(emitted) + 1
      /\ emitted' \in Seq(Event)
      /\ \A i \in DOMAIN emitted : emitted'[i] = emitted[i]
      /\ emitted'[Len(emitted) + 1] = e
      /\ DOMAIN emitted = 1 .. Len(emitted)
  BY <1>1
<1>4. /\ asks' \in [Permissions -> AskStates]
      /\ \A p \in Permissions :
           /\ asks[p] # "none" => asks'[p] # "none"
           /\ asks[p] \in {"none", "over"} => asks'[p] = asks[p]
           /\ asks'[p] = "pending" => asks[p] = "pending"
      /\ registered = {} /\ e.kind = "requested" => asks' = Denied({e.about})
  BY <1>1, DeniedType DEF Emit, Undeliverable
<1>5. ServerType'
  BY <1>1, <1>2, <1>3, <1>4 DEF ServerOK, ServerType
<1>6. Numbers'
  <2>1. turn.made = Len(emitted') + Len(made')
    BY <1>1, <1>2, <1>3 DEF ServerOK, Numbers
  <2>2. \A i \in DOMAIN emitted' : emitted'[i].id = <<turn.number, i>>
    <3> SUFFICES ASSUME NEW i \in DOMAIN emitted'
                 PROVE  emitted'[i].id = <<turn.number, i>>
      OBVIOUS
    <3>1. CASE i \in DOMAIN emitted
      BY <1>3, <3>1 DEF ServerOK, Numbers
    <3>2. CASE i = Len(emitted) + 1
      BY <1>2, <1>3, <3>2 DEF ServerOK, Numbers
    <3> QED
      BY <1>1, <1>3, <3>1, <3>2
  <2>3. \A i \in DOMAIN made' : made'[i].id = <<turn.number, Len(emitted') + i>>
    <3> SUFFICES ASSUME NEW i \in DOMAIN made'
                 PROVE  made'[i].id = <<turn.number, Len(emitted') + i>>
      OBVIOUS
    <3>1. made'[i].id = <<turn.number, Len(emitted) + (i + 1)>>
      BY <1>2 DEF ServerOK, Numbers
    <3>2. Len(emitted) + (i + 1) = Len(emitted') + i
      BY <1>1, <1>2, <1>3
    <3> QED
      BY <3>1, <3>2
  <2>4. turn.phase = "over" => FALSE
    BY <1>1 DEF ServerOK, Numbers
  <2> QED
    BY <1>1, <1>4, <2>1, <2>2, <2>3, <2>4 DEF ServerOK, Numbers
<1>7. Answerable'
  <2>1. Asked(e)
    BY <1>2 DEF ServerOK, Answerable
  <2>2. \A i \in DOMAIN emitted' : Asked(emitted[i])'
    <3> SUFFICES ASSUME NEW i \in DOMAIN emitted' PROVE Asked(emitted[i])'
      OBVIOUS
    <3>1. CASE i \in DOMAIN emitted
      BY <1>3, <1>4, <3>1 DEF ServerOK, Answerable, Asked
    <3>2. CASE i = Len(emitted) + 1
      BY <1>3, <1>4, <2>1, <3>2 DEF Asked
    <3> QED
      BY <1>1, <1>3, <3>1, <3>2
  <2>3. \A i \in DOMAIN made' : Asked(made[i])'
    BY <1>2, <1>4 DEF ServerOK, Answerable, Asked
  <2>4. ASSUME registered = {}, NEW i \in DOMAIN emitted', emitted'[i].kind = "requested"
        PROVE  asks'[emitted'[i].about] # "pending"
    <3>1. CASE i \in DOMAIN emitted
      BY <1>3, <1>4, <2>4, <3>1 DEF ServerOK, Answerable, Asked
    <3>2. CASE i = Len(emitted) + 1
      <4>1. /\ e.kind = "requested" /\ e.about \in Permissions
            /\ asks' = Denied({e.about}) /\ emitted'[i] = e
        BY <1>3, <1>4, <2>1, <2>4, <3>2 DEF Asked
      <4> QED
        BY <1>1, <4>1, DeniedType
    <3> QED
      BY <1>1, <1>3, <3>1, <3>2
  <2> QED
    BY <1>1, <2>2, <2>3, <2>4 DEF Answerable
<1> QED BY <1>5, <1>6, <1>7 DEF ServerOK

\* The events of every turn are emitted as they were made, and nobody waits.
THEOREM ServerCorrect == Spec => []ServerOK
<1> USE DEF server, net, ui, ghosts
<1>1. Init => ServerOK
  BY BoundsAssumption DEF Init, ServerOK, ServerType, Numbers, Answerable, AskStates, Event
<1>2. ServerOK /\ [Next]_vars => ServerOK'
  <2> SUFFICES ASSUME ServerOK, [Next]_vars PROVE ServerOK'
    OBVIOUS
  <2>t. /\ turn \in [number : Nat, phase : {"running", "ending", "over"},
                     texts : Nat, made : Nat]
        /\ asks \in [Permissions -> AskStates]
    BY DEF ServerOK, ServerType
  <2>1. ASSUME Prompt PROVE ServerOK'
    <3>1. /\ turn' = [number |-> turn.number + 1, phase |-> "running", texts |-> 0, made |-> 0]
          /\ emitted' = <<>> /\ made' = <<>> /\ UNCHANGED <<asks, registered>>
          /\ made = <<>>
      BY <2>1 DEF Prompt, ServerOK, Numbers
    <3>2. ServerType'
      BY <2>t, <3>1 DEF ServerType
    <3>3. Numbers'
      BY <3>1 DEF Numbers
    <3>4. Answerable'
      BY <3>1 DEF Answerable
    <3> QED
      BY <3>2, <3>3, <3>4 DEF ServerOK
  <2>2. ASSUME Say PROVE ServerOK'
    <3> DEFINE changed == [turn EXCEPT !.texts = @ + 1]
    <3>1. /\ changed \in [number : Nat, phase : {"running", "ending", "over"},
                          texts : Nat, made : Nat]
          /\ changed.number = turn.number /\ changed.made = turn.made
          /\ changed.phase = turn.phase
      BY <2>t
    <3>2. /\ turn.phase = "running" /\ Make(changed, "text", "none")
          /\ UNCHANGED <<emitted, asks, registered>>
      BY <2>2 DEF Say
    <3> HIDE DEF changed
    <3> QED
      BY <2>t, <3>1, <3>2, Making
  <2>3. ASSUME NEW p \in Permissions, Ask(p) PROVE ServerOK'
    <3>1. /\ turn.phase = "running" /\ Make(turn, "requested", p)
          /\ UNCHANGED <<emitted, registered>>
          /\ asks[p] = "none" /\ asks' = [asks EXCEPT ![p] = "pending"]
      BY <2>3 DEF Ask
    <3>2. /\ asks' \in [Permissions -> AskStates]
          /\ \A q \in Permissions : /\ asks[q] # "none" => asks'[q] # "none"
                                    /\ asks'[q] = "pending" => asks[q] \in {"pending", "none"}
          /\ asks'[p] # "none"
      BY <2>t, <3>1 DEF AskStates
    <3> QED
      BY <2>t, <3>1, <3>2, Making
  <2>4. ASSUME NEW p \in Permissions, AskReturns(p) PROVE ServerOK'
    <3>1. /\ Make(turn, "resolved", p) /\ UNCHANGED <<emitted, registered>>
          /\ asks[p] \in {"answered", "denied"} /\ asks' = [asks EXCEPT ![p] = "over"]
      BY <2>4 DEF AskReturns
    <3>2. turn.phase = "running"
      BY <3>1 DEF ServerOK, Numbers
    <3>3. /\ asks' \in [Permissions -> AskStates]
          /\ \A q \in Permissions : /\ asks[q] # "none" => asks'[q] # "none"
                                    /\ asks'[q] = "pending" => asks[q] \in {"pending", "none"}
      BY <2>t, <3>1 DEF AskStates
    <3> QED
      BY <2>t, <3>1, <3>2, <3>3, Making
  <2>5. ASSUME Stop PROVE ServerOK'
    <3>1. UNCHANGED <<turn, made, emitted, registered>> /\ asks' = Denied(Permissions)
      BY <2>5 DEF Stop
    <3>2. registered' = {} => \A i \in DOMAIN emitted :
            emitted[i].kind = "requested" => asks'[emitted[i].about] # "pending"
      BY <2>t, <3>1, DeniedType DEF ServerOK, Answerable, Asked
    <3> QED
      BY <2>t, <3>1, <3>2, DeniedType, Deciding
  <2>6. ASSUME Complete PROVE ServerOK'
    <3> DEFINE changed == [turn EXCEPT !.phase = "ending"]
    <3>1. /\ changed \in [number : Nat, phase : {"running", "ending", "over"},
                          texts : Nat, made : Nat]
          /\ changed.number = turn.number /\ changed.made = turn.made
          /\ changed.phase = "ending"
      BY <2>t
    <3>2. /\ turn.phase = "running" /\ Make(changed, "completed", "none")
          /\ UNCHANGED <<emitted, asks, registered>>
          /\ \A q \in Permissions : asks[q] \in {"none", "over"}
      BY <2>6 DEF Complete
    <3> HIDE DEF changed
    <3> QED
      BY <2>t, <3>1, <3>2, Making
  <2>7. ASSUME TurnOver PROVE ServerOK'
    <3>1. /\ turn' = [turn EXCEPT !.phase = "over"] /\ turn.phase = "ending" /\ made = <<>>
          /\ UNCHANGED <<made, emitted, asks, registered>>
      BY <2>7 DEF TurnOver
    <3>2. /\ turn' \in [number : Nat, phase : {"running", "ending", "over"},
                        texts : Nat, made : Nat]
          /\ turn'.number = turn.number /\ turn'.made = turn.made
      BY <2>t, <3>1
    <3>3. ServerType'
      BY <3>1, <3>2 DEF ServerOK, ServerType
    <3>4. Numbers'
      BY <3>1, <3>2 DEF ServerOK, Numbers
    <3>5. Answerable'
      BY <3>1 DEF ServerOK, Answerable, Asked
    <3> QED
      BY <3>3, <3>4, <3>5 DEF ServerOK
  <2>8. ASSUME Emit PROVE ServerOK'
    BY <2>8, Emitting
  <2>9. ASSUME EmitReturns PROVE ServerOK'
    <3>1. /\ UNCHANGED <<turn, made, emitted, registered>>
          /\ asks' = asks \/ \E ps : asks' = Denied(ps)
      BY <2>9 DEF EmitReturns, Undeliverable
    <3>2. /\ asks' \in [Permissions -> AskStates]
          /\ \A p \in Permissions :
               /\ asks[p] # "none" => asks'[p] # "none"
               /\ asks[p] \in {"none", "over"} => asks'[p] = asks[p]
               /\ asks'[p] = "pending" => asks[p] = "pending"
      BY <2>t, <3>1, DeniedType
    <3>3. registered' = {} => \A i \in DOMAIN emitted :
            emitted[i].kind = "requested" => asks'[emitted[i].about] # "pending"
      BY <3>1, <3>2 DEF ServerOK, Answerable, Asked
    <3> QED
      BY <3>1, <3>2, <3>3, Deciding
  \* The last connection that goes takes every question along that was shown.
  <2>10. ASSUME NEW c \in Sockets, Disconnect(c) PROVE ServerOK'
    <3> DEFINE abouts == {e.about : e \in Range(emitted)}
    <3>1. /\ UNCHANGED <<turn, made, emitted>> /\ registered' = registered \ {c}
          /\ asks' = IF registered' = {} THEN Denied(abouts) ELSE asks
      BY <2>10 DEF Disconnect, LastOf
    <3>2. \A i \in DOMAIN emitted : emitted[i].about \in abouts
      BY DEF Range
    <3> HIDE DEF abouts
    <3>3. /\ asks' \in [Permissions -> AskStates]
          /\ \A p \in Permissions :
               /\ asks[p] # "none" => asks'[p] # "none"
               /\ asks[p] \in {"none", "over"} => asks'[p] = asks[p]
               /\ asks'[p] = "pending" => asks[p] = "pending"
      BY <2>t, <3>1, DeniedType
    <3>4. registered' = {} => \A i \in DOMAIN emitted :
            emitted[i].kind = "requested" => asks'[emitted[i].about] # "pending"
      BY <2>t, <3>1, <3>2, DeniedType DEF ServerOK, Answerable, Asked
    <3> QED
      BY <3>1, <3>3, <3>4, Deciding
  <2>11. ASSUME NEW p \in Permissions, Respond(p) PROVE ServerOK'
    <3>1. /\ UNCHANGED <<turn, made, emitted, registered>>
          /\ asks' = [asks EXCEPT ![p] = "answered"] /\ asks[p] = "pending"
      BY <2>11 DEF Respond
    <3>2. /\ asks' \in [Permissions -> AskStates]
          /\ \A q \in Permissions :
               /\ asks[q] # "none" => asks'[q] # "none"
               /\ asks[q] \in {"none", "over"} => asks'[q] = asks[q]
               /\ asks'[q] = "pending" => asks[q] = "pending"
      BY <2>t, <3>1 DEF AskStates
    <3>3. registered' = {} => \A i \in DOMAIN emitted :
            emitted[i].kind = "requested" => asks'[emitted[i].about] # "pending"
      BY <3>1, <3>2 DEF ServerOK, Answerable, Asked
    <3> QED
      BY <3>1, <3>2, <3>3, Deciding
  <2>12. ASSUME NEW c \in Sockets, Send(c) \/ SendTimesOut(c) \/ Break(c) PROVE ServerOK'
    BY <2>12, ServerUnchanged DEF Send, SendTimesOut, Break
  <2>13. ASSUME Connect PROVE ServerOK'
    BY <2>13, ServerUnchanged DEF Connect
  <2>14. ASSUME Show \/ Failure \/ UNCHANGED vars PROVE ServerOK'
    BY <2>14, ServerUnchanged DEF Show, Failure, Noticed, Receive, LoadAnswered, ReadHistory, Loaded,
       Answer, Recover, LoadFails, RecoverFails, vars
  <2> QED
    BY <2>1, <2>2, <2>3, <2>4, <2>5, <2>6, <2>7, <2>8, <2>9, <2>10, <2>11,
       <2>12, <2>13, <2>14
    DEF Next, Turns, Returns, Deliver, Trouble, Decide
<1> QED BY <1>1, <1>2, PTL DEF Spec

\* When no page is connected no question waits for an answer.
THEOREM NobodyIsLeftWaiting == Spec => []NobodyWaits
<1>1. ServerOK => NobodyWaits
  BY DEF ServerOK, Answerable, NobodyWaits, Range
<1> QED BY <1>1, ServerCorrect, PTL

-----------------------------------------------------------------------------
(* The story of a turn *)

Made == Range(emitted) \cup Range(made)
OfKind(S, kind) == {e \in S : e.kind = kind}

\* A turn begins with a text and ends with its completion, nothing is sent but
\* the event that was emitted last, and whoever waits was asked.
TurnOK ==
    /\ \A e \in Made : e.turn = turn.number /\ e.id[1] = e.turn
    /\ turn.texts > 0 <=> turn.made > 0
    /\ turn.number = 0 => turn.made = 0 /\ turn.phase = "over"
    /\ \A e \in Made : e.id[2] = 1 => e.kind = "text"
    /\ turn.phase = "running" => OfKind(Made, "completed") = {}
    /\ turn.phase # "running" /\ turn.number > 0 => OfKind(Made, "completed") # {}
    /\ \A e \in OfKind(Made, "completed") : e.id[2] = turn.made
    /\ turn.phase = "over" => sending = Idle
    /\ sending # Idle => emitted # <<>> /\ sending.event = emitted[Len(emitted)]
    /\ \A p \in Permissions : asks[p] \in {"pending", "denied", "answered"} =>
         \E e \in OfKind(Made, "requested") : e.about = p
    /\ \A e \in OfKind(Made, "resolved") : e.about \in Permissions /\ asks[e.about] = "over"

\* Every event of the turn has a number of its own.
LEMMA NumbersOfMade ==
    ASSUME ServerOK
    PROVE  /\ \A e \in Made : e \in Event /\ e.id[1] = turn.number /\ e.id[2] \in 1..turn.made
           /\ \A e \in Range(emitted) : e.id[2] \in 1..Len(emitted) /\ e = emitted[e.id[2]]
           /\ \A e \in Range(made) : e.id[2] > Len(emitted)
           /\ \A i \in 1..Len(emitted) : emitted[i].id = <<turn.number, i>> /\ emitted[i] \in Range(emitted)
           /\ Len(emitted) \in Nat /\ Len(emitted) <= turn.made /\ turn.number \in Nat
<1>1. /\ emitted \in Seq(Event) /\ made \in Seq(Event) /\ turn.made = Len(emitted) + Len(made)
      /\ Len(emitted) \in Nat /\ Len(made) \in Nat
      /\ DOMAIN emitted = 1..Len(emitted) /\ DOMAIN made = 1..Len(made)
      /\ \A i \in DOMAIN emitted : emitted[i].id = <<turn.number, i>>
      /\ \A i \in DOMAIN made : made[i].id = <<turn.number, Len(emitted) + i>>
      /\ turn.number \in Nat
  BY DEF ServerOK, ServerType, Numbers
<1> HIDE DEF Event
<1>2. /\ \A e \in Range(emitted) : \E i \in 1..Len(emitted) : e = emitted[i]
      /\ \A e \in Range(made) : \E i \in 1..Len(made) : e = made[i]
      /\ \A i \in 1..Len(emitted) : emitted[i] \in Range(emitted) /\ emitted[i] \in Event
      /\ \A i \in 1..Len(made) : made[i] \in Event
  BY <1>1 DEF Range
<1>3. ASSUME NEW e \in Range(emitted)
      PROVE  /\ e \in Event /\ e.id[1] = turn.number /\ e.id[2] \in 1..Len(emitted)
             /\ e = emitted[e.id[2]]
  BY <1>1, <1>2
<1>4. ASSUME NEW e \in Range(made)
      PROVE  /\ e \in Event /\ e.id[1] = turn.number /\ e.id[2] \in 1..turn.made
             /\ e.id[2] > Len(emitted)
  BY <1>1, <1>2
<1>5. Len(emitted) <= turn.made
  BY <1>1
<1>6. \A e \in Made : e \in Event /\ e.id[1] = turn.number /\ e.id[2] \in 1..turn.made
  BY <1>1, <1>3, <1>4 DEF Made
<1> QED BY <1>1, <1>2, <1>3, <1>4, <1>5, <1>6

\* The members of a sequence that grew by one.
LEMMA OneMore ==
    ASSUME NEW s \in Seq(Event), NEW e \in Event
    PROVE  Range(Append(s, e)) = Range(s) \cup {e}
<1> DEFINE r == Append(s, e)
<1>1. /\ DOMAIN r = 1..(Len(s) + 1) /\ Len(s) \in Nat /\ DOMAIN s = 1..Len(s)
      /\ r[Len(s) + 1] = e /\ \A j \in DOMAIN s : r[j] = s[j]
  OBVIOUS
<1> HIDE DEF r, Event
<1>2. Range(r) = Range(s) \cup {e}
  BY <1>1 DEF Range
<1> QED BY <1>2 DEF r

\* The client makes an event, TurnOK.
LEMMA TurnMakes ==
    ASSUME ServerOK, TurnOK, turn.phase = "running",
           NEW changed, NEW kind \in {"text", "requested", "resolved", "completed"},
           NEW p \in Permissions \cup {"none"}, Make(changed, kind, p),
           changed \in [number : Nat, phase : {"running", "ending", "over"},
                        texts : Nat, made : Nat],
           changed.number = turn.number, changed.made = turn.made, UNCHANGED <<emitted, sending>>,
           changed.phase = IF kind = "completed" THEN "ending" ELSE "running",
           kind = "text" \/ turn.texts > 0, changed.texts > 0,
           \A q \in Permissions :
             /\ asks[q] = "over" => asks'[q] = "over"
             /\ asks'[q] \in {"pending", "denied", "answered"} =>
                  asks[q] \in {"pending", "denied", "answered"} \/ (kind = "requested" /\ p = q),
           kind = "resolved" => p \in Permissions /\ asks'[p] = "over"
    PROVE  TurnOK'
<1>0. PICK e \in Event : /\ e.id = <<turn.number, turn.made + 1>>
                         /\ e.kind = kind /\ e.about = p /\ e.turn = turn.number
                         /\ made' = Append(made, e)
  BY MakeType DEF ServerOK, ServerType
<1>1. /\ Made' = Made \cup {e}
      /\ e.id = <<turn.number, turn.made + 1>> /\ e.turn = turn.number
      /\ e.kind = kind /\ e.about = p
  <2>1. Range(made') = Range(made) \cup {e}
    BY <1>0, OneMore DEF ServerOK, ServerType
  <2> QED BY <1>0, <2>1 DEF Made
<1>t. turn \in [number : Nat, phase : {"running", "ending", "over"}, texts : Nat, made : Nat]
  BY DEF ServerOK, ServerType
<1>2. /\ turn'.number = turn.number /\ turn'.made = turn.made + 1 /\ turn.made \in Nat
      /\ turn'.phase = changed.phase /\ turn.number \in Nat /\ turn.number # 0
      /\ turn'.texts = changed.texts
  <2>1. turn' = [changed EXCEPT !.made = changed.made + 1]
    BY MakeType DEF ServerOK, ServerType
  <2>2. turn.number # 0
    BY DEF TurnOK
  <2> QED BY <1>t, <2>1, <2>2
<1>3. turn.made = 0 => kind = "text"
  BY <1>t DEF TurnOK
<1>4. \A x \in Made : x.kind # "completed"
  BY DEF TurnOK, OfKind
<1> HIDE DEF Event
<1>5. \A x \in Made' : x.turn = turn'.number /\ x.id[1] = x.turn
  BY <1>1, <1>2 DEF TurnOK
<1>6. \A x \in Made' : x.id[2] = 1 => x.kind = "text"
  BY <1>1, <1>2, <1>3 DEF TurnOK
<1>7. /\ turn'.phase = "running" => OfKind(Made, "completed")' = {}
      /\ turn'.phase # "running" => OfKind(Made, "completed")' # {}
      /\ \A x \in OfKind(Made, "completed")' : x.id[2] = turn'.made
      /\ turn'.phase # "over"
  BY <1>1, <1>2, <1>4 DEF OfKind
<1>8. \A q \in Permissions : asks'[q] \in {"pending", "denied", "answered"} =>
        \E x \in OfKind(Made, "requested")' : x.about = q
  BY <1>1 DEF TurnOK, OfKind
<1>9. \A x \in OfKind(Made, "resolved")' : x.about \in Permissions /\ asks'[x.about] = "over"
  BY <1>1 DEF TurnOK, OfKind
<1> QED BY <1>2, <1>5, <1>6, <1>7, <1>8, <1>9 DEF TurnOK

\* No event is made, and what is asked goes on.
LEMMA TurnGoesOn ==
    ASSUME TurnOK, UNCHANGED <<turn, Made>>,
           \A q \in Permissions :
             /\ asks[q] = "over" => asks'[q] = "over"
             /\ asks'[q] \in {"pending", "denied", "answered"} =>
                  asks[q] \in {"pending", "denied", "answered"},
           turn.phase = "over" => sending' = Idle,
           sending' # Idle => emitted' # <<>> /\ sending'.event = emitted'[Len(emitted')]
    PROVE  TurnOK'
<1>1. \A k : OfKind(Made, k)' = OfKind(Made, k)
  BY DEF OfKind
<1> QED BY <1>1 DEF TurnOK

\* The first event that was made is emitted.
LEMMA EmitMade ==
    ASSUME ServerOK, Emit
    PROVE  /\ Made' = Made /\ Head(made) \in Range(made) /\ Head(made) \in Event
           /\ Head(made).id = <<turn.number, Len(emitted) + 1>>
           /\ emitted' = Append(emitted, Head(made)) /\ emitted' # <<>>
           /\ emitted'[Len(emitted')] = Head(made) /\ Len(emitted') = Len(emitted) + 1
           /\ Range(emitted') = Range(emitted) \cup {Head(made)}
           /\ Range(made) = Range(made') \cup {Head(made)}
           /\ UNCHANGED turn
<1> DEFINE e == Head(made)
<1>1. /\ made \in Seq(Event) /\ made # <<>> /\ emitted \in Seq(Event) /\ e \in Event
      /\ made' = Tail(made) /\ emitted' = Append(emitted, e)
      /\ UNCHANGED turn
      /\ Len(made) \in Nat /\ Len(emitted) \in Nat /\ Len(made) > 0
      /\ DOMAIN made = 1 .. Len(made)
  BY DEF Emit, ServerOK, ServerType
<1>2. /\ DOMAIN made' = 1 .. (Len(made) - 1)
      /\ \A i \in DOMAIN made' : made'[i] = made[i + 1] /\ i + 1 \in DOMAIN made
      /\ e = made[1] /\ 1 \in DOMAIN made
      /\ \A i \in DOMAIN made : i = 1 \/ (i - 1 \in DOMAIN made' /\ (i - 1) + 1 = i)
  BY <1>1
<1>3. /\ DOMAIN emitted' = 1 .. (Len(emitted) + 1) /\ Len(emitted') = Len(emitted) + 1
      /\ \A i \in DOMAIN emitted : emitted'[i] = emitted[i]
      /\ emitted'[Len(emitted) + 1] = e
      /\ DOMAIN emitted = 1 .. Len(emitted)
  BY <1>1
<1>4. e.id = <<turn.number, Len(emitted) + 1>>
  BY <1>2 DEF ServerOK, Numbers
<1> HIDE DEF e
<1>5. Range(emitted') = Range(emitted) \cup {e}
  BY <1>1, <1>3 DEF Range
<1>6. Range(made) = Range(made') \cup {e}
  <2>1. \A i \in DOMAIN made : made[i] = e \/ made[i] \in Range(made')
    <3> SUFFICES ASSUME NEW i \in DOMAIN made, i # 1 PROVE made[i] \in Range(made')
      BY <1>2
    <3>1. i - 1 \in DOMAIN made' /\ made'[i - 1] = made[i]
      BY <1>2
    <3> QED BY <3>1 DEF Range
  <2>2. \A i \in DOMAIN made' : made'[i] \in Range(made)
    BY <1>2 DEF Range
  <2> QED BY <1>2, <2>1, <2>2 DEF Range
<1>7. Made' = Made
  BY <1>5, <1>6 DEF Made
<1>8. emitted' # <<>>
  BY <1>1, <1>3
<1> QED BY <1>1, <1>3, <1>4, <1>5, <1>6, <1>7, <1>8 DEF e

\* Every turn is told from its first text to its completion.
THEOREM TurnsAreTold == Spec => []TurnOK
<1> USE DEF server, net, ui, ghosts
<1>1. Init => TurnOK
  BY DEF Init, TurnOK, Made, OfKind, Range, Idle
<1>2. ServerOK /\ TurnOK /\ [Next]_vars => TurnOK'
  <2> SUFFICES ASSUME ServerOK, TurnOK, [Next]_vars PROVE TurnOK'
    OBVIOUS
  <2>t. /\ turn \in [number : Nat, phase : {"running", "ending", "over"},
                     texts : Nat, made : Nat]
        /\ asks \in [Permissions -> AskStates]
    BY DEF ServerOK, ServerType
  <2>1. ASSUME Prompt PROVE TurnOK'
    <3>1. /\ turn' = [number |-> turn.number + 1, phase |-> "running", texts |-> 0, made |-> 0]
          /\ emitted' = <<>> /\ made' = <<>> /\ UNCHANGED <<asks, sending>>
          /\ turn.phase = "over"
          /\ \A p \in Permissions : asks[p] \in {"none", "over"}
      BY <2>1 DEF Prompt, ServerOK, Numbers
    <3>2. Made' = {} /\ turn.number \in Nat /\ sending = Idle
      BY <2>t, <3>1 DEF Made, Range, TurnOK
    <3>3. \A k : OfKind(Made, k)' = {}
      BY <3>2 DEF OfKind
    <3> QED BY <3>1, <3>2, <3>3 DEF TurnOK
  <2>2. ASSUME Say PROVE TurnOK'
    <3> DEFINE changed == [turn EXCEPT !.texts = @ + 1]
    <3>1. /\ changed \in [number : Nat, phase : {"running", "ending", "over"},
                          texts : Nat, made : Nat]
          /\ changed.number = turn.number /\ changed.made = turn.made
          /\ changed.phase = turn.phase /\ changed.texts > 0
      BY <2>t
    <3>2. /\ turn.phase = "running" /\ Make(changed, "text", "none")
          /\ UNCHANGED <<emitted, asks, sending>>
      BY <2>2 DEF Say
    <3> HIDE DEF changed
    <3> QED BY <2>t, <3>1, <3>2, TurnMakes
  <2>3. ASSUME NEW p \in Permissions, Ask(p) PROVE TurnOK'
    <3>1. /\ turn.phase = "running" /\ Make(turn, "requested", p) /\ turn.texts > 0
          /\ UNCHANGED <<emitted, sending>>
          /\ asks[p] = "none" /\ asks' = [asks EXCEPT ![p] = "pending"]
      BY <2>3 DEF Ask
    <3>2. \A q \in Permissions : /\ asks[q] = "over" => asks'[q] = "over"
                                 /\ asks'[q] # asks[q] => p = q
      BY <2>t, <3>1 DEF AskStates
    <3> QED BY <2>t, <3>1, <3>2, TurnMakes
  <2>4. ASSUME NEW p \in Permissions, AskReturns(p) PROVE TurnOK'
    <3>1. /\ Make(turn, "resolved", p) /\ UNCHANGED <<emitted, sending>>
          /\ asks[p] \in {"answered", "denied"} /\ asks' = [asks EXCEPT ![p] = "over"]
      BY <2>4 DEF AskReturns
    <3>2. turn.phase = "running" /\ turn.texts > 0
      <4>1. turn.phase = "running"
        BY <3>1 DEF ServerOK, Numbers
      <4>2. PICK e \in Made : e.about = p
        BY <3>1 DEF TurnOK, OfKind
      <4> QED BY <4>1, <4>2, <2>t, NumbersOfMade DEF TurnOK
    <3>3. \A q \in Permissions : /\ asks[q] = "over" => asks'[q] = "over"
                                 /\ asks'[q] \in {"pending", "denied", "answered"} => asks'[q] = asks[q]
      BY <2>t, <3>1 DEF AskStates
    <3>4. asks'[p] = "over"
      BY <2>t, <3>1
    <3> QED BY <2>t, <3>1, <3>2, <3>3, <3>4, TurnMakes
  <2>5. ASSUME Stop PROVE TurnOK'
    <3>1. UNCHANGED <<turn, made, emitted, sending>> /\ asks' = Denied(Permissions)
      BY <2>5 DEF Stop
    <3>2. Made' = Made
      BY <3>1 DEF Made
    <3>3. \A q \in Permissions :
            /\ asks[q] = "over" => asks'[q] = "over"
            /\ asks'[q] \in {"pending", "denied", "answered"} =>
                  asks[q] \in {"pending", "denied", "answered"}
      BY <3>1 DEF Denied
    <3> QED BY <3>1, <3>2, <3>3, TurnGoesOn DEF TurnOK
  <2>6. ASSUME Complete PROVE TurnOK'
    <3> DEFINE changed == [turn EXCEPT !.phase = "ending"]
    <3>1. /\ changed \in [number : Nat, phase : {"running", "ending", "over"},
                          texts : Nat, made : Nat]
          /\ changed.number = turn.number /\ changed.made = turn.made
          /\ changed.phase = "ending" /\ changed.texts = turn.texts
      BY <2>t
    <3>2. /\ turn.phase = "running" /\ Make(changed, "completed", "none") /\ turn.texts > 0
          /\ UNCHANGED <<emitted, asks, sending>>
      BY <2>6 DEF Complete
    <3> HIDE DEF changed
    <3> QED BY <2>t, <3>1, <3>2, TurnMakes
  <2>7. ASSUME TurnOver PROVE TurnOK'
    <3>1. /\ turn' = [turn EXCEPT !.phase = "over"] /\ turn.phase = "ending" /\ sending = Idle
          /\ UNCHANGED <<made, emitted, asks, sending>>
      BY <2>7 DEF TurnOver
    <3>2. /\ turn'.number = turn.number /\ turn'.made = turn.made /\ turn'.texts = turn.texts
          /\ turn'.phase = "over"
      BY <2>t, <3>1
    <3>3. Made' = Made /\ \A k : OfKind(Made, k)' = OfKind(Made, k)
      BY <3>1 DEF Made, OfKind
    <3> QED BY <3>1, <3>2, <3>3 DEF TurnOK
  <2>8. ASSUME Emit PROVE TurnOK'
    <3>1. /\ sending = Idle /\ made # <<>>
          /\ sending' = Idle \/ sending'.event = Head(made)
          /\ asks' = asks \/ \E ps : asks' = Denied(ps)
      BY <2>8 DEF Emit, Undeliverable
    <3>2. turn.phase # "over"
      BY <3>1 DEF ServerOK, Numbers
    <3>3. \A q \in Permissions :
            /\ asks[q] = "over" => asks'[q] = "over"
            /\ asks'[q] \in {"pending", "denied", "answered"} =>
                  asks[q] \in {"pending", "denied", "answered"}
      BY <3>1 DEF Denied
    <3> HIDE DEF Denied
    <3> QED BY <2>8, <3>1, <3>2, <3>3, EmitMade, TurnGoesOn
  <2>9. ASSUME EmitReturns PROVE TurnOK'
    <3>1. /\ UNCHANGED <<turn, made, emitted>> /\ sending' = Idle
          /\ asks' = asks \/ \E ps : asks' = Denied(ps)
      BY <2>9 DEF EmitReturns, Undeliverable
    <3>2. Made' = Made
      BY <3>1 DEF Made
    <3>3. \A q \in Permissions :
            /\ asks[q] = "over" => asks'[q] = "over"
            /\ asks'[q] \in {"pending", "denied", "answered"} =>
                  asks[q] \in {"pending", "denied", "answered"}
      BY <3>1 DEF Denied
    <3> QED BY <3>1, <3>2, <3>3, TurnGoesOn
  <2>10. ASSUME NEW c \in Sockets, Disconnect(c) PROVE TurnOK'
    <3>1. /\ UNCHANGED <<turn, made, emitted, sending>>
          /\ asks' = asks \/ \E ps : asks' = Denied(ps)
      BY <2>10 DEF Disconnect
    <3>2. Made' = Made
      BY <3>1 DEF Made
    <3>3. \A q \in Permissions :
            /\ asks[q] = "over" => asks'[q] = "over"
            /\ asks'[q] \in {"pending", "denied", "answered"} =>
                  asks[q] \in {"pending", "denied", "answered"}
      BY <3>1 DEF Denied
    <3> QED BY <3>1, <3>2, <3>3, TurnGoesOn DEF TurnOK
  <2>11. ASSUME NEW p \in Permissions, Respond(p) PROVE TurnOK'
    <3>1. /\ UNCHANGED <<turn, made, emitted, sending>>
          /\ asks' = [asks EXCEPT ![p] = "answered"] /\ asks[p] = "pending"
      BY <2>11 DEF Respond
    <3>2. Made' = Made
      BY <3>1 DEF Made
    <3>3. \A q \in Permissions :
            /\ asks[q] = "over" => asks'[q] = "over"
            /\ asks'[q] \in {"pending", "denied", "answered"} =>
                  asks[q] \in {"pending", "denied", "answered"}
      BY <2>t, <3>1
    <3> QED BY <3>1, <3>2, <3>3, TurnGoesOn DEF TurnOK
  <2>12. ASSUME NEW c \in Sockets, Send(c) \/ SendTimesOut(c) PROVE TurnOK'
    <3>1. UNCHANGED <<turn, made, emitted, asks>> /\ \E ok : Sent(c, ok) /\ c \in sending.to
      BY <2>12 DEF Send, SendTimesOut
    <3>2. Made' = Made
      BY <3>1 DEF Made
    <3>3. sending # Idle
      BY <3>1 DEF Idle
    <3>4. sending'.event = sending.event /\ turn.phase # "over"
      BY <3>1, <3>3 DEF Sent, TurnOK
    <3> QED BY <3>1, <3>2, <3>3, <3>4, TurnGoesOn DEF TurnOK
  <2>13. ASSUME UNCHANGED <<turn, made, emitted, sending, asks>> PROVE TurnOK'
    <3>1. Made' = Made
      BY <2>13 DEF Made
    <3> QED BY <2>13, <3>1, TurnGoesOn DEF TurnOK
  <2>14. ASSUME (\E c \in Sockets : Break(c)) \/ Connect \/ Show \/ Failure \/ UNCHANGED vars
         PROVE  UNCHANGED <<turn, made, emitted, sending, asks>>
    BY <2>14 DEF Break, Connect, Show, Failure, Noticed, Receive, LoadAnswered, ReadHistory, Loaded,
       Answer, Recover, LoadFails, RecoverFails, vars
  <2> QED
    BY <2>1, <2>2, <2>3, <2>4, <2>5, <2>6, <2>7, <2>8, <2>9, <2>10, <2>11,
       <2>12, <2>13, <2>14
    DEF Next, Turns, Returns, Deliver, Trouble, Decide
<1> QED BY <1>1, <1>2, ServerCorrect, PTL DEF Spec

-----------------------------------------------------------------------------
(* Events in order, and what a page has of them *)

Before(x, y) == x.turn < y.turn \/ (x.turn = y.turn /\ x.id[2] < y.id[2])
Sorted(es)   == \A i, j \in DOMAIN es : i < j => Before(es[i], es[j])

Pages == [seen : SUBSET (Nat \X Nat), story : Seq(Event), dialogs : SUBSET Event,
          over : SUBSET Nat, busy : BOOLEAN, active : Nat]

\* Story, seen, over and dialogs of a page agree.
Agrees(pg) ==
    /\ pg \in Pages
    /\ \A x \in Range(pg.story) : IsStory(x) /\ x.id \in pg.seen
    /\ \A x \in Range(pg.story) : x.kind = "completed" => x.turn \in pg.over
    /\ \A t \in pg.over : \E x \in Range(pg.story) : x.kind = "completed" /\ x.turn = t
    /\ \A d \in pg.dialogs : d.kind = "requested" /\ d.turn \notin pg.over

InTurn(x, y)   == x.turn = y.turn /\ x.id[2] < y.id[2]
Settles(r, d)  == r.kind = "resolved" /\ r.about = d.about
TurnsSorted(s) == \A i, j \in DOMAIN s : i < j => s[i].turn <= s[j].turn
InStoryOrder(s) ==
    \A i, j \in DOMAIN s : i < j /\ s[i].turn = s[j].turn => s[i].id[2] < s[j].id[2]

\* An event the page has, or that comes after all it shows of the event's turn.
Fresh(pg, e) == e.id \in pg.seen \/ \A y \in Range(pg.story) : y.turn = e.turn => InTurn(y, e)

Tells(S, t) == \E x \in S : x.turn = t

\* The page knows which turn it shows, and whether that turn runs.
KnowsActive(pg, t) ==
    TurnsSorted(pg.story) /\ Tells(Range(pg.story), t) /\ t \notin pg.over => pg.active = t
KnowsBusy(pg, t) ==
    TurnsSorted(pg.story) /\ Tells(Range(pg.story), t) => (pg.busy <=> t \notin pg.over)

\* The end of turn t is not the first a page hears of it.
NotEndFirst(pg, P, t) ==
    \A c \in P : c.kind = "completed" /\ c.turn = t /\ c.id \notin pg.seen =>
        \/ Tells(Range(pg.story), t)
        \/ \E x \in P : IsStory(x) /\ x.id \notin pg.seen /\ InTurn(x, c)

\* What page pg becomes by event e, part by part.
Becomes(pg, e, new) ==
    /\ e.id \in pg.seen => new = pg
    /\ new \in Pages
    /\ new.seen = pg.seen \cup {e.id}
    /\ e.id \notin pg.seen =>
         /\ IsStory(e) => new.story = Append(pg.story, e)
         /\ ~ IsStory(e) => new.story = pg.story
         /\ e.kind = "completed" =>
              /\ new.over = pg.over \cup {e.turn} /\ new.active = pg.active
              /\ new.dialogs = {d \in pg.dialogs : d.turn # e.turn}
              /\ new.busy <=> (pg.busy /\ pg.active # e.turn)
         /\ e.kind # "completed" => new.over = pg.over
         /\ e.kind = "text" =>
              /\ new.dialogs = pg.dialogs
              /\ new.active = IF e.turn \in pg.over THEN pg.active ELSE e.turn
              /\ new.busy <=> (pg.busy \/ e.turn \notin pg.over)
         /\ e.kind \in {"requested", "resolved"} =>
              new.active = pg.active /\ new.busy = pg.busy
         /\ e.kind = "requested" =>
              new.dialogs = IF e.turn \in pg.over THEN pg.dialogs ELSE pg.dialogs \cup {e}
         /\ e.kind = "resolved" => new.dialogs = {d \in pg.dialogs : d.about # e.about}

\* What page pg has become, out, by applying the events P, which come in order.
Applied(pg, out, P) ==
    /\ Agrees(out)
    /\ out.seen = pg.seen \cup {e.id : e \in P}
    /\ Range(pg.story) \subseteq Range(out.story)
    /\ \A x \in Range(out.story) : x \in Range(pg.story) \/ (x \in P /\ x.id \notin pg.seen)
    /\ \A e \in P : IsStory(e) /\ e.id \notin pg.seen => e \in Range(out.story)
    /\ InStoryOrder(pg.story) /\ (\A e \in P : IsStory(e) => Fresh(pg, e))
         => InStoryOrder(out.story)
    /\ \A d \in out.dialogs : d \in pg.dialogs \/ (d \in P /\ d.id \notin pg.seen)
    /\ \A d \in pg.dialogs :
         d.turn \notin out.over /\ (\A r \in P : ~ Settles(r, d)) => d \in out.dialogs
    /\ \A d \in P : /\ d.kind = "requested" /\ d.id \notin pg.seen /\ d.turn \notin out.over
                    /\ \A r \in P : ~ Settles(r, d)
                    => d \in out.dialogs
    /\ \A r \in P, d \in out.dialogs :
         Settles(r, d) /\ r.id \notin pg.seen => d \in P /\ Before(r, d)
    /\ TurnsSorted(out.story) => TurnsSorted(pg.story)
    /\ \A t \in Nat : (\A e \in P : e.turn <= t) /\ KnowsActive(pg, t) =>
         /\ KnowsActive(out, t)
         /\ KnowsBusy(pg, t) /\ NotEndFirst(pg, P, t) => KnowsBusy(out, t)

-----------------------------------------------------------------------------
(* Induction along a sequence.  A set of positions that holds the first and,  *)
(* with every position, the next one holds them all: what it lacks would have *)
(* a least member.                                                            *)

\* A set of positions has a least one.
LEMMA LeastPosition ==
    ASSUME NEW T, T \subseteq Nat, T # {}
    PROVE  \E x \in T : \A y \in T : x <= y
<1> DEFINE R == OpToRel(<, Nat)
<1>1. IsWellFoundedOn(R, Nat)
  BY NatLessThanWellFounded
<1>2. \A x, y \in Nat : x < y => <<x, y>> \in R
  BY SMT DEF OpToRel
<1> HIDE DEF R
<1>3. PICK x \in T : \A y \in T : ~ (<<y, x>> \in R)
  BY <1>1, WFMin
<1>4. \A y \in T : ~ (y < x)
  BY <1>2, <1>3
<1>5. \A y \in T : x <= y
  BY <1>4
<1> QED BY <1>5

\* From a position to the next one, all the way.
LEMMA AlongPositions ==
    ASSUME NEW n \in Nat, NEW S, 0 \in S, \A i \in 1..n : i - 1 \in S => i \in S
    PROVE  n \in S
<1> DEFINE T == (0..n) \ S
<1>1. SUFFICES ASSUME T # {} PROVE FALSE
  OBVIOUS
<1>2. T \subseteq Nat
  OBVIOUS
<1>3. PICK x \in T : \A y \in T : x <= y
  <2> HIDE DEF T
  <2> QED BY <1>1, <1>2, LeastPosition
<1>4. x # 0 /\ x \in 1..n /\ x - 1 \in 0..n
  BY <1>3
<1>5. x - 1 \in S
  BY <1>3, <1>4
<1> QED
  BY <1>3, <1>4, <1>5

\* Only as a recursive function that exists.
LEMMA OnlyFunction ==
    ASSUME NEW X, NEW es \in Seq(X), NEW S
    PROVE  \E f : /\ f = [i \in 0..Len(es) |->
                            IF i = 0 THEN <<>>
                            ELSE IF es[i] \in S THEN Append(f[i - 1], es[i]) ELSE f[i - 1]]
                  /\ Only(es, S) = f[Len(es)]
<1> DEFINE n == Len(es)
           Longer(f, i) == IF es[i] \in S THEN Append(f[i - 1], es[i]) ELSE f[i - 1]
           IsUpTo(f, k) == f = [i \in 0..k |-> IF i = 0 THEN <<>> ELSE Longer(f, i)]
           Good == {k \in 0..n : \E f : IsUpTo(f, k)}
<1>1. n \in Nat
  OBVIOUS
<1>2. 0 \in Good
  <2>1. IsUpTo([i \in 0..0 |-> <<>>], 0)
    OBVIOUS
  <2>2. \E f : IsUpTo(f, 0)
    BY <2>1
  <2> QED BY <1>1, <2>2
<1>3. ASSUME NEW k \in 1..n, k - 1 \in Good PROVE k \in Good
  <2>1. PICK f : IsUpTo(f, k - 1)
    BY <1>3
  <2> DEFINE g == [i \in 0..k |-> IF i = k THEN Longer(f, k) ELSE f[i]]
  <2>2. \A i \in 0..k : g[i] = IF i = 0 THEN <<>> ELSE Longer(g, i)
    <3> SUFFICES ASSUME NEW i \in 0..k PROVE g[i] = IF i = 0 THEN <<>> ELSE Longer(g, i)
      OBVIOUS
    <3>1. CASE i = k
      <4>1. i # 0 /\ k - 1 # k /\ k - 1 \in 0..k
        BY <1>1, <3>1
      <4>2. g[k - 1] = f[k - 1] /\ g[k] = Longer(f, k)
        BY <4>1
      <4> HIDE DEF g
      <4> QED BY <3>1, <4>1, <4>2
    <3>2. CASE i # k
      <4>1. i \in 0..(k - 1) /\ g[i] = f[i]
        BY <3>2
      <4>2. f[i] = IF i = 0 THEN <<>> ELSE Longer(f, i)
        BY <4>1, <2>1
      <4>3. i # 0 => i - 1 # k /\ i - 1 \in 0..k
        BY <4>1
      <4>4. i # 0 => g[i - 1] = f[i - 1]
        BY <4>3
      <4> HIDE DEF g
      <4> QED BY <4>1, <4>2, <4>4
    <3> QED BY <3>1, <3>2
  <2>3. IsUpTo(g, k)
    BY <2>2
  <2>4. \E h : IsUpTo(h, k)
    <3> HIDE DEF g, IsUpTo
    <3> QED BY <2>3
  <2> HIDE DEF IsUpTo
  <2> QED BY <1>1, <2>4
<1>4. n \in Good
  <2> HIDE DEF Good
  <2> QED BY <1>1, <1>2, <1>3, AlongPositions
<1> DEFINE h == CHOOSE f : IsUpTo(f, n)
<1>5. IsUpTo(h, n)
  BY <1>4
<1>6. Only(es, S) = h[n]
  BY DEF Only
<1> HIDE DEF h
<1> QED BY <1>5, <1>6

\* Only keeps what is in the set, in its order.
LEMMA OnlyKeeps ==
    ASSUME NEW es \in Seq(Event), NEW S
    PROVE  /\ Only(es, S) \in Seq(Event)
           /\ Range(Only(es, S)) = Range(es) \cap S
           /\ Sorted(es) => Sorted(Only(es, S))
<1> DEFINE n == Len(es)
           First(i) == {es[j] : j \in 1..i}
<1>1. PICK f : /\ f = [i \in 0..n |-> IF i = 0 THEN <<>>
                                      ELSE IF es[i] \in S THEN Append(f[i - 1], es[i]) ELSE f[i - 1]]
               /\ Only(es, S) = f[n]
  BY OnlyFunction
<1>2. n \in Nat /\ Range(es) = First(n) /\ \A i \in 1..n : es[i] \in Event
  BY DEF Range
<1> DEFINE Good == {i \in 0..n : /\ f[i] \in Seq(Event)
                                 /\ Range(f[i]) = First(i) \cap S
                                 /\ Sorted(es) => Sorted(f[i])}
<1>3. 0 \in Good
  BY <1>1, <1>2 DEF Range, Sorted
<1>4. ASSUME NEW i \in 1..n, i - 1 \in Good PROVE i \in Good
  <2> DEFINE s == f[i - 1]
  <2>1. f[i] = IF es[i] \in S THEN Append(s, es[i]) ELSE s
    <3>1. i \in 0..n /\ i # 0
      BY <1>2
    <3> HIDE DEF Good, n, First
    <3> QED BY <1>1, <3>1
  <2>2. s \in Seq(Event) /\ Range(s) = First(i - 1) \cap S /\ (Sorted(es) => Sorted(s))
    BY <1>4
  <2>3. First(i) = First(i - 1) \cup {es[i]} /\ i \in 0..n /\ es[i] \in Event
    BY <1>2
  <2>4. Sorted(es) => \A x \in First(i - 1) : Before(x, es[i])
    BY <1>2 DEF Sorted
  <2> HIDE DEF s, First
  <2>5. CASE es[i] \in S
    <3> DEFINE r == Append(s, es[i])
    <3>1. /\ r \in Seq(Event) /\ DOMAIN r = 1..(Len(s) + 1) /\ Len(s) \in Nat
          /\ DOMAIN s = 1..Len(s) /\ r[Len(s) + 1] = es[i]
          /\ \A j \in DOMAIN s : r[j] = s[j]
      BY <2>2, <2>3
    <3> HIDE DEF r
    <3>2. Range(r) = Range(s) \cup {es[i]}
      BY <3>1 DEF Range
    <3>3. ASSUME Sorted(es) PROVE Sorted(r)
      <4> SUFFICES ASSUME NEW j \in DOMAIN r, NEW k \in DOMAIN r, j < k
                   PROVE  Before(r[j], r[k])
        BY DEF Sorted
      <4>1. CASE k \in DOMAIN s
        BY <2>2, <3>1, <3>3, <4>1 DEF Sorted
      <4>2. CASE k = Len(s) + 1
        <5>1. j \in DOMAIN s /\ s[j] \in First(i - 1)
          BY <2>2, <3>1, <4>2 DEF Range
        <5> QED BY <2>4, <3>1, <3>3, <4>2, <5>1
      <4> QED BY <3>1, <4>1, <4>2
    <3>4. f[i] = r
      BY <2>1, <2>5 DEF r
    <3>5. Range(r) = First(i) \cap S
      BY <2>2, <2>3, <2>5, <3>2
    <3> QED BY <2>3, <3>1, <3>3, <3>4, <3>5
  <2>6. CASE es[i] \notin S
    <3>1. f[i] = s /\ Range(s) = First(i) \cap S
      BY <2>1, <2>2, <2>3, <2>6
    <3> QED BY <2>2, <2>3, <3>1
  <2> QED BY <2>5, <2>6
<1>5. n \in Good
  <2> HIDE DEF Good, n
  <2> QED BY <1>2, <1>3, <1>4, AlongPositions
<1> QED BY <1>1, <1>2, <1>5

-----------------------------------------------------------------------------
(* What applying events makes of a page *)

\* applyLiveEvent, part by part.
LEMMA ApplyFields ==
    ASSUME NEW pg \in Pages, NEW e \in Event
    PROVE  Becomes(pg, e, ApplyEvent(pg, e))
<1> DEFINE new == ApplyEvent(pg, e)
<1>n. new = ApplyEvent(pg, e)
  OBVIOUS
<1> HIDE DEF new
<1> SUFFICES Becomes(pg, e, new)
  BY <1>n
<1>1. CASE e.id \in pg.seen
  <2>1. new = pg
    BY <1>1, <1>n DEF ApplyEvent, Seen
  <2> QED BY <1>1, <2>1 DEF Pages, Becomes
<1>2. CASE e.id \notin pg.seen
  <2> DEFINE seen == [pg EXCEPT !.seen = @ \cup {e.id}]
  <2>1. /\ e.id \in Nat \X Nat /\ e.turn \in Nat
        /\ e.kind \in {"text", "requested", "resolved", "completed"}
    BY DEF Event
  <2>2. /\ seen \in Pages /\ seen.seen = pg.seen \cup {e.id} /\ seen.story = pg.story
        /\ seen.dialogs = pg.dialogs /\ seen.over = pg.over /\ seen.busy = pg.busy
        /\ seen.active = pg.active
    BY <2>1 DEF Pages
  <2> HIDE DEF seen
  <2>3. CASE e.kind = "requested"
    <3>1. new = IF e.turn \in pg.over THEN seen ELSE [seen EXCEPT !.dialogs = @ \cup {e}]
      BY <1>2, <1>n, <2>3 DEF ApplyEvent, Seen, seen
    <3> QED BY <1>2, <2>1, <2>2, <2>3, <3>1 DEF Pages, IsStory, Becomes
  <2>4. CASE e.kind = "resolved"
    <3>1. new = [seen EXCEPT !.dialogs = {d \in @ : d.about # e.about}]
      BY <1>2, <1>n, <2>4 DEF ApplyEvent, Seen, seen
    <3> QED BY <1>2, <2>1, <2>2, <2>4, <3>1 DEF Pages, IsStory, Becomes
  <2>5. CASE e.kind = "completed"
    <3>1. new = [seen EXCEPT !.story = Append(@, e), !.over = @ \cup {e.turn},
                             !.dialogs = {d \in @ : d.turn # e.turn},
                             !.busy = @ /\ pg.active # e.turn]
      BY <1>2, <1>n, <2>5 DEF ApplyEvent, Seen, seen
    <3> DEFINE busy == seen.busy /\ pg.active # e.turn
    <3>2. busy \in BOOLEAN /\ (busy <=> (pg.busy /\ pg.active # e.turn))
      BY <2>2
    <3>3. new = [seen EXCEPT !.story = Append(@, e), !.over = @ \cup {e.turn},
                             !.dialogs = {d \in @ : d.turn # e.turn}, !.busy = busy]
      BY <2>2, <3>1 DEF Pages
    <3> HIDE DEF busy
    <3>4. new.busy = busy
      BY <2>2, <3>3 DEF Pages
    <3>5. new.busy <=> (pg.busy /\ pg.active # e.turn)
      BY <3>2, <3>4
    <3>6. /\ new \in Pages /\ new.seen = pg.seen \cup {e.id}
          /\ new.story = Append(pg.story, e) /\ new.over = pg.over \cup {e.turn}
          /\ new.active = pg.active /\ new.dialogs = {d \in pg.dialogs : d.turn # e.turn}
      <4> DEFINE story == Append(pg.story, e)
                 over == pg.over \cup {e.turn}
                 dialogs == {d \in pg.dialogs : d.turn # e.turn}
      <4>1. story \in Seq(Event) /\ over \in SUBSET Nat /\ dialogs \in SUBSET Event
        BY <2>1 DEF Pages
      <4>2. new = [seen EXCEPT !.story = story, !.over = over, !.dialogs = dialogs, !.busy = busy]
        BY <2>2, <3>3
      <4> HIDE DEF story, over, dialogs
      <4>3. /\ new \in Pages /\ new.seen = pg.seen \cup {e.id}
            /\ new.story = story /\ new.over = over
            /\ new.active = pg.active /\ new.dialogs = dialogs
        BY <2>2, <3>2, <4>1, <4>2 DEF Pages
      <4> QED BY <4>3 DEF story, over, dialogs
    <3> QED BY <1>2, <2>5, <3>5, <3>6 DEF IsStory, Becomes
  <2>6. CASE e.kind = "text"
    <3>1. new = [seen EXCEPT !.story = Append(@, e),
                             !.active = IF e.turn \in pg.over THEN @ ELSE e.turn,
                             !.busy = @ \/ e.turn \notin pg.over]
      BY <1>2, <1>n, <2>6 DEF ApplyEvent, Seen, seen
    <3> DEFINE busy == seen.busy \/ e.turn \notin pg.over
               active == IF e.turn \in pg.over THEN pg.active ELSE e.turn
    <3>2. busy \in BOOLEAN /\ (busy <=> (pg.busy \/ e.turn \notin pg.over)) /\ active \in Nat
      BY <2>1, <2>2 DEF Pages
    <3>3. new = [seen EXCEPT !.story = Append(@, e), !.active = active, !.busy = busy]
      BY <2>2, <3>1 DEF Pages
    <3>4. active = IF e.turn \in pg.over THEN pg.active ELSE e.turn
      OBVIOUS
    <3> HIDE DEF busy, active
    <3>5. new.busy = busy /\ new.active = active
      BY <2>2, <3>3 DEF Pages
    <3>6. new.busy <=> (pg.busy \/ e.turn \notin pg.over)
      BY <3>2, <3>5
    <3>7. /\ new \in Pages /\ new.seen = pg.seen \cup {e.id}
          /\ new.story = Append(pg.story, e) /\ new.over = pg.over
          /\ new.dialogs = pg.dialogs
      <4> DEFINE story == Append(pg.story, e)
      <4>1. story \in Seq(Event)
        BY DEF Pages
      <4>2. new = [seen EXCEPT !.story = story, !.active = active, !.busy = busy]
        BY <2>2, <3>3
      <4> HIDE DEF story
      <4>3. /\ new \in Pages /\ new.seen = pg.seen \cup {e.id}
            /\ new.story = story /\ new.over = pg.over /\ new.dialogs = pg.dialogs
        BY <2>2, <3>2, <4>1, <4>2 DEF Pages
      <4> QED BY <4>3 DEF story
    <3> QED BY <1>2, <2>6, <3>4, <3>5, <3>6, <3>7 DEF IsStory, Becomes
  <2> QED BY <2>1, <2>3, <2>4, <2>5, <2>6
<1> QED BY <1>1, <1>2

\* A story with one event more.
LEMMA LongerStory ==
    ASSUME NEW s \in Seq(Event), NEW e \in Event, NEW r, r = Append(s, e)
    PROVE  /\ r \in Seq(Event) /\ Range(r) = Range(s) \cup {e}
           /\ InStoryOrder(s) /\ (\A y \in Range(s) : y.turn = e.turn => InTurn(y, e))
                => InStoryOrder(r)
           /\ TurnsSorted(r) => TurnsSorted(s) /\ \A y \in Range(s) : y.turn <= e.turn
<1>1. /\ r \in Seq(Event) /\ DOMAIN r = 1..(Len(s) + 1) /\ Len(s) \in Nat
      /\ DOMAIN s = 1..Len(s) /\ r[Len(s) + 1] = e
      /\ \A j \in DOMAIN s : r[j] = s[j]
  OBVIOUS
<1> HIDE DEF Event
<1>2. Range(r) = Range(s) \cup {e}
  BY <1>1 DEF Range
<1>3. ASSUME InStoryOrder(s), \A y \in Range(s) : y.turn = e.turn => InTurn(y, e)
      PROVE  InStoryOrder(r)
  <2> SUFFICES ASSUME NEW j \in DOMAIN r, NEW k \in DOMAIN r, j < k, r[j].turn = r[k].turn
               PROVE  r[j].id[2] < r[k].id[2]
    BY DEF InStoryOrder
  <2>1. CASE k \in DOMAIN s
    BY <1>1, <1>3, <2>1 DEF InStoryOrder
  <2>2. CASE k = Len(s) + 1
    BY <1>1, <1>3, <2>2 DEF Range, InTurn
  <2> QED BY <1>1, <2>1, <2>2
<1>4. ASSUME TurnsSorted(r) PROVE TurnsSorted(s) /\ \A y \in Range(s) : y.turn <= e.turn
  BY <1>1, <1>4 DEF TurnsSorted, Range
<1> QED BY <1>1, <1>2, <1>3, <1>4

\* Nothing is applied.
LEMMA AppliedNone ==
    ASSUME NEW pg, Agrees(pg)
    PROVE  Applied(pg, pg, {})
BY DEF Applied, NotEndFirst

\* One event more.
LEMMA AppliedOne ==
    ASSUME NEW pg, NEW out, NEW P, Agrees(pg), Applied(pg, out, P),
           P \subseteq Event, NEW e \in Event, e.id[1] = e.turn,
           \A x \in P : x.id[1] = x.turn /\ Before(x, e)
    PROVE  Applied(pg, ApplyEvent(out, e), P \cup {e})
<1> DEFINE new == ApplyEvent(out, e)
           Q == P \cup {e}
<1>1. /\ out \in Pages /\ pg \in Pages /\ Agrees(out)
      /\ out.seen = pg.seen \cup {x.id : x \in P}
  BY DEF Applied, Agrees
<1>2. /\ e.turn \in Nat /\ e.id[2] \in Nat /\ e.id \in Nat \X Nat
      /\ e.kind \in {"text", "requested", "resolved", "completed"}
      /\ \A x \in P : /\ x.turn \in Nat /\ x.id[2] \in Nat /\ x.turn <= e.turn
                      /\ x.id # e.id /\ ~ Before(e, x) /\ x # e
                      /\ x.turn = e.turn => InTurn(x, e)
  <2>1. \A x \in Event : x.turn \in Nat /\ x.id \in Nat \X Nat /\ x.id[2] \in Nat
    BY DEF Event
  <2> QED BY <2>1 DEF Before, InTurn, Event
<1>n. new = ApplyEvent(out, e)
  OBVIOUS
<1> HIDE DEF new
<1>3. Becomes(out, e, new)
  BY <1>1, <1>n, ApplyFields
<1> USE DEF Becomes
<1>4. e.id \in out.seen <=> e.id \in pg.seen
  BY <1>1, <1>2
<1>5. new.seen = pg.seen \cup {x.id : x \in Q}
  BY <1>1, <1>3
<1>6. CASE e.id \in pg.seen
  <2>1. new = out
    BY <1>3, <1>4, <1>6
  <2>2. \A t \in Nat : NotEndFirst(pg, Q, t) => NotEndFirst(pg, P, t)
    BY <1>2, <1>6 DEF NotEndFirst
  <2> HIDE DEF Agrees, KnowsActive, KnowsBusy, TurnsSorted, InStoryOrder, Fresh, IsStory
  <2>3. Applied(pg, out, Q)
    BY <1>5, <1>6, <2>1, <2>2 DEF Applied
  <2> QED BY <1>n, <2>1, <2>3
<1>7. CASE e.id \notin pg.seen
  <2>s. out.story \in Seq(Event) /\ out.over \subseteq Nat /\ out.busy \in BOOLEAN
    BY <1>1 DEF Pages
  <2>1. /\ Range(new.story) = IF IsStory(e) THEN Range(out.story) \cup {e} ELSE Range(out.story)
        /\ TurnsSorted(new.story) => TurnsSorted(out.story)
        /\ IsStory(e) /\ TurnsSorted(new.story) => \A y \in Range(out.story) : y.turn <= e.turn
        /\ InStoryOrder(out.story)
           /\ (IsStory(e) => \A y \in Range(out.story) : y.turn = e.turn => InTurn(y, e))
             => InStoryOrder(new.story)
    <3>1. CASE IsStory(e)
      <4>1. new.story = Append(out.story, e)
        BY <1>3, <1>4, <1>7, <3>1
      <4> QED BY <2>s, <3>1, <4>1, LongerStory
    <3>2. CASE ~ IsStory(e)
      <4>1. new.story = out.story
        BY <1>3, <1>4, <1>7, <3>2
      <4> QED BY <3>2, <4>1
    <3> QED BY <3>1, <3>2
  <2>2. /\ out.over \subseteq new.over
        /\ new.over = IF e.kind = "completed" THEN out.over \cup {e.turn} ELSE out.over
    BY <1>3, <1>4, <1>7
  <2>3. /\ new.dialogs \subseteq out.dialogs \cup {e}
        /\ e \in new.dialogs \ out.dialogs => e.kind = "requested" /\ e.turn \notin new.over
    BY <1>2, <1>3, <1>4, <1>7
  <2>4. \A d \in new.dialogs : d.kind = "requested" /\ d.turn \notin new.over
    <3>1. \A d \in out.dialogs : d.kind = "requested" /\ d.turn \notin out.over
      BY <1>1 DEF Agrees
    <3>2. e.kind = "completed" => \A d \in new.dialogs : d.turn # e.turn
      BY <1>3, <1>4, <1>7
    <3> QED BY <2>2, <2>3, <3>1, <3>2
  <2>5. Agrees(new)
    <3>1. \A x \in Range(new.story) : IsStory(x) /\ x.id \in new.seen
      BY <1>1, <1>3, <2>1 DEF Agrees
    <3>2. \A x \in Range(new.story) : x.kind = "completed" => x.turn \in new.over
      BY <1>1, <2>1, <2>2 DEF Agrees
    <3>3. \A t \in new.over : \E x \in Range(new.story) : x.kind = "completed" /\ x.turn = t
      BY <1>1, <2>1, <2>2 DEF Agrees, IsStory
    <3> QED BY <1>3, <2>4, <3>1, <3>2, <3>3 DEF Agrees
  <2>6. /\ Range(pg.story) \subseteq Range(new.story)
        /\ \A x \in Range(new.story) : x \in Range(pg.story) \/ (x \in Q /\ x.id \notin pg.seen)
        /\ \A x \in Q : IsStory(x) /\ x.id \notin pg.seen => x \in Range(new.story)
    BY <1>7, <2>1 DEF Applied
  <2>7. ASSUME InStoryOrder(pg.story), \A x \in Q : IsStory(x) => Fresh(pg, x)
        PROVE  InStoryOrder(new.story)
    <3>1. InStoryOrder(out.story)
      BY <2>7 DEF Applied
    <3>2. ASSUME IsStory(e), NEW y \in Range(out.story), y.turn = e.turn
          PROVE  InTurn(y, e)
      <4>1. CASE y \in Range(pg.story)
        BY <1>7, <2>7, <3>2, <4>1 DEF Fresh
      <4>2. CASE y \in P
        BY <1>2, <3>2, <4>2
      <4> QED BY <4>1, <4>2 DEF Applied
    <3> QED BY <2>1, <3>1, <3>2
  <2>8. \A d \in new.dialogs : d \in pg.dialogs \/ (d \in Q /\ d.id \notin pg.seen)
    BY <1>7, <2>3 DEF Applied
  <2>9. ASSUME NEW d \in out.dialogs, d.turn \notin new.over, ~ Settles(e, d)
        PROVE  d \in new.dialogs
    BY <1>2, <1>3, <1>4, <1>7, <2>2, <2>9 DEF Settles
  <2>10. \A d \in pg.dialogs :
           d.turn \notin new.over /\ (\A r \in Q : ~ Settles(r, d)) => d \in new.dialogs
    BY <2>2, <2>9 DEF Applied
  <2>11. \A d \in Q : /\ d.kind = "requested" /\ d.id \notin pg.seen /\ d.turn \notin new.over
                      /\ \A r \in Q : ~ Settles(r, d)
                      => d \in new.dialogs
    <3>1. e.kind = "requested" /\ e.turn \notin new.over => e \in new.dialogs
      BY <1>3, <1>4, <1>7, <2>2
    <3>2. \A d \in P : /\ d.kind = "requested" /\ d.id \notin pg.seen /\ d.turn \notin out.over
                       /\ \A r \in P : ~ Settles(r, d)
                       => d \in out.dialogs
      BY DEF Applied
    <3> QED BY <2>2, <2>9, <3>1, <3>2
  <2>12. \A r \in Q, d \in new.dialogs :
           Settles(r, d) /\ r.id \notin pg.seen => d \in Q /\ Before(r, d)
    <3> SUFFICES ASSUME NEW r \in Q, NEW d \in new.dialogs, Settles(r, d), r.id \notin pg.seen
                 PROVE  d \in Q /\ Before(r, d)
      OBVIOUS
    <3>1. CASE r = e
      <4>1. new.dialogs = {b \in out.dialogs : b.about # e.about}
        BY <1>3, <1>4, <1>7, <3>1 DEF Settles
      <4> QED BY <3>1, <4>1 DEF Settles
    <3>2. CASE r # e
      <4>1. r \in P
        BY <3>2
      <4>2. CASE d \in out.dialogs
        BY <4>1, <4>2 DEF Applied
      <4>3. CASE d = e
        BY <4>1, <4>3
      <4> QED BY <2>3, <4>2, <4>3
    <3> QED BY <3>1, <3>2
  <2>13. TurnsSorted(new.story) => TurnsSorted(pg.story)
    BY <2>1 DEF Applied
  <2>14. ASSUME NEW t \in Nat, \A x \in Q : x.turn <= t, KnowsActive(pg, t)
         PROVE  /\ KnowsActive(new, t)
                /\ KnowsBusy(pg, t) /\ NotEndFirst(pg, Q, t) => KnowsBusy(new, t)
    <3>1. KnowsActive(out, t)
      BY <2>14 DEF Applied
    <3>2. \A u \in out.over : Tells(Range(out.story), u)
      BY <1>1 DEF Agrees, Tells
    <3>3. e.turn <= t
      BY <2>14
    <3>4. ASSUME IsStory(e), TurnsSorted(new.story), Tells(Range(new.story), t)
          PROVE  e.turn = t
      <4>1. PICK x \in Range(new.story) : x.turn = t
        BY <3>4 DEF Tells
      <4> QED BY <1>2, <2>1, <3>3, <3>4, <4>1
    <3>5. KnowsActive(new, t)
      <4> SUFFICES ASSUME TurnsSorted(new.story), Tells(Range(new.story), t), t \notin new.over
                   PROVE  new.active = t
        BY DEF KnowsActive
      <4>1. CASE IsStory(e)
        <5>1. e.turn = t /\ e.kind = "text"
          BY <2>2, <3>4, <4>1 DEF IsStory
        <5> QED BY <1>3, <1>4, <1>7, <2>2, <5>1
      <4>2. CASE ~ IsStory(e)
        <5>1. new.active = out.active
          BY <1>2, <1>3, <1>4, <1>7, <4>2 DEF IsStory
        <5> QED BY <2>1, <2>2, <3>1, <4>2, <5>1 DEF KnowsActive
      <4> QED BY <4>1, <4>2
    <3>6. ASSUME KnowsBusy(pg, t), NotEndFirst(pg, Q, t) PROVE KnowsBusy(new, t)
      <4>1. NotEndFirst(pg, P, t)
        BY <1>2, <3>6 DEF NotEndFirst, InTurn, Before
      <4>2. KnowsBusy(out, t)
        <5>1. \A x \in P : x.turn <= t
          BY <2>14
        <5> QED BY <2>14, <3>6, <4>1, <5>1 DEF Applied
      <4> SUFFICES ASSUME TurnsSorted(new.story), Tells(Range(new.story), t)
                   PROVE  new.busy <=> t \notin new.over
        BY DEF KnowsBusy
      <4>3. TurnsSorted(out.story)
        BY <2>1
      <4>4. CASE e.kind = "text"
        <5>1. e.turn = t /\ new.over = out.over
          BY <2>2, <3>4, <4>4 DEF IsStory
        <5>2. new.busy <=> (out.busy \/ t \notin out.over)
          BY <1>3, <1>4, <1>7, <4>4, <5>1
        <5>3. t \in out.over => ~ out.busy
          BY <3>2, <4>2, <4>3 DEF KnowsBusy
        <5> QED BY <5>1, <5>2, <5>3
      <4>5. CASE e.kind = "completed"
        <5>1. e.turn = t
          BY <3>4, <4>5 DEF IsStory
        <5>2. Tells(Range(out.story), t)
          <6>1. CASE Tells(Range(pg.story), t)
            BY <6>1 DEF Applied, Tells
          <6>2. CASE \E x \in Q : IsStory(x) /\ x.id \notin pg.seen /\ InTurn(x, e)
            <7>1. PICK x \in Q : IsStory(x) /\ x.id \notin pg.seen /\ InTurn(x, e)
              BY <6>2
            <7>2. x \in P
              BY <1>2, <7>1 DEF InTurn
            <7> QED BY <5>1, <7>1, <7>2 DEF Applied, Tells, InTurn
          <6> QED BY <1>7, <3>6, <4>5, <5>1, <6>1, <6>2 DEF NotEndFirst
        <5>3. /\ out.busy <=> t \notin out.over
              /\ t \notin out.over => out.active = t
          BY <3>1, <4>2, <4>3, <5>2 DEF KnowsBusy, KnowsActive
        <5>4. new.busy <=> (out.busy /\ out.active # t)
          BY <1>3, <1>4, <1>7, <4>5, <5>1
        <5>5. t \in new.over
          BY <2>2, <4>5, <5>1
        <5> QED BY <5>3, <5>4, <5>5
      <4>6. CASE e.kind \notin {"text", "completed"}
        <5>1. new.busy = out.busy /\ new.over = out.over /\ Range(new.story) = Range(out.story)
          BY <1>2, <1>3, <1>4, <1>7, <2>1, <2>2, <4>6 DEF IsStory
        <5> QED BY <4>2, <4>3, <5>1 DEF KnowsBusy
      <4> QED BY <4>4, <4>5, <4>6
    <3> QED BY <3>5, <3>6
  <2> HIDE DEF Agrees, KnowsActive, KnowsBusy, TurnsSorted, InStoryOrder, Fresh, IsStory,
               Settles, Before, NotEndFirst
  <2>15. Applied(pg, new, Q)
    BY <1>5, <2>5, <2>6, <2>7, <2>8, <2>10, <2>11, <2>12, <2>13, <2>14 DEF Applied
  <2> QED BY <1>n, <2>15
<1> QED BY <1>6, <1>7

\* ApplyAll as a recursive function that exists.
LEMMA ApplyFunction ==
    ASSUME NEW X, NEW es \in Seq(X), NEW pg
    PROVE  \E f : /\ f = [i \in 0..Len(es) |-> IF i = 0 THEN pg ELSE ApplyEvent(f[i - 1], es[i])]
                  /\ ApplyAll(pg, es) = f[Len(es)]
<1> DEFINE n == Len(es)
           IsUpTo(f, k) == f = [i \in 0..k |-> IF i = 0 THEN pg ELSE ApplyEvent(f[i - 1], es[i])]
           Good == {k \in 0..n : \E f : IsUpTo(f, k)}
<1>1. n \in Nat
  OBVIOUS
<1>2. 0 \in Good
  <2>1. IsUpTo([i \in 0..0 |-> pg], 0)
    OBVIOUS
  <2>2. \E f : IsUpTo(f, 0)
    BY <2>1
  <2> QED BY <1>1, <2>2
<1>3. ASSUME NEW k \in 1..n, k - 1 \in Good PROVE k \in Good
  <2>1. PICK f : IsUpTo(f, k - 1)
    BY <1>3
  <2> DEFINE g == [i \in 0..k |-> IF i = k THEN ApplyEvent(f[k - 1], es[k]) ELSE f[i]]
  <2>2. \A i \in 0..k : g[i] = IF i = 0 THEN pg ELSE ApplyEvent(g[i - 1], es[i])
    <3> SUFFICES ASSUME NEW i \in 0..k
                 PROVE  g[i] = IF i = 0 THEN pg ELSE ApplyEvent(g[i - 1], es[i])
      OBVIOUS
    <3>1. CASE i = k
      <4>1. i # 0 /\ k - 1 # k /\ k - 1 \in 0..k
        BY <1>1, <3>1
      <4>2. g[k - 1] = f[k - 1] /\ g[k] = ApplyEvent(f[k - 1], es[k])
        BY <4>1
      <4> HIDE DEF g
      <4> QED BY <3>1, <4>1, <4>2
    <3>2. CASE i # k
      <4>1. i \in 0..(k - 1) /\ g[i] = f[i]
        BY <3>2
      <4>2. f[i] = IF i = 0 THEN pg ELSE ApplyEvent(f[i - 1], es[i])
        BY <4>1, <2>1
      <4>3. i # 0 => i - 1 # k /\ i - 1 \in 0..k
        BY <4>1
      <4>4. i # 0 => g[i - 1] = f[i - 1]
        BY <4>3
      <4> HIDE DEF g
      <4> QED BY <4>1, <4>2, <4>4
    <3> QED BY <3>1, <3>2
  <2>3. IsUpTo(g, k)
    BY <2>2
  <2>4. \E h : IsUpTo(h, k)
    <3> HIDE DEF g, IsUpTo
    <3> QED BY <2>3
  <2> HIDE DEF IsUpTo
  <2> QED BY <1>1, <2>4
<1>4. n \in Good
  <2> HIDE DEF Good
  <2> QED BY <1>1, <1>2, <1>3, AlongPositions
<1> DEFINE h == CHOOSE f : IsUpTo(f, n)
<1>5. IsUpTo(h, n)
  BY <1>4
<1>6. ApplyAll(pg, es) = h[n]
  BY DEF ApplyAll
<1> HIDE DEF h
<1> QED BY <1>5, <1>6

\* The events of a sequence in order, one after the other.
LEMMA AppliedAll ==
    ASSUME NEW pg, Agrees(pg), NEW es \in Seq(Event), Sorted(es),
           \A x \in Range(es) : x.id[1] = x.turn
    PROVE  Applied(pg, ApplyAll(pg, es), Range(es))
<1> DEFINE n == Len(es)
           First(i) == {es[j] : j \in 1..i}
<1>1. PICK f : /\ f = [i \in 0..n |-> IF i = 0 THEN pg ELSE ApplyEvent(f[i - 1], es[i])]
               /\ ApplyAll(pg, es) = f[n]
  BY ApplyFunction
<1>2. /\ n \in Nat /\ Range(es) = First(n)
      /\ \A i \in 1..n : es[i] \in Event /\ es[i].id[1] = es[i].turn
  BY DEF Range
<1> DEFINE Good == {i \in 0..n : Applied(pg, f[i], First(i))}
<1>3. 0 \in Good
  <2>1. First(0) = {} /\ f[0] = pg /\ 0 \in 0..n
    BY <1>1, <1>2
  <2> HIDE DEF First
  <2> QED BY <2>1, AppliedNone
<1>4. ASSUME NEW i \in 1..n, i - 1 \in Good PROVE i \in Good
  <2>1. f[i] = ApplyEvent(f[i - 1], es[i])
    <3>1. i \in 0..n /\ i # 0
      BY <1>2
    <3> HIDE DEF Good, n, First
    <3> QED BY <1>1, <3>1
  <2>2. /\ First(i) = First(i - 1) \cup {es[i]} /\ i \in 0..n
        /\ First(i - 1) \subseteq Event /\ es[i] \in Event /\ es[i].id[1] = es[i].turn
    BY <1>2
  <2>3. \A x \in First(i - 1) : x.id[1] = x.turn /\ Before(x, es[i])
    BY <1>2 DEF Sorted
  <2>4. Applied(pg, f[i - 1], First(i - 1))
    BY <1>4
  <2> HIDE DEF First
  <2>5. Applied(pg, ApplyEvent(f[i - 1], es[i]), First(i - 1) \cup {es[i]})
    BY <2>2, <2>3, <2>4, AppliedOne
  <2> QED BY <2>1, <2>2, <2>5
<1>5. n \in Good
  <2> HIDE DEF Good, n
  <2> QED BY <1>2, <1>3, <1>4, AlongPositions
<1> QED BY <1>1, <1>2, <1>5

-----------------------------------------------------------------------------
(* What the page is told *)

\* What the page can be told of: the turn, its events so far, and who waits.
World == [cur |-> turn.number, told |-> Range(emitted), asks |-> asks]

Waits(w, p)   == w.asks[p] \in {"pending", "denied", "answered"}
Matters(e, w) == e.kind # "requested" \/ Waits(w, e.about)

Answers == [events : Seq(Event), covered : SUBSET (Nat \X Nat), running : BOOLEAN]

\* An answer tells what matters of the turn so far, in its order.
LEMMA SnapshotTells ==
    ASSUME ServerOK, TurnOK
    PROVE  /\ Snapshot \in Answers /\ Snapshot # None
           /\ Sorted(Snapshot.events)
           /\ Range(Snapshot.events) = {e \in World.told : Matters(e, World)}
           /\ Snapshot.covered = {turn.number} \X (1..Len(emitted))
           /\ Snapshot.running <=> turn.phase # "over" /\ OfKind(Range(emitted), "completed") = {}
<1> DEFINE S == {e \in Range(emitted) : e.kind # "requested" \/ Pending(e.about)}
           shown == Only(emitted, S)
           running == turn.phase # "over"
                        /\ \A i \in DOMAIN emitted : emitted[i].kind # "completed"
<1>1. /\ emitted \in Seq(Event) /\ DOMAIN emitted = 1..Len(emitted) /\ Len(emitted) \in Nat
      /\ turn.number \in Nat
      /\ \A i \in DOMAIN emitted : emitted[i].id = <<turn.number, i>> /\ emitted[i].turn = turn.number
  BY DEF ServerOK, ServerType, Numbers, TurnOK, Made, Range
<1>2. Sorted(emitted)
  BY <1>1 DEF Sorted, Before
<1>3. shown \in Seq(Event) /\ Range(shown) = Range(emitted) \cap S /\ Sorted(shown)
  <2> HIDE DEF S
  <2> QED BY <1>1, <1>2, OnlyKeeps
<1>4. Covered(shown) = {turn.number} \X (1..Len(emitted))
  <2>1. Ids(emitted) = {<<turn.number, i>> : i \in 1..Len(emitted)}
    BY <1>1 DEF Ids
  <2> QED BY <2>1 DEF Covered
<1>5. Snapshot = [events |-> shown, covered |-> Covered(shown), running |-> running]
  BY DEF Snapshot
<1>6. running \in BOOLEAN
  OBVIOUS
<1>7. running <=> turn.phase # "over" /\ OfKind(Range(emitted), "completed") = {}
  BY DEF OfKind, Range
<1>8. Range(shown) = {e \in World.told : Matters(e, World)}
  BY <1>3 DEF Matters, Waits, World, Pending
<1> HIDE DEF shown, running
<1>9. /\ Snapshot.events = shown /\ Snapshot.covered = {turn.number} \X (1..Len(emitted))
      /\ Snapshot.running = running
  BY <1>4, <1>5
<1>10. Snapshot \in Answers
  <2>1. Covered(shown) \in SUBSET (Nat \X Nat)
    BY <1>1, <1>4
  <2> HIDE DEF Covered
  <2> QED BY <1>3, <1>5, <1>6, <2>1 DEF Answers
<1>11. Snapshot # None
  <2>1. <<0, 0>> \notin Snapshot.covered
    BY <1>9
  <2>2. <<0, 0>> \in None.covered
    BY DEF None
  <2> QED BY <2>1, <2>2
<1> QED BY <1>3, <1>7, <1>8, <1>9, <1>10, <1>11

\* The page uses the last connection, opens the session on the first one, and
\* recovers on the later ones.
NetOK ==
    /\ opened \in 1..MaxConnections /\ socket \in {0, opened}
    /\ registered \subseteq 1..opened /\ shut \subseteq 1..opened /\ alive \subseteq registered
    /\ wire \in [Sockets -> Seq(Event)] /\ \A c \in Sockets : c > opened => wire[c] = <<>>
    /\ sending \in [event : Event \cup {NoEvent}, to : SUBSET (1..opened), ok : BOOLEAN]
    /\ sending # Idle => sending.event \in Event
    /\ load \in [at : {"asked", "answered", "done"}, queue : Seq(Event), answer : Answers]
    /\ recovery \in [running : BOOLEAN, answer : Answers, buffer : Seq(Event),
                     covered : SUBSET (Nat \X Nat), crossed : BOOLEAN]
    /\ load.at # "done" => opened = 1 /\ socket = 1
    /\ load.at = "done" => load.queue = <<>>
    /\ load.at = "answered" => load.answer # None
    /\ load.at # "answered" => load.answer = None
    /\ recovery.running => socket # 0 /\ opened > 1
    /\ ~ recovery.running => recovery.answer = None /\ recovery.buffer = <<>>
    /\ ~ recovery.crossed

\* Nothing changes of what the page is told through.
LEMMA NetStays ==
    ASSUME NetOK, UNCHANGED <<opened, socket, registered, shut, alive, wire, sending, load, recovery>>
    PROVE  NetOK'
BY DEF NetOK

\* A send takes a connection off the list, and may shut it.
LEMMA NetSends ==
    ASSUME NetOK, NEW c \in Sockets, NEW ok \in BOOLEAN, c \in sending.to, Sent(c, ok),
           shut' = shut \/ shut' = shut \cup {c}, OnWire(c) \/ wire' = wire,
           UNCHANGED <<opened, socket, registered, alive, load, recovery>>
    PROVE  NetOK'
<1>1. /\ sending # Idle /\ sending.event \in Event /\ c \in 1..opened
      /\ sending \in [event : Event \cup {NoEvent}, to : SUBSET (1..opened), ok : BOOLEAN]
  BY DEF NetOK, Idle
<1> DEFINE good == sending.ok \/ ok
<1>2. good \in BOOLEAN /\ sending' = [sending EXCEPT !.to = @ \ {c}, !.ok = good]
  BY <1>1 DEF Sent
<1> HIDE DEF good
<1>3. /\ sending' \in [event : Event \cup {NoEvent}, to : SUBSET (1..opened), ok : BOOLEAN]
      /\ sending'.event \in Event
  BY <1>1, <1>2
<1>4. shut' \subseteq 1..opened
  BY <1>1 DEF NetOK
<1>5. /\ wire' \in [Sockets -> Seq(Event)]
      /\ \A d \in Sockets : d > opened => wire'[d] = <<>>
  <2>1. CASE OnWire(c)
    <3>1. wire \in [Sockets -> Seq(Event)] /\ opened \in Nat
      BY DEF NetOK
    <3>2. Append(wire[c], sending.event) \in Seq(Event)
      BY <1>1, <3>1
    <3>3. \A d \in Sockets : d > opened => d # c
      BY <1>1, <3>1
    <3> HIDE DEF Sockets, Event
    <3> QED BY <2>1, <3>1, <3>2, <3>3 DEF OnWire, NetOK
  <2>2. CASE wire' = wire
    BY <2>2 DEF NetOK
  <2> QED BY <2>1, <2>2
<1> QED BY <1>3, <1>4, <1>5 DEF NetOK

\* The page has one connection, registered while it works; it opens the session
\* on the first and recovers on the others, one request at a time.
THEOREM NetCorrect == Spec => []NetOK
<1> USE DEF server, net, ui, ghosts
<1>1. Init => NetOK
  <2> SUFFICES ASSUME Init PROVE NetOK
    OBVIOUS
  <2>1. None \in Answers /\ <<>> \in Seq(Event)
    BY DEF None, Answers
  <2>2. 1 \in 1..MaxConnections /\ MaxConnections \in Nat
    BY BoundsAssumption
  <2>3. /\ opened = 1 /\ registered = {1} /\ shut = {} /\ alive = {1}
        /\ wire = [c \in Sockets |-> <<>>] /\ socket = 1 /\ sending = Idle
        /\ recovery = [running |-> FALSE, answer |-> None, buffer |-> <<>>, covered |-> {}, crossed |-> FALSE]
        /\ load = [at |-> "asked", queue |-> <<>>, answer |-> None]
    BY DEF Init
  <2>4. sending \in [event : Event \cup {NoEvent}, to : SUBSET (1..opened), ok : BOOLEAN]
    BY <2>3 DEF Idle
  <2>5. wire \in [Sockets -> Seq(Event)] /\ \A c \in Sockets : wire[c] = <<>>
    BY <2>1, <2>3
  <2> HIDE DEF Answers, None, Event
  <2>6. /\ load \in [at : {"asked", "answered", "done"}, queue : Seq(Event), answer : Answers]
        /\ recovery \in [running : BOOLEAN, answer : Answers, buffer : Seq(Event),
                         covered : SUBSET (Nat \X Nat), crossed : BOOLEAN]
    BY <2>1, <2>3
  <2> QED BY <2>2, <2>3, <2>4, <2>5, <2>6 DEF NetOK
<1>2. ServerOK /\ TurnOK /\ NetOK /\ [Next]_vars => NetOK'
  <2> SUFFICES ASSUME ServerOK, TurnOK, NetOK, [Next]_vars PROVE NetOK'
    OBVIOUS
  <2>n. /\ None \in Answers /\ <<>> \in Seq(Event)
        /\ opened \in Nat /\ MaxConnections \in Nat /\ opened >= 1
        /\ wire \in [Sockets -> Seq(Event)]
        /\ load \in [at : {"asked", "answered", "done"}, queue : Seq(Event), answer : Answers]
        /\ recovery \in [running : BOOLEAN, answer : Answers, buffer : Seq(Event),
                         covered : SUBSET (Nat \X Nat), crossed : BOOLEAN]
    BY BoundsAssumption DEF NetOK, None, Answers
  <2>s. Snapshot \in Answers /\ Snapshot # None
    BY SnapshotTells
  <2> HIDE DEF Answers, None, Event, Snapshot
  <2>1. ASSUME UNCHANGED <<net, socket, sending, load, recovery>> PROVE NetOK'
    BY <2>1, NetStays
  <2>2. ASSUME Emit PROVE NetOK'
    <3>1. Head(made) \in Event
      BY <2>2, EmitMade
    <3>2. /\ UNCHANGED <<net, socket, load, recovery>>
          /\ sending' = sending \/ sending' = [event |-> Head(made), to |-> registered, ok |-> FALSE]
      BY <2>2 DEF Emit
    <3>3. registered \in SUBSET (1..opened)
      BY DEF NetOK
    <3>4. CASE sending' = sending
      BY <3>2, <3>4, NetStays
    <3>5. CASE sending' = [event |-> Head(made), to |-> registered, ok |-> FALSE]
      <4>1. /\ sending' \in [event : Event \cup {NoEvent}, to : SUBSET (1..opened), ok : BOOLEAN]
            /\ sending'.event \in Event
        BY <3>1, <3>3, <3>5
      <4> QED BY <3>2, <4>1 DEF NetOK
    <3> QED BY <3>2, <3>4, <3>5
  <2>3. ASSUME EmitReturns PROVE NetOK'
    <3>1. UNCHANGED <<net, socket, load, recovery>> /\ sending' = Idle
      BY <2>3 DEF EmitReturns
    <3>2. sending' \in [event : Event \cup {NoEvent}, to : SUBSET (1..opened), ok : BOOLEAN]
      BY <3>1 DEF Idle
    <3> QED BY <3>1, <3>2 DEF NetOK
  <2>4. ASSUME NEW c \in Sockets, Send(c) \/ SendTimesOut(c) PROVE NetOK'
    <3>1. /\ c \in sending.to /\ \E ok \in BOOLEAN : Sent(c, ok)
          /\ shut' = shut \/ shut' = shut \cup {c}
          /\ OnWire(c) \/ wire' = wire
          /\ UNCHANGED <<opened, socket, registered, alive, load, recovery>>
      BY <2>4 DEF Send, SendTimesOut
    <3> QED BY <3>1, NetSends
  <2>5. ASSUME NEW c \in Sockets, Disconnect(c) PROVE NetOK'
    BY <2>5 DEF Disconnect, NetOK
  <2>6. ASSUME NEW c \in Sockets, Break(c) PROVE NetOK'
    <3>1. /\ alive' = alive \ {c} /\ UNCHANGED <<sending, opened, registered, shut, socket, load, recovery>>
          /\ c \in alive
          /\ \E n \in 0..Len(wire[c]) : wire' = [wire EXCEPT ![c] = SubSeq(@, 1, n)]
      BY <2>6 DEF Break
    <3>2. PICK n \in 0..Len(wire[c]) : wire' = [wire EXCEPT ![c] = SubSeq(@, 1, n)]
      BY <3>1
    <3>3. SubSeq(wire[c], 1, n) \in Seq(Event) /\ c <= opened
      <4>1. wire[c] \in Seq(Event) /\ Len(wire[c]) \in Nat
        BY <2>n
      <4> QED BY <3>1, <4>1 DEF NetOK
    <3>4. wire' \in [Sockets -> Seq(Event)] /\ \A d \in Sockets : d > opened => wire'[d] = <<>>
      BY <2>n, <3>2, <3>3 DEF NetOK
    <3> QED BY <3>1, <3>4 DEF NetOK
  <2>7. ASSUME Connect PROVE NetOK'
    <3>1. /\ opened' = opened + 1 /\ socket' = opened + 1 /\ opened < MaxConnections /\ socket = 0
          /\ registered' = registered \cup {opened + 1} /\ alive' = alive \cup {opened + 1}
          /\ recovery' = [recovery EXCEPT !.running = TRUE]
          /\ UNCHANGED <<sending, shut, wire, load>>
      BY <2>7 DEF Connect
    <3>2. /\ recovery' \in [running : BOOLEAN, answer : Answers, buffer : Seq(Event),
                            covered : SUBSET (Nat \X Nat), crossed : BOOLEAN]
          /\ recovery'.running /\ ~ recovery'.crossed
      BY <2>n, <3>1 DEF NetOK
    <3>3. 1..opened \subseteq 1..(opened + 1) /\ opened + 1 \in 1..(opened + 1)
          /\ opened + 1 \in 1..MaxConnections /\ opened + 1 > 1
      BY <2>n, <3>1
    <3>4. sending \in [event : Event \cup {NoEvent}, to : SUBSET (1..(opened + 1)), ok : BOOLEAN]
      BY <3>3 DEF NetOK
    <3>5. \A c \in Sockets : c > opened + 1 => c > opened
      BY <2>n DEF Sockets
    <3>6. load.at = "done"
      BY <2>n, <3>1 DEF NetOK
    <3>7. /\ opened' \in 1..MaxConnections /\ socket' \in {0, opened'} /\ socket' # 0 /\ opened' > 1
          /\ registered' \subseteq 1..opened' /\ shut' \subseteq 1..opened' /\ alive' \subseteq registered'
      BY <3>1, <3>3 DEF NetOK
    <3>8. sending' \in [event : Event \cup {NoEvent}, to : SUBSET (1..opened'), ok : BOOLEAN]
      BY <3>1, <3>4
    <3>9. \A c \in Sockets : c > opened' => wire'[c] = <<>>
      BY <3>1, <3>5 DEF NetOK
    <3> HIDE DEF Sockets
    <3> QED BY <3>1, <3>2, <3>6, <3>7, <3>8, <3>9 DEF NetOK
  <2>8. ASSUME Receive PROVE NetOK'
    <3> DEFINE e == Head(wire[socket])
    <3>1. /\ socket # 0 /\ wire[socket] # <<>> /\ wire' = [wire EXCEPT ![socket] = Tail(@)]
          /\ UNCHANGED <<sending, opened, registered, shut, alive, socket>>
          /\ \/ recovery.running /\ recovery' = [recovery EXCEPT !.buffer = Append(@, e)] /\ UNCHANGED load
             \/ ~ recovery.running /\ recovery' = recovery /\ Handle(page, load, <<e>>)
      BY <2>8 DEF Receive
    <3>2. socket \in Sockets /\ socket = opened
      BY <2>n, <3>1 DEF NetOK, Sockets
    <3>3. e \in Event /\ Tail(wire[socket]) \in Seq(Event)
      BY <2>n, <3>1, <3>2
    <3> HIDE DEF e, Sockets
    <3>4. wire' \in [Sockets -> Seq(Event)] /\ \A c \in Sockets : c > opened => wire'[c] = <<>>
      BY <2>n, <3>1, <3>2, <3>3 DEF NetOK
    <3>5. CASE recovery.running /\ recovery' = [recovery EXCEPT !.buffer = Append(@, e)] /\ load' = load
      <4>1. Append(recovery.buffer, e) \in Seq(Event)
        BY <2>n, <3>3
      <4>2. /\ recovery' \in [running : BOOLEAN, answer : Answers, buffer : Seq(Event),
                              covered : SUBSET (Nat \X Nat), crossed : BOOLEAN]
            /\ recovery'.running /\ recovery'.answer = recovery.answer
            /\ recovery'.crossed = recovery.crossed
        BY <2>n, <3>5, <4>1
      <4> QED BY <3>1, <3>4, <3>5, <4>2 DEF NetOK
    <3>6. CASE ~ recovery.running /\ recovery' = recovery /\ Handle(page, load, <<e>>)
      <4>1. load' = IF load.at = "done" THEN load ELSE [load EXCEPT !.queue = @ \o <<e>>]
        BY <3>6 DEF Handle
      <4>2. load.queue \o <<e>> \in Seq(Event)
        BY <2>n, <3>3
      <4>3. /\ load' \in [at : {"asked", "answered", "done"}, queue : Seq(Event), answer : Answers]
            /\ load'.at = load.at /\ load'.answer = load.answer
            /\ load.at = "done" => load' = load
        BY <2>n, <4>1, <4>2
      <4> QED BY <3>1, <3>4, <3>6, <4>3 DEF NetOK
    <3> QED BY <3>1, <3>5, <3>6
  <2>9. ASSUME Answer PROVE NetOK'
    <3>1. /\ recovery' = [recovery EXCEPT !.answer = Snapshot] /\ recovery.running
          /\ UNCHANGED <<sending, net, socket, load>>
      BY <2>9 DEF Answer
    <3>2. /\ recovery' \in [running : BOOLEAN, answer : Answers, buffer : Seq(Event),
                            covered : SUBSET (Nat \X Nat), crossed : BOOLEAN]
          /\ recovery'.running /\ recovery'.crossed = recovery.crossed
      BY <2>n, <2>s, <3>1
    <3> QED BY <3>1, <3>2 DEF NetOK
  <2>10. ASSUME NEW covered \in SUBSET (Nat \X Nat), NEW pg, NEW opening,
                Resume(pg, opening, covered), recovery.running,
                opening = load, UNCHANGED <<sending, net>>, socket' \in {0, socket}
         PROVE  NetOK'
    <3>1. recovery' = [running |-> FALSE, answer |-> None, buffer |-> <<>>, covered |-> covered,
                       crossed |-> FALSE]
      BY <2>10 DEF Resume
    <3>2. load.at = "done"
      BY <2>10 DEF NetOK
    <3>3. load' = load
      BY <2>10, <3>2 DEF Resume, Handle
    <3>4. /\ recovery' \in [running : BOOLEAN, answer : Answers, buffer : Seq(Event),
                            covered : SUBSET (Nat \X Nat), crossed : BOOLEAN]
          /\ ~ recovery'.running /\ ~ recovery'.crossed /\ recovery'.answer = None
          /\ recovery'.buffer = <<>>
      BY <2>n, <2>10, <3>1
    <3> QED BY <2>10, <3>2, <3>3, <3>4 DEF NetOK
  <2>11. ASSUME Recover PROVE NetOK'
    <3>1. /\ recovery.running /\ UNCHANGED <<sending, net, socket>>
          /\ \E pg : Resume(pg, IF load.at = "done" THEN load
                                ELSE [load EXCEPT !.queue = @ \o recovery.answer.events],
                            recovery.answer.covered)
      BY <2>11 DEF Recover
    <3>2. load.at = "done" /\ recovery.answer.covered \in SUBSET (Nat \X Nat)
      BY <2>n, <3>1 DEF NetOK, Answers
    <3> QED BY <2>10, <3>1, <3>2
  <2>12. ASSUME RecoverFails PROVE NetOK'
    BY <2>n, <2>10, <2>12 DEF RecoverFails
  <2>13. ASSUME load' = [at |-> "done", queue |-> <<>>, answer |-> None],
                ~ recovery.running, recovery' = recovery \/ recovery' = [recovery EXCEPT !.crossed = @ \/ recovery.running],
                UNCHANGED <<sending, net>>, socket' \in {0, socket}
         PROVE  NetOK'
    <3>1. recovery' = recovery
      <4>1. recovery.crossed = FALSE /\ recovery.running = FALSE
        BY <2>n, <2>13 DEF NetOK
      <4>2. [recovery EXCEPT !.crossed = @ \/ recovery.running] = [recovery EXCEPT !.crossed = FALSE]
        BY <2>n, <4>1
      <4> QED BY <2>n, <2>13, <4>1, <4>2
    <3>2. /\ load' \in [at : {"asked", "answered", "done"}, queue : Seq(Event), answer : Answers]
          /\ load'.at = "done" /\ load'.queue = <<>> /\ load'.answer = None
      BY <2>n, <2>13
    <3> QED BY <2>13, <3>1, <3>2 DEF NetOK
  <2>14. ASSUME Noticed PROVE NetOK'
    <3>1. UNCHANGED <<sending, net>> /\ socket' = 0 /\ Abort
      BY <2>14 DEF Noticed
    <3>2. CASE recovery.running
      <4>1. NotOpened = load
        BY <3>2 DEF NotOpened, NetOK
      <4>2. recovery.covered \in SUBSET (Nat \X Nat)
        BY <2>n
      <4> QED BY <2>10, <3>1, <3>2, <4>1, <4>2 DEF Abort
    <3>3. CASE ~ recovery.running
      <4>1. recovery' = recovery /\ load' = NotOpened
        BY <3>1, <3>3 DEF Abort
      <4>2. CASE load.at = "done"
        BY <3>1, <4>1, <4>2, <3>3 DEF NotOpened, NetOK
      <4>3. CASE load.at # "done"
        BY <2>13, <3>1, <3>3, <4>1, <4>3 DEF NotOpened
      <4> QED BY <4>2, <4>3
    <3> QED BY <3>2, <3>3
  <2>15. ASSUME LoadAnswered PROVE NetOK'
    <3>1. /\ load' = [load EXCEPT !.at = "answered", !.answer = Snapshot] /\ load.at = "asked"
          /\ UNCHANGED <<sending, net, socket, recovery>>
      BY <2>15 DEF LoadAnswered
    <3>2. /\ load' \in [at : {"asked", "answered", "done"}, queue : Seq(Event), answer : Answers]
          /\ load'.at = "answered" /\ load'.queue = load.queue /\ load'.answer = Snapshot
      BY <2>n, <2>s, <3>1
    <3> QED BY <2>s, <3>1, <3>2 DEF NetOK
  <2>16. ASSUME Loaded PROVE NetOK'
    <3>1. /\ load' = [at |-> "done", queue |-> <<>>, answer |-> None]
          /\ recovery' = [recovery EXCEPT !.crossed = @ \/ recovery.running]
          /\ UNCHANGED <<sending, net, socket>> /\ load.at = "answered"
      BY <2>16 DEF Loaded
    <3>2. ~ recovery.running
      BY <3>1 DEF NetOK
    <3> QED BY <2>13, <3>1, <3>2
  <2>17. ASSUME LoadFails PROVE NetOK'
    <3>1. /\ load' = [at |-> "done", queue |-> <<>>, answer |-> None] /\ recovery' = recovery
          /\ UNCHANGED <<sending, net, socket>> /\ load.at # "done"
      BY <2>17 DEF LoadFails, NotOpened
    <3>2. ~ recovery.running
      BY <3>1 DEF NetOK
    <3> QED BY <2>13, <3>1, <3>2
  <2>18. ASSUME Turns \/ Returns \/ Decide \/ ReadHistory \/ UNCHANGED vars
         PROVE  UNCHANGED <<net, socket, sending, load, recovery>>
    BY <2>18 DEF Turns, Returns, Decide, ReadHistory, vars, Prompt, Say, Stop, Complete, TurnOver, Ask,
       AskReturns, Respond
  <2> QED
    BY <2>1, <2>2, <2>3, <2>4, <2>5, <2>6, <2>7, <2>8, <2>9, <2>11, <2>12, <2>14, <2>15,
       <2>16, <2>17, <2>18
    DEF Next, Deliver, Trouble, Show, Failure
<1> QED BY <1>1, <1>2, ServerCorrect, TurnsAreTold, PTL DEF Spec

-----------------------------------------------------------------------------
(* The world goes on *)

Ended(S) == OfKind(S, "completed") # {}

\* The events of a world are of its turn, nothing follows its end, and what is
\* asked or resolved agrees with what is told.
WorldOK(w) ==
    /\ w.cur \in Nat
    /\ \A e \in w.told : e \in Event /\ e.turn = w.cur /\ e.id[1] = e.turn /\ e.id[2] > 0
    /\ \A x, y \in w.told : x.id[2] = y.id[2] => x = y
    /\ \A c \in OfKind(w.told, "completed"), x \in w.told : x.id[2] <= c.id[2]
    /\ Ended(w.told) => \A p \in Permissions : w.asks[p] \in {"none", "over"}
    /\ \A r \in OfKind(w.told, "resolved") : r.about \in Permissions /\ w.asks[r.about] = "over"
    /\ \A d \in OfKind(w.told, "requested") : d.about \in Permissions /\ w.asks[d.about] # "none"
    /\ w.told # {} => \E x \in w.told : /\ x.kind = "text"
                                       /\ \A y \in w.told : y = x \/ InTurn(x, y)

\* World w becomes v by telling new events of its turn, or by the next turn.
GoesOn(w, v, new) ==
    /\ \/ /\ v.cur = w.cur /\ v.told = w.told \cup new
          /\ \A e \in new : /\ e \in Event /\ e.turn = w.cur /\ e.id[1] = e.turn /\ e.id[2] > 0
                            /\ \A x \in w.told : x.id[2] < e.id[2]
          /\ new # {} => ~ Ended(w.told)
       \/ /\ v.cur = w.cur + 1 /\ v.told = {} /\ new = {}
          /\ w.told = {} \/ Ended(w.told)
    /\ \A p \in Permissions :
         /\ w.asks[p] = "over" => v.asks[p] = "over"
         /\ w.asks[p] # "none" => /\ v.asks[p] # "none"
                                  /\ Waits(v, p) => Waits(w, p)
                                  /\ v.asks[p] = "pending" => w.asks[p] = "pending"

\* The events that a step emits.
New == Range(emitted') \ Range(emitted)

\* What the server keeps makes the world right.
LEMMA WorldIsOK ==
    ASSUME ServerOK, TurnOK
    PROVE  WorldOK(World)
<1> DEFINE w == World
<1>1. w.cur = turn.number /\ w.told = Range(emitted) /\ w.asks = asks
  BY DEF World
<1> HIDE DEF w
<1>2. /\ \A e \in Range(emitted) : e \in Made /\ e \in Event /\ e.turn = turn.number /\ e.id[1] = e.turn
      /\ \A e \in Range(emitted) : e.id[2] \in 1..Len(emitted) /\ e = emitted[e.id[2]]
      /\ Len(emitted) \in Nat /\ turn.number \in Nat /\ turn.made \in Nat
      /\ \A e \in Made : e.id[2] <= turn.made /\ e.id[2] \in Nat
  BY NumbersOfMade DEF Made, TurnOK, ServerOK, ServerType
<1>3. \A c \in OfKind(w.told, "completed"), x \in w.told : x.id[2] <= c.id[2]
  BY <1>1, <1>2 DEF OfKind, TurnOK
<1>4. Ended(w.told) => \A p \in Permissions : w.asks[p] \in {"none", "over"}
  BY <1>1, <1>2 DEF Ended, OfKind, TurnOK, ServerOK, Numbers
<1>5. \A r \in OfKind(w.told, "resolved") : r.about \in Permissions /\ w.asks[r.about] = "over"
  BY <1>1, <1>2 DEF OfKind, TurnOK
<1>6. \A d \in OfKind(w.told, "requested") : d.about \in Permissions /\ w.asks[d.about] # "none"
  BY <1>1 DEF OfKind, ServerOK, Answerable, Asked, Range
<1>7. ASSUME w.told # {}
      PROVE  \E x \in w.told : x.kind = "text" /\ \A y \in w.told : y = x \/ InTurn(x, y)
  <2> DEFINE x == emitted[1]
  <2>1. 1 \in 1..Len(emitted)
    BY <1>1, <1>2, <1>7
  <2>2. x \in Range(emitted) /\ x.id = <<turn.number, 1>>
    BY <2>1, NumbersOfMade
  <2> HIDE DEF x
  <2>3. x.kind = "text" /\ x.turn = turn.number
    BY <1>2, <2>2 DEF TurnOK
  <2>4. \A y \in w.told : y = x \/ InTurn(x, y)
    <3> SUFFICES ASSUME NEW y \in Range(emitted), y # x PROVE InTurn(x, y)
      BY <1>1
    <3>1. y.id[2] # 1
      BY <1>2 DEF x
    <3>2. y.id[2] > 1 /\ y.turn = turn.number
      BY <1>2, <3>1
    <3> QED BY <2>2, <2>3, <3>2 DEF InTurn
  <2> QED BY <1>1, <2>2, <2>3, <2>4
<1>8. \A x, y \in w.told : x.id[2] = y.id[2] => x = y
  BY <1>1, <1>2
<1>9. WorldOK(w)
  <2> HIDE DEF Event
  <2>1. \A e \in w.told : e \in Event /\ e.turn = w.cur /\ e.id[1] = e.turn /\ e.id[2] > 0
    BY <1>1, <1>2
  <2> QED BY <1>1, <1>2, <1>3, <1>4, <1>5, <1>6, <1>7, <1>8, <2>1 DEF WorldOK
<1> QED BY <1>9 DEF w

\* Nothing is told.
LEMMA SameWorld ==
    ASSUME NEW w
    PROVE  GoesOn(w, w, {})
<1>1. w.told \cup {} = w.told
  OBVIOUS
<1> QED BY <1>1 DEF GoesOn

\* Nothing is emitted, and what is asked goes on.
LEMMA WorldAsks ==
    ASSUME UNCHANGED <<turn, emitted>> \/ (turn'.number = turn.number /\ emitted' = emitted),
           \A p \in Permissions :
             /\ asks[p] = "over" => asks'[p] = "over"
             /\ asks[p] # "none" => /\ asks'[p] # "none"
                                    /\ asks'[p] \in {"pending", "denied", "answered"} =>
                                         asks[p] \in {"pending", "denied", "answered"}
                                    /\ asks'[p] = "pending" => asks[p] = "pending"
    PROVE  New = {} /\ GoesOn(World, World', {})
<1>1. New = {}
  BY DEF New
<1>2. /\ World.cur = turn.number /\ World.told = Range(emitted) /\ World.asks = asks
      /\ World'.cur = turn'.number /\ World'.told = Range(emitted') /\ World'.asks = asks'
  BY DEF World
<1>3. World'.told = World.told \cup {} /\ World'.cur = World.cur
  BY <1>2
<1>4. \A p \in Permissions : (Waits(World, p) <=> asks[p] \in {"pending", "denied", "answered"})
        /\ (Waits(World', p) <=> asks'[p] \in {"pending", "denied", "answered"})
  BY <1>2 DEF Waits
<1> QED BY <1>1, <1>2, <1>3, <1>4 DEF GoesOn

\* The event that is emitted is told.
LEMMA WorldEmits ==
    ASSUME ServerOK, TurnOK, Emit
    PROVE  New = {Head(made)} /\ GoesOn(World, World', New)
<1> DEFINE e == Head(made)
<1>1. /\ e \in Event /\ e.id = <<turn.number, Len(emitted) + 1>> /\ e \in Made
      /\ Range(emitted') = Range(emitted) \cup {e} /\ turn' = turn
      /\ Len(emitted) \in Nat /\ turn.number \in Nat
      /\ \A x \in Range(emitted) : x.id[2] \in 1..Len(emitted)
  BY EmitMade, NumbersOfMade DEF Made
<1>n. e = Head(made)
  OBVIOUS
<1> HIDE DEF e
<1>2. e.turn = turn.number /\ e.id[1] = e.turn /\ e.id[2] = Len(emitted) + 1
  BY <1>1 DEF TurnOK
<1>3. e \notin Range(emitted)
  BY <1>1, <1>2
<1>4. New = {e}
  BY <1>1, <1>3 DEF New
<1>5. ~ Ended(Range(emitted))
  <2> SUFFICES ASSUME NEW c \in Range(emitted), c.kind = "completed" PROVE FALSE
    BY DEF Ended, OfKind
  <2>1. c.id[2] = turn.made
    BY DEF TurnOK, OfKind, Made
  <2>2. e.id[2] <= turn.made /\ turn.made \in Nat
    BY <1>1, NumbersOfMade DEF ServerOK, ServerType
  <2>3. c.id[2] <= Len(emitted) /\ c.id[2] \in Nat
    BY <1>1
  <2> QED BY <1>1, <1>2, <2>1, <2>2, <2>3
<1>6. \A p \in Permissions :
        /\ asks[p] = "over" => asks'[p] = "over"
        /\ asks[p] # "none" => /\ asks'[p] # "none"
                               /\ asks'[p] \in {"pending", "denied", "answered"} =>
                                    asks[p] \in {"pending", "denied", "answered"}
                               /\ asks'[p] = "pending" => asks[p] = "pending"
  BY DEF Emit, Undeliverable, Denied
<1>7. /\ World.cur = turn.number /\ World.told = Range(emitted) /\ World.asks = asks
      /\ World'.cur = turn'.number /\ World'.told = Range(emitted') /\ World'.asks = asks'
  BY DEF World
<1>8. \A p \in Permissions : (Waits(World, p) <=> asks[p] \in {"pending", "denied", "answered"})
        /\ (Waits(World', p) <=> asks'[p] \in {"pending", "denied", "answered"})
  BY <1>7 DEF Waits
<1>9. /\ e.id[2] > 0 /\ \A x \in World.told : x.id[2] < e.id[2]
      /\ World'.cur = World.cur /\ World'.told = World.told \cup New
  BY <1>1, <1>2, <1>4, <1>7
<1>10. GoesOn(World, World', New)
  BY <1>1, <1>2, <1>4, <1>5, <1>6, <1>7, <1>8, <1>9 DEF GoesOn
<1> QED BY <1>n, <1>4, <1>10

\* What every step does to the world.
LEMMA WorldGoesOn ==
    ASSUME ServerOK, TurnOK, [Next]_vars
    PROVE  GoesOn(World, World', New) /\ (New # {} => Emit)
<1> USE DEF server, net, ui, ghosts
<1>t. /\ turn \in [number : Nat, phase : {"running", "ending", "over"}, texts : Nat, made : Nat]
      /\ asks \in [Permissions -> AskStates]
  BY DEF ServerOK, ServerType
<1>1. CASE Emit
  BY <1>1, WorldEmits
<1>2. CASE Prompt
  <2>1. turn'.number = turn.number + 1 /\ emitted' = <<>> /\ asks' = asks /\ turn.phase = "over"
    BY <1>2 DEF Prompt
  <2>2. /\ World.cur = turn.number /\ World.told = Range(emitted) /\ World.asks = asks
        /\ World'.cur = turn'.number /\ World'.told = Range(emitted') /\ World'.asks = asks'
    BY DEF World
  <2>3. Range(emitted') = {} /\ New = {}
    BY <2>1 DEF Range, New
  <2>4. Range(emitted) = {} \/ Ended(Range(emitted))
    <3>1. Made = Range(emitted)
      BY <2>1 DEF Made, ServerOK, Numbers, Range
    <3>2. CASE turn.number = 0
      <4>1. Len(emitted) = 0 /\ Len(emitted) \in Nat
        <5>1. Len(emitted) <= turn.made /\ Len(emitted) \in Nat /\ turn.made = 0
          BY <3>2, NumbersOfMade DEF TurnOK
        <5> QED BY <5>1
      <4>2. \A e \in Range(emitted) : e.id[2] \in 1..Len(emitted)
        BY NumbersOfMade
      <4> QED BY <4>1, <4>2
    <3>3. CASE turn.number # 0
      <4>1. turn.number > 0
        BY <1>t, <3>3
      <4> QED BY <2>1, <3>1, <4>1 DEF TurnOK, Ended
    <3> QED BY <3>2, <3>3
  <2>5. \A p : Waits(World', p) <=> Waits(World, p)
    BY <2>1, <2>2 DEF Waits
  <2> QED BY <2>1, <2>2, <2>3, <2>4, <2>5 DEF GoesOn
<1>3. CASE Say \/ Complete \/ TurnOver
  <2>1. emitted' = emitted /\ asks' = asks /\ turn'.number = turn.number
    <3>1. CASE Say
      BY <1>t, <3>1 DEF Say, Make, Numbered
    <3>2. CASE Complete
      BY <1>t, <3>2 DEF Complete, Make, Numbered
    <3>3. CASE TurnOver
      BY <1>t, <3>3 DEF TurnOver
    <3> QED BY <1>3, <3>1, <3>2, <3>3
  <2> QED BY <2>1, WorldAsks
<1>4. ASSUME NEW p \in Permissions, Ask(p) \/ AskReturns(p)
      PROVE  GoesOn(World, World', New) /\ New = {}
  <2>1. emitted' = emitted /\ turn'.number = turn.number
    BY <1>t, <1>4 DEF Ask, AskReturns, Make, Numbered
  <2>2. \A q \in Permissions :
          /\ asks[q] = "over" => asks'[q] = "over"
          /\ asks[q] # "none" => /\ asks'[q] # "none"
                                 /\ asks'[q] \in {"pending", "denied", "answered"} =>
                                      asks[q] \in {"pending", "denied", "answered"}
                                 /\ asks'[q] = "pending" => asks[q] = "pending"
    BY <1>t, <1>4 DEF Ask, AskReturns
  <2> QED BY <2>1, <2>2, WorldAsks
<1>5. ASSUME NEW p \in Permissions, Respond(p)
      PROVE  GoesOn(World, World', New) /\ New = {}
  <2>1. UNCHANGED <<emitted, turn>>
    BY <1>5 DEF Respond
  <2>2. \A q \in Permissions :
          /\ asks[q] = "over" => asks'[q] = "over"
          /\ asks[q] # "none" => /\ asks'[q] # "none"
                                 /\ asks'[q] \in {"pending", "denied", "answered"} =>
                                      asks[q] \in {"pending", "denied", "answered"}
                                 /\ asks'[q] = "pending" => asks[q] = "pending"
    BY <1>t, <1>5 DEF Respond
  <2> QED BY <2>1, <2>2, WorldAsks
<1>6. ASSUME UNCHANGED <<turn, emitted>>, asks' = asks \/ \E ps : asks' = Denied(ps)
      PROVE  GoesOn(World, World', New) /\ New = {}
  <2>1. \A q \in Permissions :
          /\ asks[q] = "over" => asks'[q] = "over"
          /\ asks[q] # "none" => /\ asks'[q] # "none"
                                 /\ asks'[q] \in {"pending", "denied", "answered"} =>
                                      asks[q] \in {"pending", "denied", "answered"}
                                 /\ asks'[q] = "pending" => asks[q] = "pending"
    BY <1>6 DEF Denied
  <2> QED BY <1>6, <2>1, WorldAsks
<1>7. ASSUME NEW c \in Sockets, Disconnect(c)
      PROVE  UNCHANGED <<turn, emitted>> /\ (asks' = asks \/ \E ps : asks' = Denied(ps))
  BY <1>7 DEF Disconnect
<1>8. CASE Stop \/ EmitReturns
  <2>1. UNCHANGED <<turn, emitted>> /\ (asks' = asks \/ \E ps : asks' = Denied(ps))
    BY <1>8 DEF Stop, EmitReturns, Undeliverable
  <2> QED BY <2>1, <1>6
<1>9. CASE \/ \E c \in Sockets : Send(c) \/ SendTimesOut(c) \/ Break(c)
           \/ Connect \/ Show \/ Failure \/ UNCHANGED vars
  <2>1. UNCHANGED <<turn, emitted, asks>>
    BY <1>9 DEF Send, SendTimesOut, Break, Connect, Show, Failure, Noticed, Receive, LoadAnswered,
       ReadHistory, Loaded, Answer, Recover, LoadFails, RecoverFails, vars
  <2> QED BY <2>1, <1>6
<1> QED BY <1>1, <1>2, <1>3, <1>4, <1>5, <1>6, <1>7, <1>8, <1>9
    DEF Next, Turns, Returns, Deliver, Trouble, Decide

-----------------------------------------------------------------------------
(* What is on its way to the page *)

\* An event of this turn, which was told, or of an earlier one.
Genuine(e, w) ==
    /\ e \in Event /\ e.id[1] = e.turn /\ e.id[2] > 0 /\ e.turn <= w.cur
    /\ e.turn = w.cur => e \in w.told
    /\ e.kind = "requested" => e.about \in Permissions /\ w.asks[e.about] # "none"
    /\ e.kind = "resolved" => e.about \in Permissions /\ w.asks[e.about] = "over"

Past(w) == {id \in Nat \X Nat : id[1] < w.cur \/ \E e \in w.told : e.id = id}

\* What waits in the page, what is on the wire and what is to be sent.
Waiting == IF load.at # "done" THEN load.queue ELSE recovery.buffer
Coming  == IF socket = 0 THEN <<>> ELSE wire[socket]
Unsent  == IF socket \in sending.to \cap (alive \ shut) THEN {sending.event} ELSE {}
Flow    == Range(Waiting) \cup Range(Coming) \cup Unsent

Connected == socket \in alive \ shut
Clean     == troubles.failures = 0 /\ ~ troubles.aborts

Line(q, l, U) ==
    /\ Sorted(q) /\ Sorted(l)
    /\ \A x \in Range(q), y \in Range(l) \cup U : Before(x, y)
    /\ \A x \in Range(l), y \in U : Before(x, y)

FlowOK ==
    /\ \A e \in Flow : Genuine(e, World)
    /\ Line(Waiting, Coming, Unsent)
    /\ troubles \in [timeouts : Nat, failures : Nat, aborts : BOOLEAN] /\ whole \in BOOLEAN

\* An event stays genuine as the world goes on.
LEMMA GenuineGoesOn ==
    ASSUME NEW w, NEW v, NEW new, WorldOK(w), GoesOn(w, v, new), NEW e, Genuine(e, w)
    PROVE  Genuine(e, v)
<1>1. e \in Event /\ e.turn \in Nat /\ w.cur \in Nat /\ e.turn <= w.cur
  BY DEF Genuine, WorldOK, Event
<1>2. e.turn <= v.cur /\ (e.turn = v.cur => e \in v.told)
  BY <1>1 DEF Genuine, GoesOn
<1> HIDE DEF Event
<1> QED BY <1>1, <1>2 DEF Genuine, GoesOn

\* What was told is genuine.
LEMMA ToldIsGenuine ==
    ASSUME NEW w, WorldOK(w), NEW e \in w.told
    PROVE  Genuine(e, w)
<1> HIDE DEF Event
<1> QED BY DEF WorldOK, Genuine, OfKind

\* What is new was not told before.
LEMMA PastGoesOn ==
    ASSUME NEW w, NEW v, NEW new, WorldOK(w), GoesOn(w, v, new)
    PROVE  /\ Past(w) \subseteq Past(v)
           /\ \A e \in new : e.id \notin Past(w)
           /\ \A e : Genuine(e, w) => e.id \in Past(w)
<1>1. w.cur \in Nat /\ \A e \in w.told : e.id[1] = w.cur
  BY DEF WorldOK
<1>2. Past(w) \subseteq Past(v)
  BY <1>1 DEF GoesOn, Past
<1>3. ASSUME NEW e \in new PROVE e.id \notin Past(w)
  <2>1. e.id[1] = w.cur /\ \A x \in w.told : x.id[2] < e.id[2]
    BY DEF GoesOn
  <2>2. \A x \in w.told : x.id[2] \in Nat
    BY DEF WorldOK, Event
  <2> QED BY <1>1, <2>1, <2>2 DEF Past
<1>4. ASSUME NEW e, Genuine(e, w) PROVE e.id \in Past(w)
  <2>1. e.id \in Nat \X Nat /\ e.turn \in Nat
    BY <1>4 DEF Genuine, Event
  <2> QED BY <1>1, <1>4, <2>1 DEF Past, Genuine
<1> QED BY <1>2, <1>3, <1>4

\* The first event of a sequence and the others.
LEMMA FirstAndRest ==
    ASSUME NEW s \in Seq(Event), s # <<>>
    PROVE  /\ Head(s) \in Event /\ Tail(s) \in Seq(Event)
           /\ Range(s) = {Head(s)} \cup Range(Tail(s))
           /\ Sorted(s) => Sorted(Tail(s)) /\ \A y \in Range(Tail(s)) : Before(Head(s), y)
<1> DEFINE r == Tail(s)
           h == Head(s)
<1>1. /\ Len(s) \in Nat /\ Len(s) > 0 /\ DOMAIN s = 1..Len(s) /\ h = s[1] /\ h \in Event
      /\ r \in Seq(Event) /\ DOMAIN r = 1..(Len(s) - 1)
      /\ \A i \in 1..(Len(s) - 1) : r[i] = s[i + 1]
  OBVIOUS
<1>n. r = Tail(s) /\ h = Head(s)
  OBVIOUS
<1> HIDE DEF r, h, Event
<1>2. Range(s) = {h} \cup Range(r)
  <2>1. \A i \in DOMAIN s : s[i] = h \/ s[i] \in Range(r)
    <3> SUFFICES ASSUME NEW i \in DOMAIN s, i # 1 PROVE s[i] \in Range(r)
      BY <1>1
    <3>1. i - 1 \in DOMAIN r /\ r[i - 1] = s[i]
      BY <1>1
    <3> QED BY <3>1 DEF Range
  <2>2. \A i \in DOMAIN r : r[i] \in Range(s)
    <3> SUFFICES ASSUME NEW i \in DOMAIN r PROVE r[i] \in Range(s)
      OBVIOUS
    <3>1. i + 1 \in DOMAIN s /\ r[i] = s[i + 1]
      BY <1>1
    <3> QED BY <3>1 DEF Range
  <2>3. 1 \in DOMAIN s
    BY <1>1
  <2> QED BY <1>1, <2>1, <2>2, <2>3 DEF Range
<1>3. ASSUME Sorted(s) PROVE Sorted(r) /\ \A y \in Range(r) : Before(h, y)
  <2>1. \A i, j \in DOMAIN r : i < j => Before(r[i], r[j])
    <3> SUFFICES ASSUME NEW i \in DOMAIN r, NEW j \in DOMAIN r, i < j PROVE Before(r[i], r[j])
      OBVIOUS
    <3>1. i + 1 \in DOMAIN s /\ j + 1 \in DOMAIN s /\ i + 1 < j + 1
      BY <1>1
    <3> QED BY <1>1, <1>3, <3>1 DEF Sorted
  <2>2. \A j \in DOMAIN r : Before(h, r[j])
    <3> SUFFICES ASSUME NEW j \in DOMAIN r PROVE Before(h, r[j])
      OBVIOUS
    <3>1. 1 \in DOMAIN s /\ j + 1 \in DOMAIN s /\ 1 < j + 1
      BY <1>1
    <3> QED BY <1>1, <1>3, <3>1 DEF Sorted
  <2> QED BY <2>1, <2>2 DEF Sorted, Range
<1> QED BY <1>1, <1>2, <1>3, <1>n

\* A later event at the end keeps the order.
LEMMA SortedAppend ==
    ASSUME NEW s \in Seq(Event), NEW e \in Event, Sorted(s), \A x \in Range(s) : Before(x, e)
    PROVE  Sorted(Append(s, e))
<1> DEFINE r == Append(s, e)
<1>1. /\ DOMAIN r = 1..(Len(s) + 1) /\ Len(s) \in Nat /\ DOMAIN s = 1..Len(s)
      /\ r[Len(s) + 1] = e /\ \A j \in DOMAIN s : r[j] = s[j]
  OBVIOUS
<1> HIDE DEF r, Event
<1>2. \A i, j \in DOMAIN r : i < j => Before(r[i], r[j])
  <2> SUFFICES ASSUME NEW i \in DOMAIN r, NEW j \in DOMAIN r, i < j PROVE Before(r[i], r[j])
    OBVIOUS
  <2>1. i \in DOMAIN s /\ s[i] \in Range(s)
    BY <1>1 DEF Range
  <2>2. CASE j \in DOMAIN s
    BY <1>1, <2>1, <2>2 DEF Sorted
  <2>3. CASE j = Len(s) + 1
    BY <1>1, <2>1, <2>3
  <2> QED BY <1>1, <2>2, <2>3
<1> QED BY <1>2 DEF Sorted, r

\* A later event is to be sent.
LEMMA LineTells ==
    ASSUME NEW q, NEW l, NEW e, Line(q, l, {}), \A x \in Range(q) \cup Range(l) : Before(x, e)
    PROVE  Line(q, l, {e})
BY DEF Line

\* What was to be sent is on the wire.
LEMMA LineSends ==
    ASSUME NEW q, NEW l \in Seq(Event), NEW e \in Event, Line(q, l, {e})
    PROVE  /\ Line(q, Append(l, e), {}) /\ Range(Append(l, e)) = Range(l) \cup {e}
           /\ Append(l, e) \in Seq(Event)
<1>1. Range(Append(l, e)) = Range(l) \cup {e} /\ Sorted(Append(l, e))
  BY OneMore, SortedAppend DEF Line
<1> QED BY <1>1 DEF Line

\* The transport delivers what comes first, or nothing is sent.
LEMMA LineBreaks ==
    ASSUME NEW q, NEW l \in Seq(Event), NEW U, Line(q, l, U), NEW n \in 0..Len(l)
    PROVE  /\ Line(q, SubSeq(l, 1, n), {}) /\ SubSeq(l, 1, n) \in Seq(Event)
           /\ Range(SubSeq(l, 1, n)) \subseteq Range(l)
           /\ \A x \in (Range(l) \cup U) \ Range(SubSeq(l, 1, n)), y \in Range(SubSeq(l, 1, n)) : Before(y, x)
<1> DEFINE r == SubSeq(l, 1, n)
<1>1. /\ r \in Seq(Event) /\ DOMAIN r = 1..n /\ Len(l) \in Nat /\ DOMAIN l = 1..Len(l)
      /\ \A i \in 1..n : r[i] = l[i] /\ i \in DOMAIN l
  OBVIOUS
<1>n. r = SubSeq(l, 1, n)
  OBVIOUS
<1> HIDE DEF r, Event
<1>2. Range(r) \subseteq Range(l) /\ Sorted(r)
  BY <1>1 DEF Range, Sorted, Line
<1>3. ASSUME NEW x \in Range(l), x \notin Range(r), NEW y \in Range(r) PROVE Before(y, x)
  <2>1. PICK i \in DOMAIN l : x = l[i]
    BY DEF Range
  <2>2. PICK j \in DOMAIN r : y = r[j]
    BY DEF Range
  <2>3. i \notin 1..n
    BY <1>1, <1>3, <2>1 DEF Range
  <2>4. j < i /\ j \in DOMAIN l /\ y = l[j]
    BY <1>1, <2>2, <2>3
  <2> QED BY <2>1, <2>4 DEF Line, Sorted
<1>4. Line(q, r, {}) /\ \A x \in U, y \in Range(r) : Before(y, x)
  BY <1>2 DEF Line
<1> QED BY <1>1, <1>2, <1>3, <1>4, <1>n

\* The first event on the wire waits in the page.
LEMMA LineMoves ==
    ASSUME NEW q \in Seq(Event), NEW l \in Seq(Event), NEW U, Line(q, l, U), l # <<>>
    PROVE  /\ Line(Append(q, Head(l)), Tail(l), U)
           /\ Range(Append(q, Head(l))) \cup Range(Tail(l)) = Range(q) \cup Range(l)
<1>1. /\ Head(l) \in Event /\ Range(l) = {Head(l)} \cup Range(Tail(l))
      /\ Sorted(Tail(l)) /\ \A y \in Range(Tail(l)) : Before(Head(l), y)
  BY FirstAndRest DEF Line
<1>2. \A x \in Range(q) : Before(x, Head(l))
  BY <1>1 DEF Line
<1>3. /\ Range(Append(q, Head(l))) = Range(q) \cup {Head(l)} /\ Sorted(Append(q, Head(l)))
  BY <1>1, <1>2, OneMore, SortedAppend DEF Line
<1> QED BY <1>1, <1>3 DEF Line

\* Parts of the line get empty.
LEMMA LineEmpties ==
    ASSUME NEW q, NEW l, NEW U, Line(q, l, U)
    PROVE  Line(<<>>, l, U) /\ Line(q, l, {}) /\ Line(<<>>, <<>>, {}) /\ Range(<<>>) = {} /\ Line(q, <<>>, {})
BY DEF Line, Sorted, Range

-----------------------------------------------------------------------------
(* What a step does to the page and to what is on its way *)

Leaves(S)       == Flow = S \cup Flow' /\ \A x \in S, y \in Flow' : Before(x, y)
Chosen(rest, S) == rest \in Seq(Event) /\ Sorted(rest) /\ Range(rest) = S
SameNet         == opened' = opened /\ (Clean' <=> Clean) /\ (Connected' <=> Connected)

\* The turn goes on, and the event that is emitted is sent.
Emits ==
    /\ UNCHANGED <<page, load, recovery, whole>> /\ SameNet
    /\ Flow' = IF Connected THEN Flow \cup New ELSE Flow

Decides ==
    /\ UNCHANGED <<load, recovery, whole, emitted, turn>> /\ SameNet /\ Flow' = Flow
    /\ \E p \in Permissions : /\ asks[p] = "pending" /\ asks' = [asks EXCEPT ![p] = "answered"]
                              /\ page' = [page EXCEPT !.dialogs = {d \in @ : d.about # p}]

\* Sends that fail and transports that break lose what comes last.
Loses ==
    /\ UNCHANGED <<page, load, recovery, opened, World>> /\ (whole' <=> whole) /\ (Clean' <=> Clean)
    /\ Flow' \subseteq Flow /\ \A x \in Flow \ Flow', y \in Flow' : Before(y, x)
    /\ Connected' => Connected /\ Flow' = Flow

Connects ==
    /\ UNCHANGED <<page, load, whole, World>> /\ (Clean' <=> Clean)
    /\ load.at = "done" /\ opened' > 1
    /\ ~ recovery.running /\ recovery'.running /\ recovery'.answer = None
    /\ Flow' = {}

Holds ==
    /\ UNCHANGED <<page, whole, World>> /\ SameNet /\ Flow' = Flow
    /\ load'.at = load.at /\ load'.answer = load.answer
    /\ (recovery'.running <=> recovery.running) /\ recovery'.answer = recovery.answer

Hears ==
    /\ UNCHANGED <<load, recovery, whole, World>> /\ SameNet
    /\ load.at = "done" /\ ~ recovery.running
    /\ \E e \in Flow : page' = ApplyAll(page, <<e>>) /\ Leaves({e})

Asks ==
    /\ UNCHANGED <<page, load, whole, World>> /\ SameNet /\ Flow' = Flow
    /\ recovery.running /\ recovery.answer = None
    /\ recovery'.running /\ recovery'.answer = Snapshot

Opens ==
    /\ UNCHANGED <<page, recovery, whole, World>> /\ SameNet /\ Flow' = Flow
    /\ load.at = "asked" /\ load'.at = "answered" /\ load'.answer = Snapshot

\* What a page is right after an answer, before what waited.
Recovered(pg, a) == [ApplyAll(pg, a.events) EXCEPT !.busy = a.running, !.dialogs = OpenIn(a.events)]

OpenedWith(pg, a) ==
    [seen |-> a.covered, story |-> Only(a.events, {e \in Range(a.events) : IsStory(e)}),
     dialogs |-> OpenIn(a.events),
     over |-> {e.turn : e \in {f \in Range(a.events) : f.kind = "completed"}},
     busy |-> a.running,
     active |-> IF a.running /\ a.events # <<>> THEN a.events[Len(a.events)].turn ELSE pg.active]

Recovers ==
    /\ UNCHANGED <<load, World>> /\ SameNet /\ load.at = "done" /\ whole' = TRUE
    /\ recovery.running /\ recovery.answer # None /\ ~ recovery'.running
    /\ \E rest : /\ Chosen(rest, {e \in Range(Waiting) : e.id \notin recovery.answer.covered})
                 /\ page' = ApplyAll(Recovered(page, recovery.answer), rest)
    /\ Leaves(Range(Waiting))

Loads ==
    /\ UNCHANGED <<World, whole>> /\ SameNet /\ load.at = "answered" /\ load'.at = "done"
    /\ ~ recovery.running /\ ~ recovery'.running
    /\ \E rest : /\ Chosen(rest, Range(Waiting))
                 /\ page' = ApplyAll(OpenedWith(page, load.answer), rest)
    /\ Leaves(Range(Waiting))

\* The session is shown with turns that only the history tells.
Misloads == UNCHANGED <<World, whole>> /\ SameNet /\ Leaves(Range(Waiting)) /\ ~ timely'

\* A request of the page fails.
Fails ==
    /\ UNCHANGED <<World, opened>> /\ whole' = FALSE /\ ~ Clean' /\ (Connected' => Connected)
    /\ load'.at = "done" /\ ~ recovery'.running
    /\ \/ page' = page
       \/ /\ load.at = "done"
          /\ \E rest, S : Chosen(rest, S) /\ S \subseteq Range(Waiting) /\ page' = ApplyAll(page, rest)
    /\ Leaves(Range(Waiting))

Steps == \/ Emits \/ Decides \/ Loses \/ Connects \/ Holds \/ Hears
         \/ Asks \/ Opens \/ Recovers \/ Loads \/ Fails

LineStays == Line(Waiting', Coming', Unsent')

\* The parts of NetOK that the lemmas below need of the sequences.
LEMMA Sequences ==
    ASSUME NetOK
    PROVE  /\ Waiting \in Seq(Event) /\ Coming \in Seq(Event)
           /\ socket # 0 => socket \in Sockets /\ wire[socket] = Coming
           /\ Connected => socket # 0 /\ socket \in registered
           /\ load.at = "done" => Waiting = recovery.buffer
           /\ load.at # "done" => Waiting = load.queue /\ ~ recovery.running
           /\ load.at = "done" /\ ~ recovery.running => Waiting = <<>>
           /\ sending.to # {} => sending.event \in Event /\ sending # Idle
           /\ 0 \notin alive
<1>1. socket # 0 => socket \in Sockets
  BY BoundsAssumption DEF NetOK, Sockets
<1>2. wire \in [Sockets -> Seq(Event)]
  BY DEF NetOK
<1>3. 0 \notin alive
  BY DEF NetOK
<1>4. load.queue \in Seq(Event) /\ recovery.buffer \in Seq(Event) /\ <<>> \in Seq(Event)
  BY DEF NetOK
<1>5. load.at # "done" => ~ recovery.running
  BY DEF NetOK
<1> HIDE DEF Sockets, Event
<1>6. Waiting \in Seq(Event) /\ Coming \in Seq(Event)
  BY <1>1, <1>2, <1>4 DEF Waiting, Coming
<1>7. sending.to # {} => sending.event \in Event /\ sending # Idle
  BY DEF NetOK, Idle
<1> QED BY <1>1, <1>3, <1>5, <1>6, <1>7 DEF Coming, Waiting, Connected, NetOK

\* The turn, and what else the server does without a word to the page.
LEMMA Silence ==
    ASSUME NetOK, FlowOK, UNCHANGED <<net, ui, ghosts, sending>>
    PROVE  LineStays /\ SameNet /\ Flow' = Flow
<1>1. Waiting' = Waiting /\ Coming' = Coming /\ Unsent' = Unsent /\ SameNet
  BY DEF net, ui, ghosts, Waiting, Coming, Unsent, SameNet, Clean, Connected
<1>2. Flow' = Flow
  BY <1>1 DEF Flow
<1> QED BY <1>1, <1>2 DEF LineStays, FlowOK

\* _emit_chat_event shows the new event to the connected page.
LEMMA EmitEmits ==
    ASSUME ServerOK, TurnOK, NetOK, FlowOK, Emit
    PROVE  LineStays /\ Emits
<1> DEFINE e == Head(made)
<1>1. /\ sending = Idle /\ UNCHANGED <<net, ui, ghosts>> /\ New = {e} /\ e \in Event
      /\ sending' = IF registered = {} THEN sending
                    ELSE [event |-> e, to |-> registered, ok |-> FALSE]
  BY WorldEmits, EmitMade DEF Emit
<1>2. \A x \in Flow : Before(x, e)
  <2> SUFFICES ASSUME NEW x \in Flow PROVE Before(x, e)
    OBVIOUS
  <2>1. /\ e.id = <<turn.number, Len(emitted) + 1>> /\ e \in Made
        /\ \A y \in Range(emitted) : y.id[2] \in 1..Len(emitted) /\ Len(emitted) \in Nat
    BY EmitMade, NumbersOfMade DEF Made
  <2>2. e.turn = turn.number
    BY <2>1 DEF TurnOK
  <2>3. x.turn \in Nat /\ turn.number \in Nat /\ x.turn <= turn.number
        /\ (x.turn = turn.number => x \in Range(emitted))
    BY NumbersOfMade DEF FlowOK, Genuine, World, Event
  <2>4. e.id[2] = Len(emitted) + 1
    BY <2>1
  <2> HIDE DEF e
  <2> QED BY <2>1, <2>2, <2>3, <2>4 DEF Before
<1> HIDE DEF e
<1>3. Waiting' = Waiting /\ Coming' = Coming /\ SameNet
  BY <1>1 DEF net, ui, ghosts, Waiting, Coming, SameNet, Clean, Connected
<1>4. Unsent = {}
  BY <1>1 DEF Unsent, Idle
<1>5. Unsent' = IF Connected THEN {e} ELSE {}
  <2>1. CASE Connected
    <3>1. socket \in registered
      BY <2>1, Sequences
    <3>2. sending'.to = registered /\ sending'.event = e
      BY <1>1, <3>1
    <3> QED BY <1>1, <2>1, <3>1, <3>2 DEF Unsent, Connected, net, ui
  <2>2. CASE ~ Connected
    BY <1>1, <2>2 DEF Unsent, Connected, net, ui
  <2> QED BY <2>1, <2>2
<1>6. Flow' = IF Connected THEN Flow \cup New ELSE Flow
  BY <1>1, <1>3, <1>4, <1>5 DEF Flow
<1>7. LineStays
  <2>1. Line(Waiting, Coming, {})
    BY <1>4 DEF FlowOK
  <2>2. \A x \in Range(Waiting) \cup Range(Coming) : Before(x, e)
    BY <1>2 DEF Flow
  <2>3. Line(Waiting, Coming, {e})
    BY <2>1, <2>2, LineTells
  <2> QED BY <1>3, <1>5, <2>1, <2>3 DEF LineStays
<1> QED BY <1>1, <1>3, <1>6, <1>7 DEF Emits, ui, ghosts

\* EventConnection.send moves the event or loses it with the connection.
LEMMA SendLoses ==
    ASSUME ServerOK, TurnOK, NetOK, FlowOK, NEW c \in Sockets, Send(c) \/ SendTimesOut(c)
    PROVE  LineStays /\ Loses
<1> DEFINE e == sending.event
<1>1. /\ c \in sending.to /\ e \in Event
      /\ sending'.to = sending.to \ {c} /\ sending'.event = e
      /\ UNCHANGED <<ui, World, opened, alive>> /\ (whole' <=> whole) /\ (Clean' <=> Clean)
  <2>1. c \in sending.to /\ \E ok : Sent(c, ok)
    BY DEF Send, SendTimesOut
  <2>2. sending'.to = sending.to \ {c} /\ sending'.event = e
    BY <2>1 DEF Sent, NetOK
  <2>3. UNCHANGED <<ui, turn, emitted, asks, opened, alive, whole>>
    BY DEF Send, SendTimesOut, ghosts
  <2>4. Clean' <=> Clean
    BY DEF Send, SendTimesOut, ghosts, Clean, TimedOut, FlowOK
  <2> QED BY <2>1, <2>2, <2>3, <2>4, Sequences DEF World
<1>2. /\ shut \subseteq shut' /\ shut' \subseteq shut \cup {c}
      /\ OnWire(c) \/ wire' = wire
      /\ c \in alive \ shut /\ c \notin shut' => OnWire(c)
      /\ c \notin alive \ shut => wire' = wire
  BY DEF Send, SendTimesOut
<1>3. Waiting' = Waiting /\ UNCHANGED <<page, load, recovery>>
  BY <1>1 DEF Waiting, ui
<1>4. socket' = socket /\ alive' = alive
  BY <1>1 DEF ui
<1> HIDE DEF e, Event
<1>5. CASE c # socket
  <2>1. Coming' = Coming
    <3>1. socket # 0 => wire'[socket] = wire[socket]
      BY <1>2, <1>5, Sequences DEF OnWire, NetOK
    <3> QED BY <1>4, <3>1 DEF Coming
  <2>2. Unsent' = Unsent /\ (Connected' <=> Connected)
    BY <1>1, <1>2, <1>4, <1>5 DEF Unsent, Connected, e
  <2>3. Flow' = Flow
    BY <1>3, <2>1, <2>2 DEF Flow
  <2> QED BY <1>1, <1>3, <2>1, <2>2, <2>3 DEF Loses, LineStays, FlowOK
<1>6. CASE c = socket /\ c \notin alive \ shut
  <2>1. Coming' = Coming /\ Unsent = {} /\ Unsent' = {} /\ ~ Connected'
    BY <1>1, <1>2, <1>4, <1>6 DEF Unsent, Connected, Coming
  <2>3. Flow' = Flow
    BY <1>3, <2>1 DEF Flow
  <2> QED BY <1>1, <1>3, <2>1, <2>3 DEF Loses, LineStays, FlowOK
<1>7. CASE c = socket /\ c \in alive \ shut
  <2>1. /\ Unsent = {e} /\ Unsent' = {} /\ Connected /\ Coming \in Seq(Event)
        /\ socket # 0 /\ socket \in Sockets /\ Coming = wire[socket] /\ Line(Waiting, Coming, {e})
    BY <1>1, <1>4, <1>7, Sequences DEF Unsent, Connected, FlowOK, e
  <2>2. CASE OnWire(c)
    <3>1. Coming' = Append(Coming, e)
      BY <1>4, <1>7, <2>1, <2>2 DEF OnWire, Coming, NetOK, e
    <3>2. Line(Waiting, Append(Coming, e), {}) /\ Range(Append(Coming, e)) = Range(Coming) \cup {e}
      <4>1. e \in Event /\ Coming \in Seq(Event) /\ Line(Waiting, Coming, {e})
        BY <1>1, <2>1
      <4>2. Line(Waiting, Append(Coming, e), {})
        BY <4>1, LineSends
      <4>3. Range(Append(Coming, e)) = Range(Coming) \cup {e}
        BY <4>1, OneMore
      <4> QED BY <4>2, <4>3
    <3>3. Flow' = Flow
      BY <1>3, <2>1, <3>1, <3>2 DEF Flow
    <3> QED BY <1>1, <1>3, <2>1, <3>1, <3>2, <3>3 DEF Loses, LineStays
  <2>3. CASE wire' = wire /\ c \in shut'
    <3>1. Coming' = Coming /\ ~ Connected'
      BY <1>4, <1>7, <2>3 DEF Coming, Connected
    <3>2. Flow' = Range(Waiting) \cup Range(Coming) /\ Flow = Flow' \cup {e}
      BY <1>3, <2>1, <3>1 DEF Flow
    <3>3. \A y \in Flow' : Before(y, e)
      BY <2>1, <3>2 DEF Line
    <3>4. Line(Waiting, Coming, {})
      BY <2>1, LineEmpties
    <3> QED BY <1>1, <1>3, <2>1, <3>1, <3>2, <3>3, <3>4 DEF Loses, LineStays
  <2> QED BY <1>2, <1>7, <2>2, <2>3
<1> QED BY <1>5, <1>6, <1>7

\* A broken transport loses what comes last.
LEMMA BreakLoses ==
    ASSUME NetOK, FlowOK, NEW c \in Sockets, Break(c)
    PROVE  LineStays /\ Loses
<1>1. /\ c \in alive /\ alive' = alive \ {c}
      /\ UNCHANGED <<server, opened, registered, shut, ui, ghosts>>
      /\ \E n \in 0..Len(wire[c]) : wire' = [wire EXCEPT ![c] = SubSeq(@, 1, n)]
  BY DEF Break
<1>2. /\ Waiting' = Waiting /\ World' = World /\ (Clean' <=> Clean) /\ (whole' <=> whole)
      /\ UNCHANGED <<page, load, recovery, opened, socket, sending, shut>>
  BY <1>1 DEF server, ui, ghosts, Waiting, World, Clean
<1>3. PICK n \in 0..Len(wire[c]) : wire' = [wire EXCEPT ![c] = SubSeq(@, 1, n)]
  BY <1>1
<1>4. CASE c # socket
  <2>1. Coming' = Coming
    <3>1. socket # 0 => wire'[socket] = wire[socket]
      BY <1>3, <1>4, Sequences DEF NetOK
    <3> QED BY <1>2, <3>1 DEF Coming
  <2>2. Unsent' = Unsent /\ (Connected' <=> Connected)
    BY <1>1, <1>2, <1>4 DEF Unsent, Connected
  <2>3. Flow' = Flow
    BY <1>2, <2>1, <2>2 DEF Flow
  <2> QED BY <1>2, <2>1, <2>2, <2>3 DEF Loses, LineStays, FlowOK
<1>5. CASE c = socket
  <2> DEFINE l == SubSeq(Coming, 1, n)
  <2>1. /\ Coming \in Seq(Event) /\ socket # 0 /\ Coming = wire[socket] /\ n \in 0..Len(Coming)
    BY <1>1, <1>3, <1>5, Sequences
  <2>2. Coming' = l
    BY <1>2, <1>3, <1>5, <2>1, Sequences DEF Coming, NetOK
  <2>3. Unsent' = {} /\ ~ Connected'
    BY <1>1, <1>2, <1>5 DEF Unsent, Connected
  <2>4. /\ Line(Waiting, l, {}) /\ Range(l) \subseteq Range(Coming)
        /\ \A x \in (Range(Coming) \cup Unsent) \ Range(l), y \in Range(l) : Before(y, x)
    BY <2>1, LineBreaks DEF FlowOK
  <2> HIDE DEF l
  <2>5. Flow' = Range(Waiting) \cup Range(l)
    BY <1>2, <2>2, <2>3 DEF Flow
  <2>6. Flow' \subseteq Flow
    BY <2>4, <2>5 DEF Flow
  <2>7. \A x \in Flow \ Flow', y \in Flow' : Before(y, x)
    BY <2>4, <2>5 DEF Flow, FlowOK, Line
  <2> QED BY <1>2, <2>2, <2>3, <2>4, <2>6, <2>7 DEF Loses, LineStays
<1> QED BY <1>4, <1>5

\* A connection that goes takes nothing away from a connected page.
LEMMA DisconnectEmits ==
    ASSUME NetOK, FlowOK, NEW c \in Sockets, Disconnect(c)
    PROVE  LineStays /\ Emits
<1>1. /\ c \notin alive /\ shut' = shut \cup {c}
      /\ UNCHANGED <<turn, made, emitted, sending, opened, alive, wire, ui, ghosts>>
  BY DEF Disconnect
<1>2. Waiting' = Waiting /\ Coming' = Coming /\ Unsent' = Unsent /\ SameNet /\ New = {}
  BY <1>1 DEF ui, ghosts, Waiting, Coming, Unsent, SameNet, Clean, Connected, New
<1>3. Flow' = Flow
  BY <1>2 DEF Flow
<1> QED BY <1>1, <1>2, <1>3 DEF LineStays, FlowOK, Emits, ui, ghosts

\* The page starts a recovery with its new connection.
LEMMA ConnectConnects ==
    ASSUME NetOK, FlowOK, Connect
    PROVE  LineStays /\ Connects
<1>1. /\ opened' = opened + 1 /\ socket' = opened + 1 /\ opened < MaxConnections /\ socket = 0
      /\ recovery' = [recovery EXCEPT !.running = TRUE]
      /\ UNCHANGED <<server, shut, wire, page, load, ghosts>>
  BY DEF Connect
<1>2. /\ load.at = "done" /\ ~ recovery.running /\ recovery.answer = None /\ recovery.buffer = <<>>
      /\ opened \in Nat /\ opened >= 1 /\ sending.to \subseteq 1..opened /\ MaxConnections \in Nat
      /\ \A c \in Sockets : c > opened => wire[c] = <<>>
  BY <1>1, BoundsAssumption DEF NetOK
<1>3. recovery'.running /\ recovery'.answer = None /\ recovery'.buffer = <<>>
  BY <1>1, <1>2 DEF NetOK
<1>4. socket' \in Sockets /\ socket' > opened /\ socket' # 0 /\ socket' \notin sending.to
  BY <1>1, <1>2 DEF Sockets
<1>5. Waiting' = <<>> /\ Coming' = <<>> /\ Unsent' = {}
  BY <1>1, <1>2, <1>3, <1>4 DEF Waiting, Coming, Unsent, server
<1>6. Flow' = {} /\ LineStays
  BY <1>5, LineEmpties DEF Flow, LineStays, FlowOK
<1>7. opened' > 1 /\ World' = World /\ (Clean' <=> Clean) /\ whole' = whole
  BY <1>1, <1>2 DEF server, ghosts, World, Clean
<1> QED BY <1>1, <1>2, <1>3, <1>6, <1>7 DEF Connects

\* What arrives is applied, or waits.
LEMMA Receives ==
    ASSUME NetOK, FlowOK, Receive
    PROVE  LineStays /\ (Holds \/ Hears)
<1> DEFINE h == Head(Coming)
<1>1. /\ socket # 0 /\ Coming = wire[socket] /\ Coming # <<>> /\ wire' = [wire EXCEPT ![socket] = Tail(@)]
      /\ UNCHANGED <<server, opened, registered, shut, alive, socket, ghosts>>
      /\ \/ recovery.running /\ recovery' = [recovery EXCEPT !.buffer = Append(@, h)] /\ UNCHANGED <<page, load>>
         \/ ~ recovery.running /\ recovery' = recovery /\ Handle(page, load, <<h>>)
  BY DEF Receive, Coming
<1>2. Coming \in Seq(Event) /\ Waiting \in Seq(Event) /\ socket \in Sockets
  BY <1>1, Sequences
<1>3. Coming' = Tail(Coming)
  BY <1>1, <1>2 DEF Coming, NetOK
<1>4. /\ h \in Event /\ Range(Coming) = {h} \cup Range(Tail(Coming)) /\ Tail(Coming) \in Seq(Event)
      /\ Sorted(Tail(Coming)) /\ \A y \in Range(Tail(Coming)) : Before(h, y)
  BY <1>1, <1>2, FirstAndRest DEF FlowOK, Line
<1>5. Unsent' = Unsent /\ World' = World /\ SameNet /\ whole' = whole
  BY <1>1 DEF server, ghosts, Unsent, World, SameNet, Clean, Connected
<1>n. h = Head(Coming)
  OBVIOUS
<1> HIDE DEF h, Event
<1>6. ASSUME Waiting' = Append(Waiting, h)
      PROVE  LineStays /\ Flow' = Flow
  <2>1. /\ Line(Append(Waiting, h), Tail(Coming), Unsent)
        /\ Range(Append(Waiting, h)) \cup Range(Tail(Coming)) = Range(Waiting) \cup Range(Coming)
    BY <1>1, <1>2, <1>n, LineMoves DEF FlowOK
  <2> QED BY <1>3, <1>5, <1>6, <2>1 DEF LineStays, Flow
<1>7. CASE recovery.running
  <2>1. /\ load.at = "done" /\ Waiting = recovery.buffer /\ UNCHANGED <<page, load>>
        /\ recovery' = [recovery EXCEPT !.buffer = Append(@, h)]
    BY <1>1, <1>7, Sequences DEF NetOK
  <2>2. /\ recovery'.running = recovery.running /\ recovery'.answer = recovery.answer
        /\ recovery'.buffer = Append(recovery.buffer, h)
    BY <2>1 DEF NetOK
  <2>3. Waiting' = Append(Waiting, h)
    BY <2>1, <2>2 DEF Waiting
  <2> QED BY <1>5, <1>6, <2>1, <2>2, <2>3 DEF Holds
<1>8. CASE ~ recovery.running /\ load.at # "done"
  <2>1. /\ Waiting = load.queue /\ recovery' = recovery /\ page' = page
        /\ load' = [load EXCEPT !.queue = @ \o <<h>>]
    BY <1>1, <1>8, Sequences DEF Handle
  <2>2. load'.at = load.at /\ load'.answer = load.answer /\ load'.queue = load.queue \o <<h>>
    BY <2>1 DEF NetOK
  <2>3. load.queue \o <<h>> = Append(load.queue, h)
    BY <1>2, <1>4, <2>1
  <2>4. Waiting' = Append(Waiting, h)
    BY <1>8, <2>1, <2>2, <2>3 DEF Waiting
  <2> QED BY <1>5, <1>6, <2>1, <2>2, <2>4 DEF Holds
<1>9. CASE ~ recovery.running /\ load.at = "done"
  <2>1. Waiting = <<>> /\ recovery' = recovery /\ load' = load /\ page' = ApplyAll(page, <<h>>)
    BY <1>1, <1>9, Sequences DEF Handle
  <2>2. Waiting' = <<>> /\ Range(<<>>) = {}
    BY <2>1, LineEmpties DEF Waiting, FlowOK
  <2>3. Flow = {h} \cup Flow'
    BY <1>3, <1>4, <1>5, <2>1, <2>2 DEF Flow
  <2>4. \A y \in Flow' : Before(h, y)
    BY <1>3, <1>4, <1>5, <2>2 DEF Flow, FlowOK, Line
  <2>5. Line(<<>>, Tail(Coming), Unsent)
    BY <1>4, <2>1, <2>2 DEF FlowOK, Line
  <2> QED BY <1>3, <1>5, <1>9, <2>1, <2>2, <2>3, <2>4, <2>5 DEF Hears, Leaves, LineStays
<1> QED BY <1>7, <1>8, <1>9

\* get_active_chat answers a recovery.
LEMMA AnswerAsks ==
    ASSUME NetOK, FlowOK, Answer
    PROVE  LineStays /\ Asks
<1>1. /\ recovery.running /\ recovery.answer = None /\ recovery' = [recovery EXCEPT !.answer = Snapshot]
      /\ UNCHANGED <<server, net, socket, page, load, ghosts>>
  BY DEF Answer
<1>2. recovery'.running /\ recovery'.answer = Snapshot /\ recovery'.buffer = recovery.buffer
  BY <1>1 DEF NetOK
<1>3. /\ Waiting' = Waiting /\ Coming' = Coming /\ Unsent' = Unsent /\ World' = World /\ SameNet
      /\ whole' = whole
  BY <1>1, <1>2 DEF server, net, ghosts, Waiting, Coming, Unsent, World, SameNet, Clean, Connected
<1>4. Flow' = Flow
  BY <1>3 DEF Flow
<1> QED BY <1>1, <1>2, <1>3, <1>4 DEF Asks, LineStays, FlowOK

\* get_active_chat answers the opening of the session.
LEMMA AnsweredOpens ==
    ASSUME NetOK, FlowOK, LoadAnswered
    PROVE  LineStays /\ Opens
<1>1. /\ load.at = "asked" /\ load' = [load EXCEPT !.at = "answered", !.answer = Snapshot]
      /\ UNCHANGED <<server, net, socket, page, recovery, ghosts>>
  BY DEF LoadAnswered
<1>2. load'.at = "answered" /\ load'.answer = Snapshot /\ load'.queue = load.queue
  BY <1>1 DEF NetOK
<1>3. /\ Waiting' = Waiting /\ Coming' = Coming /\ Unsent' = Unsent /\ World' = World /\ SameNet
      /\ whole' = whole
  BY <1>1, <1>2 DEF server, net, ghosts, Waiting, Coming, Unsent, World, SameNet, Clean, Connected
<1>4. Flow' = Flow
  BY <1>3 DEF Flow
<1> QED BY <1>1, <1>2, <1>3, <1>4 DEF Opens, LineStays, FlowOK

\* What waited is handled or dropped, and nothing waits any more.
LEMMA WaitedLeaves ==
    ASSUME NetOK, FlowOK, UNCHANGED <<server, net, socket>>, load'.at = "done", recovery'.buffer = <<>>
    PROVE  LineStays /\ Leaves(Range(Waiting)) /\ World' = World
<1>1. Waiting' = <<>> /\ Coming' = Coming /\ Unsent' = Unsent /\ World' = World
  BY DEF Waiting, Coming, Unsent, World, server, net
<1>2. Line(<<>>, Coming, Unsent) /\ Range(<<>>) = {}
  BY LineEmpties DEF FlowOK
<1>3. Flow' = Range(Coming) \cup Unsent
  BY <1>1, <1>2 DEF Flow
<1>4. Leaves(Range(Waiting))
  BY <1>3 DEF Leaves, Flow, FlowOK, Line
<1> QED BY <1>1, <1>2, <1>4 DEF LineStays

\* What a recovery resumes with.
LEMMA Resumes ==
    ASSUME NetOK, FlowOK, NEW pg, NEW covered, recovery.running, Resume(pg, load, covered)
    PROVE  /\ load.at = "done" /\ load' = load /\ ~ recovery'.running /\ recovery'.buffer = <<>>
           /\ \E rest : /\ Chosen(rest, {e \in Range(Waiting) : e.id \notin covered})
                        /\ page' = ApplyAll(pg, rest)
<1> DEFINE rest == Only(recovery.buffer, {e \in Range(recovery.buffer) : e.id \notin covered})
<1>1. load.at = "done" /\ Waiting = recovery.buffer /\ Waiting \in Seq(Event) /\ Sorted(Waiting)
  BY Sequences DEF NetOK, FlowOK, Line
<1>2. /\ recovery' = [running |-> FALSE, answer |-> None, buffer |-> <<>>, covered |-> covered,
                      crossed |-> FALSE]
      /\ page' = ApplyAll(pg, rest) /\ load' = load
  BY <1>1 DEF Resume, Handle
<1>3. Chosen(rest, {e \in Range(Waiting) : e.id \notin covered})
  <2> DEFINE S == {e \in Range(recovery.buffer) : e.id \notin covered}
  <2>1. S \subseteq Range(recovery.buffer) /\ S = {e \in Range(Waiting) : e.id \notin covered}
    BY <1>1
  <2> HIDE DEF S
  <2>2. Only(recovery.buffer, S) \in Seq(Event) /\ Range(Only(recovery.buffer, S)) = S
        /\ Sorted(Only(recovery.buffer, S))
    BY <1>1, <2>1, OnlyKeeps
  <2>3. rest = Only(recovery.buffer, S)
    BY DEF S
  <2> QED BY <2>1, <2>2, <2>3 DEF Chosen
<1> HIDE DEF rest
<1> QED BY <1>1, <1>2, <1>3

\* The answer of a recovery is shown, then what waited.
LEMMA RecoverRecovers ==
    ASSUME NetOK, FlowOK, Recover
    PROVE  LineStays /\ Recovers
<1> DEFINE a == recovery.answer
<1>1. load.at = "done" /\ ~ recovery.crossed /\ recovery.running /\ a # None
  BY DEF Recover, NetOK
<1>2. /\ Resume(Recovered(page, a), load, a.covered)
      /\ UNCHANGED <<server, net, socket, troubles>> /\ whole' = TRUE
  BY <1>1 DEF Recover, Recovered
<1>3. /\ load' = load /\ ~ recovery'.running /\ recovery'.buffer = <<>>
      /\ \E rest : /\ Chosen(rest, {e \in Range(Waiting) : e.id \notin a.covered})
                   /\ page' = ApplyAll(Recovered(page, a), rest)
  BY <1>1, <1>2, Resumes
<1>4. LineStays /\ Leaves(Range(Waiting)) /\ World' = World
  BY <1>1, <1>2, <1>3, WaitedLeaves
<1>5. SameNet
  BY <1>2 DEF SameNet, net, Clean, Connected
<1> QED BY <1>1, <1>2, <1>3, <1>4, <1>5 DEF Recovers

\* The session is shown, then what waited; the history adds nothing to the
\* answer of get_active_chat, or the page is no longer timely.
LEMMA LoadedLoads ==
    ASSUME NetOK, FlowOK, Loaded
    PROVE  LineStays /\ (Loads \/ Misloads)
<1> DEFINE a == load.answer
           told == Only(history.events, OnlyInHistory(a.events))
           all  == told \o a.events
           pg   == [seen |-> a.covered \cup Ids(told),
                    story |-> Only(all, {e \in Range(all) : IsStory(e)}),
                    dialogs |-> OpenIn(a.events),
                    over |-> {e.turn : e \in {f \in Range(all) : f.kind = "completed"}},
                    busy |-> a.running,
                    active |-> IF a.running /\ a.events # <<>> THEN a.events[Len(a.events)].turn
                               ELSE page.active]
<1>1. /\ load.at = "answered" /\ page' = ApplyAll(pg, load.queue)
      /\ load' = [at |-> "done", queue |-> <<>>, answer |-> None]
      /\ recovery' = [recovery EXCEPT !.crossed = @ \/ recovery.running]
      /\ timely' = (timely /\ told = <<>>)
      /\ UNCHANGED <<server, net, socket, troubles, whole>>
  BY DEF Loaded
<1>2. /\ Waiting = load.queue /\ Waiting \in Seq(Event) /\ Sorted(Waiting) /\ ~ recovery.running
      /\ recovery.buffer = <<>>
  BY <1>1, Sequences DEF NetOK, FlowOK, Line
<1>3. recovery'.buffer = <<>> /\ (recovery'.running <=> recovery.running) /\ load'.at = "done"
  BY <1>1, <1>2 DEF NetOK
<1>4. LineStays /\ Leaves(Range(Waiting)) /\ World' = World
  BY <1>1, <1>3, WaitedLeaves
<1>5. SameNet /\ whole' = whole
  BY <1>1 DEF SameNet, net, Clean, Connected
<1>6. Chosen(Waiting, Range(Waiting))
  BY <1>2 DEF Chosen
<1>7. a.events \in Seq(Event) /\ a.covered \in SUBSET (Nat \X Nat)
  BY DEF NetOK, Answers
<1>8. ASSUME told = <<>> PROVE pg = OpenedWith(page, a)
  <2> HIDE DEF told, a, Event
  <2>1. all = a.events
    BY <1>7, <1>8
  <2>2. Ids(<<>>) = {}
    BY DEF Ids
  <2>3. a.covered \cup Ids(told) = a.covered
    BY <1>8, <2>2
  <2> HIDE DEF all
  <2> QED BY <2>1, <2>3 DEF OpenedWith
<1> HIDE DEF told, pg
<1>9. CASE told = <<>>
  <2>1. page' = ApplyAll(OpenedWith(page, load.answer), Waiting)
    BY <1>1, <1>2, <1>8, <1>9
  <2> QED BY <1>1, <1>2, <1>3, <1>4, <1>5, <1>6, <2>1 DEF Loads
<1>10. CASE told # <<>>
  <2>1. ~ timely'
    BY <1>1, <1>10
  <2> QED BY <1>4, <1>5, <2>1 DEF Misloads
<1> QED BY <1>9, <1>10

\* A request that fails loses what waited, or applies some of it.
LEMMA FailureFails ==
    ASSUME NetOK, FlowOK, Failure
    PROVE  LineStays /\ Fails
<1>1. ASSUME Failed, UNCHANGED <<server, net, socket>> PROVE ~ Clean' /\ (Connected' <=> Connected)
  <2>1. troubles'.failures = troubles.failures + 1 /\ troubles.failures \in Nat
    BY <1>1 DEF Failed, FlowOK
  <2> QED BY <1>1, <2>1 DEF Clean, Connected, net
<1>2. CASE LoadFails
  <2>1. /\ load.at # "done" /\ Failed /\ whole' = FALSE
        /\ load' = [at |-> "done", queue |-> <<>>, answer |-> None]
        /\ UNCHANGED <<server, net, socket, page, recovery>>
    BY <1>2 DEF LoadFails, NotOpened
  <2>2. ~ recovery.running /\ recovery.buffer = <<>>
    BY <2>1, Sequences DEF NetOK
  <2>3. LineStays /\ Leaves(Range(Waiting)) /\ World' = World
    BY <2>1, <2>2, WaitedLeaves
  <2> QED BY <1>1, <2>1, <2>2, <2>3 DEF Fails, net
<1>3. CASE RecoverFails
  <2>1. /\ recovery.running /\ Failed /\ whole' = FALSE /\ Resume(page, load, recovery.covered)
        /\ UNCHANGED <<server, net, socket>>
    BY <1>3 DEF RecoverFails
  <2>2. /\ load.at = "done" /\ load' = load /\ ~ recovery'.running /\ recovery'.buffer = <<>>
        /\ \E rest : /\ Chosen(rest, {e \in Range(Waiting) : e.id \notin recovery.covered})
                     /\ page' = ApplyAll(page, rest)
    BY <2>1, Resumes
  <2>3. LineStays /\ Leaves(Range(Waiting)) /\ World' = World
    BY <2>1, <2>2, WaitedLeaves
  <2>4. {e \in Range(Waiting) : e.id \notin recovery.covered} \subseteq Range(Waiting)
    OBVIOUS
  <2> QED BY <1>1, <2>1, <2>2, <2>3, <2>4 DEF Fails, net
<1> QED BY <1>2, <1>3 DEF Failure

\* The close of the socket aborts what is under way.
LEMMA NoticedFails ==
    ASSUME NetOK, FlowOK, Noticed
    PROVE  LineStays /\ (Loses \/ Fails)
<1>1. /\ socket # 0 /\ socket \notin alive /\ wire[socket] = <<>> /\ socket' = 0 /\ Abort
      /\ troubles' = [troubles EXCEPT !.aborts = @ \/ UnderWay] /\ whole' = (whole /\ ~ UnderWay)
      /\ UNCHANGED <<server, net>>
  BY DEF Noticed
<1>2. /\ Coming = <<>> /\ Unsent = {} /\ Coming' = <<>> /\ Unsent' = {} /\ ~ Connected' /\ World' = World
      /\ opened' = opened
  BY <1>1, Sequences DEF Coming, Unsent, Connected, World, server, net
<1>3. Flow = Range(Waiting) /\ Flow' = Range(Waiting')
  BY <1>2, LineEmpties DEF Flow, FlowOK
<1>4. ASSUME Waiting' = <<>> PROVE LineStays /\ Flow' = {} /\ Leaves(Range(Waiting))
  <2>1. Range(<<>>) = {} /\ Line(<<>>, <<>>, {})
    BY LineEmpties DEF FlowOK
  <2>2. Flow' = {}
    BY <1>3, <1>4, <2>1
  <2> QED BY <1>2, <1>3, <1>4, <2>1, <2>2 DEF LineStays, Leaves
<1>5. UnderWay => whole' = FALSE /\ ~ Clean'
  <2> SUFFICES ASSUME UnderWay PROVE whole' = FALSE /\ ~ Clean'
    OBVIOUS
  <2>1. whole' = FALSE
    BY <1>1
  <2>2. [troubles EXCEPT !.aborts = @ \/ UnderWay] = [troubles EXCEPT !.aborts = TRUE]
    BY DEF FlowOK
  <2>3. troubles'.aborts = TRUE
    BY <1>1, <2>2 DEF FlowOK
  <2> QED BY <2>1, <2>3 DEF Clean
<1>6. CASE recovery.running
  <2>1. NotOpened = load /\ UnderWay
    BY <1>6 DEF NotOpened, NetOK, UnderWay
  <2>2. Resume(page, load, recovery.covered)
    BY <1>1, <1>6, <2>1 DEF Abort
  <2>3. /\ load.at = "done" /\ load' = load /\ ~ recovery'.running /\ recovery'.buffer = <<>>
        /\ \E rest : /\ Chosen(rest, {e \in Range(Waiting) : e.id \notin recovery.covered})
                     /\ page' = ApplyAll(page, rest)
    BY <1>6, <2>2, Resumes
  <2>4. Waiting' = <<>>
    BY <2>3 DEF Waiting
  <2>5. {e \in Range(Waiting) : e.id \notin recovery.covered} \subseteq Range(Waiting)
    OBVIOUS
  <2> QED BY <1>2, <1>4, <1>5, <2>1, <2>3, <2>4, <2>5 DEF Fails
<1>7. CASE ~ recovery.running /\ load.at # "done"
  <2>1. /\ load' = [at |-> "done", queue |-> <<>>, answer |-> None] /\ UNCHANGED <<page, recovery>>
        /\ recovery.buffer = <<>> /\ UnderWay
    BY <1>1, <1>7 DEF Abort, NotOpened, NetOK, UnderWay
  <2>2. Waiting' = <<>>
    BY <2>1 DEF Waiting
  <2> QED BY <1>2, <1>4, <1>5, <1>7, <2>1, <2>2 DEF Fails
<1>8. CASE ~ recovery.running /\ load.at = "done"
  <2>1. /\ load' = load /\ UNCHANGED <<page, recovery>> /\ ~ UnderWay /\ Waiting = <<>>
    BY <1>1, <1>8, Sequences DEF Abort, NotOpened, UnderWay
  <2>2. Waiting' = <<>> /\ Range(<<>>) = {}
    BY <2>1, LineEmpties DEF Waiting, FlowOK
  <2>3. Flow = {} /\ Flow' = {}
    BY <1>3, <2>1, <2>2
  <2>4. (whole' <=> whole) /\ (Clean' <=> Clean)
    <3>1. [troubles EXCEPT !.aborts = @ \/ UnderWay] = [troubles EXCEPT !.aborts = troubles.aborts]
      BY <2>1 DEF FlowOK
    <3>2. troubles' = troubles
      BY <1>1, <3>1 DEF FlowOK
    <3> QED BY <1>1, <2>1, <3>2 DEF Clean
  <2> QED BY <1>2, <1>4, <2>1, <2>2, <2>3, <2>4 DEF Loses
<1> QED BY <1>6, <1>7, <1>8

\* The user decides a question that is shown.
LEMMA RespondDecides ==
    ASSUME NetOK, FlowOK, NEW p \in Permissions, Respond(p)
    PROVE  LineStays /\ Decides
<1>1. /\ asks[p] = "pending" /\ asks' = [asks EXCEPT ![p] = "answered"]
      /\ page' = [page EXCEPT !.dialogs = {d \in @ : d.about # p}]
      /\ UNCHANGED <<turn, made, emitted, sending, net, socket, recovery, load, ghosts>>
  BY DEF Respond
<1>2. Waiting' = Waiting /\ Coming' = Coming /\ Unsent' = Unsent /\ SameNet
  BY <1>1 DEF net, ghosts, Waiting, Coming, Unsent, SameNet, Clean, Connected
<1>3. Flow' = Flow
  BY <1>2 DEF Flow
<1> QED BY <1>1, <1>2, <1>3 DEF LineStays, FlowOK, Decides, ghosts

\* Every step is one of those above.
LEMMA EveryStep ==
    ASSUME ServerOK, TurnOK, NetOK, FlowOK, [Next]_vars
    PROVE  LineStays /\ (Steps \/ Misloads)
<1>1. ASSUME UNCHANGED <<net, ui, ghosts, sending, emitted>> PROVE LineStays /\ Emits
  <2>1. New = {}
    BY <1>1 DEF New
  <2>2. LineStays /\ SameNet /\ Flow' = Flow
    BY <1>1, Silence
  <2> QED BY <1>1, <2>1, <2>2 DEF Emits, ui, ghosts
<1>2. CASE Say \/ Stop \/ Complete \/ TurnOver \/ (\E p \in Permissions : Ask(p)) \/ Returns \/ UNCHANGED vars
  <2>1. UNCHANGED <<net, ui, ghosts, sending, emitted>>
    BY <1>2 DEF Say, Stop, Complete, TurnOver, Ask, Returns, AskReturns, vars, server
  <2> QED BY <1>1, <2>1 DEF Steps
<1>3. CASE Prompt
  <2>1. UNCHANGED <<net, ui, ghosts, sending>> /\ emitted' = <<>>
    BY <1>3 DEF Prompt
  <2>2. New = {}
    BY <2>1 DEF New, Range
  <2>3. LineStays /\ SameNet /\ Flow' = Flow
    BY <2>1, Silence
  <2> QED BY <2>1, <2>2, <2>3 DEF Steps, Emits, ui, ghosts
<1>4. CASE EmitReturns
  <2>1. UNCHANGED <<net, ui, ghosts, emitted>> /\ sending.to = {} /\ sending' = Idle
    BY <1>4 DEF EmitReturns
  <2>2. Waiting' = Waiting /\ Coming' = Coming /\ Unsent' = Unsent /\ SameNet /\ New = {}
    BY <2>1 DEF net, ui, ghosts, Waiting, Coming, Unsent, SameNet, Clean, Connected, New, Idle
  <2>3. Flow' = Flow
    BY <2>2 DEF Flow
  <2> QED BY <2>1, <2>2, <2>3 DEF Steps, Emits, ui, ghosts, LineStays, FlowOK
<1>5. CASE Emit
  BY <1>5, EmitEmits DEF Steps
<1>6. ASSUME NEW c \in Sockets, Send(c) \/ SendTimesOut(c) PROVE LineStays /\ Steps
  BY <1>6, SendLoses DEF Steps
<1>7. ASSUME NEW c \in Sockets, Break(c) PROVE LineStays /\ Steps
  BY <1>7, BreakLoses DEF Steps
<1>8. ASSUME NEW c \in Sockets, Disconnect(c) PROVE LineStays /\ Steps
  BY <1>8, DisconnectEmits DEF Steps
<1>9. CASE Connect
  BY <1>9, ConnectConnects DEF Steps
<1>10. CASE Receive
  BY <1>10, Receives DEF Steps
<1>11. CASE Answer
  BY <1>11, AnswerAsks DEF Steps
<1>12. CASE LoadAnswered
  BY <1>12, AnsweredOpens DEF Steps
<1>13. CASE Recover
  BY <1>13, RecoverRecovers DEF Steps
<1>14. CASE Loaded
  BY <1>14, LoadedLoads DEF Steps
<1>15. CASE Noticed
  BY <1>15, NoticedFails DEF Steps
<1>16. CASE Failure
  BY <1>16, FailureFails DEF Steps
<1>17. ASSUME NEW p \in Permissions, Respond(p) PROVE LineStays /\ Steps
  BY <1>17, RespondDecides DEF Steps
<1>18. CASE ReadHistory
  <2>1. UNCHANGED <<net, page, load, recovery, socket, ghosts, sending, emitted>>
    BY <1>18 DEF ReadHistory, server
  <2>2. Waiting' = Waiting /\ Coming' = Coming /\ Unsent' = Unsent /\ SameNet /\ New = {}
    BY <2>1 DEF net, ghosts, Waiting, Coming, Unsent, SameNet, Clean, Connected, New
  <2>3. Flow' = Flow
    BY <2>2 DEF Flow
  <2> QED BY <2>1, <2>2, <2>3 DEF Steps, Emits, ghosts, LineStays, FlowOK
<1> QED BY <1>2, <1>3, <1>4, <1>5, <1>6, <1>7, <1>8, <1>9, <1>10, <1>11, <1>12, <1>13, <1>14,
           <1>15, <1>16, <1>17, <1>18
    DEF Next, Turns, Returns, Deliver, Trouble, Show, Decide

\* What is timely after a step was so before it.
LEMMA TimelyBefore ==
    ASSUME [Next]_vars, timely'
    PROVE  timely
<1> USE DEF ghosts
<1>1. CASE Turns \/ Returns \/ Deliver \/ Connect \/ Decide \/ UNCHANGED vars
  BY <1>1 DEF Turns, Returns, Deliver, Connect, Decide, Prompt, Say, Stop, Complete, TurnOver, Ask,
     AskReturns, Emit, EmitReturns, Send, Disconnect, Respond, vars
<1>2. CASE Trouble
  BY <1>2 DEF Trouble, SendTimesOut, Break
<1>3. CASE Noticed \/ Receive \/ LoadAnswered \/ ReadHistory \/ Answer \/ Recover \/ Failure
  BY <1>3 DEF Noticed, Receive, LoadAnswered, ReadHistory, Answer, Recover, Failure, LoadFails, RecoverFails
<1>4. CASE Loaded
  <2>1. \E told : timely' = (timely /\ told = <<>>)
    BY <1>4 DEF Loaded
  <2> QED BY <2>1
<1> QED BY <1>1, <1>2, <1>3, <1>4 DEF Next, Show

\* The steps of a page that stays timely.
LEMMA TimelySteps ==
    ASSUME ServerOK, TurnOK, NetOK, FlowOK, [Next]_vars, timely'
    PROVE  timely /\ Steps
BY EveryStep, TimelyBefore DEF Misloads

\* What was told of the turn is numbered, begins with a text, ends with its
\* completion, and agrees with what is asked and answered.
THEOREM WorldCorrect == Spec => []WorldOK(World)
<1>1. ServerOK /\ TurnOK => WorldOK(World)
  BY WorldIsOK
<1> QED BY <1>1, ServerCorrect, TurnsAreTold, PTL

\* Nothing is on its way that was not emitted, and it comes in the order of
\* its emission, through the wire and through what waits in the page.
THEOREM FlowCorrect == Spec => []FlowOK
<1>1. Init => FlowOK
  <2> SUFFICES ASSUME Init PROVE FlowOK
    OBVIOUS
  <2>1. Waiting = <<>> /\ Coming = <<>> /\ Unsent = {}
    BY BoundsAssumption DEF Init, Waiting, Coming, Unsent, Sockets, Idle
  <2>2. Line(<<>>, <<>>, {}) /\ Range(<<>>) = {}
    BY DEF Line, Sorted, Range
  <2>3. /\ troubles \in [timeouts : Nat, failures : Nat, aborts : BOOLEAN] /\ whole \in BOOLEAN
    BY DEF Init
  <2> QED BY <2>1, <2>2, <2>3 DEF FlowOK, Flow
<1>2. ServerOK /\ TurnOK /\ NetOK /\ FlowOK /\ [Next]_vars
      /\ WorldOK(World) /\ WorldOK(World)' => FlowOK'
  <2> SUFFICES ASSUME ServerOK, TurnOK, NetOK, FlowOK, [Next]_vars,
                      WorldOK(World), WorldOK(World)'
               PROVE  FlowOK'
    OBVIOUS
  <2>1. LineStays /\ (Steps \/ Misloads)
    BY EveryStep
  <2>2. Flow' \subseteq Flow \cup New
    BY <2>1 DEF Steps, Emits, Decides, Loses, Connects, Holds, Hears, Asks, Opens, Recovers,
                Loads, Fails, Misloads, Leaves, New, World
  <2>3. WorldOK(World) /\ WorldOK(World') /\ GoesOn(World, World', New)
    BY WorldGoesOn
  <2>4. \A e \in Flow : Genuine(e, World')
    BY <2>3, GenuineGoesOn DEF FlowOK
  <2>5. \A e \in New : Genuine(e, World')
    <3>1. New \subseteq World'.told
      BY DEF New, World
    <3> QED BY <2>3, <3>1, ToldIsGenuine
  <2>6. \A e \in Flow' : Genuine(e, World')
    BY <2>2, <2>4, <2>5
  <2>7. /\ troubles' \in [timeouts : Nat, failures : Nat, aborts : BOOLEAN] /\ whole' \in BOOLEAN
    <3> USE DEF FlowOK, ghosts
    <3>1. ASSUME Turns \/ Returns \/ Deliver \/ Connect \/ Decide \/ UNCHANGED vars PROVE UNCHANGED ghosts
      BY <3>1 DEF Turns, Returns, Deliver, Connect, Decide, Prompt, Say, Stop, Complete, TurnOver, Ask,
         AskReturns, Emit, EmitReturns, Send, Disconnect, Respond, vars
    <3>3. ASSUME Trouble PROVE UNCHANGED ghosts \/ (whole' = whole /\ TimedOut)
      BY <3>3 DEF Trouble, SendTimesOut, Break
    <3>4. ASSUME Receive \/ LoadAnswered \/ ReadHistory \/ Loaded \/ Answer
          PROVE  UNCHANGED <<troubles, whole>>
      BY <3>4 DEF Receive, LoadAnswered, ReadHistory, Loaded, Answer
    <3>5. ASSUME Recover \/ Failure
          PROVE  whole' \in BOOLEAN /\ (troubles' = troubles \/ Failed)
      BY <3>5 DEF Recover, Failure, LoadFails, RecoverFails
    <3>2. CASE Noticed
      <4> DEFINE aborts == troubles.aborts \/ UnderWay
      <4>1. aborts \in BOOLEAN
        BY DEF UnderWay
      <4>2. troubles' = [troubles EXCEPT !.aborts = aborts] /\ whole' \in BOOLEAN
        BY <3>2 DEF Noticed
      <4> HIDE DEF aborts
      <4> QED BY <4>1, <4>2
    <3>6. UNCHANGED ghosts => troubles' = troubles /\ whole' = whole
      BY DEF ghosts
    <3>7. TimedOut \/ Failed => troubles' \in [timeouts : Nat, failures : Nat, aborts : BOOLEAN]
      BY DEF TimedOut, Failed
    <3> QED BY <3>1, <3>2, <3>3, <3>4, <3>5, <3>6, <3>7 DEF Next, Show
  <2> QED BY <2>1, <2>6, <2>7 DEF FlowOK, LineStays
<1> QED BY <1>1, <1>2, ServerCorrect, TurnsAreTold, WorldCorrect, NetCorrect, PTL DEF Spec

-----------------------------------------------------------------------------
(* What the page shows agrees with what was told *)

\* What is known of an answer on its way to the page.
AnswerOK(a, F, w) ==
    /\ a \in Answers /\ Sorted(a.events)
    /\ \A e \in Range(a.events) : Genuine(e, w)
    /\ a.covered \subseteq Past(w)
    /\ \E t, m \in Nat : /\ a.covered = {t} \X (1..m) /\ t <= w.cur
                         /\ \A e \in Range(a.events) : e.turn = t /\ e.id \in a.covered
    /\ \A x \in F \cup w.told : Matters(x, w) /\ x.id \in a.covered => x \in Range(a.events)
    /\ \A x \in Range(a.events) : x.turn = w.cur => (a.running <=> ~ Ended(Range(a.events)))

\* The page knows nothing of the answer's turn that the answer does not cover,
\* and no part of its story that it does not tell.
Heard(a, pg, w) ==
    /\ \E t, m \in Nat : /\ a.covered = {t} \X (1..m) /\ t <= w.cur
                         /\ \A id \in pg.seen : id[1] < t \/ id \in a.covered
    /\ \A x \in Range(pg.story) : x.id \in a.covered => x \in Range(a.events)

\* Everything on the page was told, no part of the story that it has seen is
\* missing from it, and who waits and was seen is shown.
PageOK(pg, F, w) ==
    /\ Agrees(pg)
    /\ \A x \in Range(pg.story) \cup pg.dialogs : Genuine(x, w)
    /\ pg.seen \subseteq Past(w)
    /\ \A x \in F \cup w.told : IsStory(x) /\ x.id \in pg.seen => x \in Range(pg.story)
    /\ \A x \in w.told :
         x.kind = "requested" /\ w.asks[x.about] = "pending" /\ x.id \in pg.seen => x \in pg.dialogs
    /\ KnowsActive(pg, w.cur)

Empty(pg) == pg.seen = {} /\ pg.story = <<>> /\ pg.dialogs = {} /\ pg.over = {}

PageCorrect ==
    /\ PageOK(page, Flow, World)
    /\ load.at # "done" => Empty(page)
    /\ load.at = "answered" => AnswerOK(load.answer, Flow, World)
    /\ recovery.answer # None => AnswerOK(recovery.answer, Flow, World) /\ Heard(recovery.answer, page, World)

\* No two events have the same id.
LEMMA Distinct ==
    ASSUME NetOK, FlowOK, WorldOK(World), NEW x \in Flow \cup World.told, NEW y \in Flow \cup World.told,
           x.id = y.id
    PROVE  x = y
<1>1. \A e \in World.told : Genuine(e, World)
  BY ToldIsGenuine
<1>2. /\ Genuine(x, World) /\ Genuine(y, World) /\ x.turn = y.turn
      /\ x.id[2] \in Nat /\ y.id[2] \in Nat /\ x.turn \in Nat
  BY <1>1 DEF FlowOK, Genuine, Event
<1>3. CASE x.turn = World.cur
  BY <1>2, <1>3 DEF Genuine, WorldOK
<1>4. CASE x.turn # World.cur
  <2>1. x \in Flow /\ y \in Flow
    BY <1>2, <1>4 DEF WorldOK
  <2>2. ~ Before(x, y) /\ ~ Before(y, x)
    BY <1>2 DEF Before
  <2>3. ASSUME NEW s, Sorted(s), x \in Range(s), y \in Range(s),
               DOMAIN s \subseteq Nat
        PROVE  x = y
    <3>1. PICK i \in DOMAIN s : x = s[i]
      BY <2>3 DEF Range
    <3>2. PICK j \in DOMAIN s : y = s[j]
      BY <2>3 DEF Range
    <3>3. i \in Nat /\ j \in Nat
      BY <2>3
    <3> QED BY <2>2, <2>3, <3>1, <3>2, <3>3 DEF Sorted
  <2>4. DOMAIN Waiting \subseteq Nat /\ DOMAIN Coming \subseteq Nat
    <3>1. \A s \in Seq(Event) : DOMAIN s \subseteq Nat
      OBVIOUS
    <3>2. Waiting \in Seq(Event) /\ Coming \in Seq(Event)
      BY Sequences
    <3> QED BY <3>1, <3>2
  <2> QED BY <2>1, <2>2, <2>3, <2>4 DEF Flow, FlowOK, Line, Unsent
<1> QED BY <1>3, <1>4

\* The questions that events in order leave open.
LEMMA OpenInIs ==
    ASSUME NEW es \in Seq(Event), Sorted(es)
    PROVE  /\ \A d \in OpenIn(es) :
                /\ d \in Range(es) /\ d.kind = "requested"
                /\ \A c \in Range(es) : c.kind = "completed" => c.turn # d.turn
                /\ \A r \in Range(es) : Settles(r, d) => ~ Before(d, r)
           /\ \A d \in Range(es) :
                /\ d.kind = "requested"
                /\ \A c \in Range(es) : c.kind = "completed" => c.turn # d.turn
                /\ \A r \in Range(es) : ~ Settles(r, d)
                => d \in OpenIn(es)
<1>1. /\ DOMAIN es = 1..Len(es) /\ Len(es) \in Nat
      /\ \A i \in DOMAIN es : es[i] \in Event /\ es[i] \in Range(es)
  BY DEF Range
<1>2. \A x, y \in Event : Before(x, y) => ~ Before(y, x)
  BY DEF Before, Event
<1>3. \A x \in Event : ~ Before(x, x)
  BY DEF Before, Event
<1> HIDE DEF Event
<1>4. ASSUME NEW d \in OpenIn(es)
      PROVE  /\ d \in Range(es) /\ d.kind = "requested"
             /\ \A c \in Range(es) : c.kind = "completed" => c.turn # d.turn
             /\ \A r \in Range(es) : Settles(r, d) => ~ Before(d, r)
  <2>1. PICK j \in DOMAIN es :
          /\ d = es[j] /\ es[j].kind = "requested"
          /\ \A k \in DOMAIN es : /\ ~ (k > j /\ es[k].kind = "resolved" /\ es[k].about = es[j].about)
                                  /\ ~ (es[k].kind = "completed" /\ es[k].turn = es[j].turn)
    BY DEF OpenIn
  <2>2. ASSUME NEW k \in DOMAIN es, Settles(es[k], d) PROVE ~ Before(d, es[k])
    <3>1. ~ (k > j)
      BY <2>1, <2>2 DEF Settles
    <3>2. k < j \/ k = j
      BY <1>1, <3>1
    <3> QED BY <1>1, <1>2, <1>3, <2>1, <3>2 DEF Sorted
  <2> QED BY <1>1, <2>1, <2>2 DEF Range
<1>5. ASSUME NEW d \in Range(es), d.kind = "requested",
             \A c \in Range(es) : c.kind = "completed" => c.turn # d.turn,
             \A r \in Range(es) : ~ Settles(r, d)
      PROVE  d \in OpenIn(es)
  <2>1. PICK j \in DOMAIN es : d = es[j]
    BY DEF Range
  <2> QED BY <1>1, <1>5, <2>1 DEF OpenIn, Settles
<1> QED BY <1>4, <1>5

\* An answer on its way stays right as the world goes on.
LEMMA AnswerGoesOn ==
    ASSUME NEW w, NEW v, NEW new, WorldOK(w), GoesOn(w, v, new), NEW F, NEW G,
           \A e \in F : Genuine(e, w), G \subseteq F \cup new, NEW a, AnswerOK(a, F, w)
    PROVE  AnswerOK(a, G, v)
<1>1. \A e \in Range(a.events) : Genuine(e, v)
  BY GenuineGoesOn DEF AnswerOK
<1>2. a.covered \subseteq Past(v) /\ \A e \in new : e.id \notin a.covered
  BY PastGoesOn DEF AnswerOK
<1>3. w.cur \in Nat /\ w.cur <= v.cur /\ v.cur \in Nat
  BY DEF WorldOK, GoesOn
<1>4. PICK t \in Nat, m \in Nat : /\ a.covered = {t} \X (1..m) /\ t <= w.cur
                                  /\ \A e \in Range(a.events) : e.turn = t /\ e.id \in a.covered
  BY DEF AnswerOK
<1>5. t <= v.cur
  BY <1>3, <1>4
<1>6. ASSUME NEW x \in G \cup v.told, Matters(x, v), x.id \in a.covered PROVE x \in Range(a.events)
  <2>1. x \in F \cup w.told /\ Genuine(x, w)
    <3>1. x \notin new
      BY <1>2, <1>6
    <3> QED BY <3>1, ToldIsGenuine DEF GoesOn
  <2>2. Matters(x, w)
    BY <1>6, <2>1 DEF Matters, Genuine, GoesOn
  <2> QED BY <1>6, <2>1, <2>2 DEF AnswerOK
<1>7. ASSUME NEW x \in Range(a.events), x.turn = v.cur
      PROVE  a.running <=> ~ Ended(Range(a.events))
  <2>1. x.turn = w.cur
    BY <1>3, <1>4, <1>7
  <2> QED BY <2>1 DEF AnswerOK
<1>8. \E s, n \in Nat : /\ a.covered = {s} \X (1..n) /\ s <= v.cur
                        /\ \A e \in Range(a.events) : e.turn = s /\ e.id \in a.covered
  BY <1>4, <1>5
<1> QED BY <1>1, <1>2, <1>6, <1>7, <1>8 DEF AnswerOK

\* A page stays right as the world goes on.
LEMMA PageGoesOn ==
    ASSUME NEW w, NEW v, NEW new, WorldOK(w), GoesOn(w, v, new), NEW F, NEW G,
           G \subseteq F \cup new, NEW pg, PageOK(pg, F, w)
    PROVE  PageOK(pg, G, v)
<1>1. \A e \in Range(pg.story) \cup pg.dialogs : Genuine(e, v)
  BY GenuineGoesOn DEF PageOK
<1>2. pg.seen \subseteq Past(v) /\ \A e \in new : e.id \notin pg.seen
  BY PastGoesOn DEF PageOK
<1>3. w.cur \in Nat /\ (v.cur = w.cur \/ v.cur = w.cur + 1)
  BY DEF WorldOK, GoesOn
<1>4. v.told \subseteq w.told \cup new
  BY DEF GoesOn
<1>5. \A x \in G \cup v.told : IsStory(x) /\ x.id \in pg.seen => x \in Range(pg.story)
  BY <1>2, <1>4 DEF PageOK
<1>6. ASSUME NEW x \in v.told, x.kind = "requested", v.asks[x.about] = "pending", x.id \in pg.seen
      PROVE  x \in pg.dialogs
  <2>1. x \in w.told
    BY <1>2, <1>4, <1>6
  <2>2. x.about \in Permissions /\ w.asks[x.about] # "none"
    BY <1>6, <2>1 DEF WorldOK, OfKind
  <2> QED BY <1>6, <2>1, <2>2 DEF PageOK, GoesOn
<1>7. KnowsActive(pg, v.cur)
  <2>1. CASE v.cur = w.cur
    BY <2>1 DEF PageOK
  <2>2. CASE v.cur = w.cur + 1
    <3>1. \A x \in Range(pg.story) : x.turn <= w.cur /\ x.turn \in Nat
      BY DEF PageOK, Genuine, Event
    <3>2. ~ Tells(Range(pg.story), v.cur)
      BY <1>3, <2>2, <3>1 DEF Tells
    <3> QED BY <3>2 DEF KnowsActive
  <2> QED BY <1>3, <2>1, <2>2
<1> QED BY <1>1, <1>2, <1>5, <1>6, <1>7 DEF PageOK

\* A page that applies events stays right, whatever leaves what is on its way.
LEMMA PageApplies ==
    ASSUME NEW w, WorldOK(w), NEW F, NEW G, G \subseteq F, NEW pg, PageOK(pg, F, w),
           NEW es \in Seq(Event), Sorted(es), \A e \in Range(es) : Genuine(e, w),
           \A x \in F \cup w.told, e \in Range(es) : IsStory(x) /\ x.id = e.id => x = e
    PROVE  PageOK(ApplyAll(pg, es), G, w) /\ Applied(pg, ApplyAll(pg, es), Range(es))
<1> DEFINE P == Range(es)
           out == ApplyAll(pg, es)
<1>1. Applied(pg, out, P)
  <2>1. \A x \in Range(es) : x.id[1] = x.turn
    BY DEF Genuine
  <2> HIDE DEF Event
  <2> QED BY <2>1, AppliedAll DEF PageOK
<1> HIDE DEF out, P
<1>2. \A e \in P : Genuine(e, w) /\ e.id \in Past(w)
  BY SameWorld, PastGoesOn DEF P
<1>3. Agrees(out) /\ out.seen = pg.seen \cup {e.id : e \in P}
  BY <1>1 DEF Applied
<1>4. \A x \in Range(out.story) \cup out.dialogs : Genuine(x, w)
  BY <1>1, <1>2 DEF Applied, PageOK
<1>5. out.seen \subseteq Past(w)
  BY <1>2, <1>3 DEF PageOK
<1>6. ASSUME NEW x \in G \cup w.told, IsStory(x), x.id \in out.seen PROVE x \in Range(out.story)
  <2>1. CASE x.id \in pg.seen
    BY <1>1, <1>6, <2>1 DEF PageOK, Applied
  <2>2. CASE x.id \notin pg.seen
    <3>1. x \in P
      BY <1>3, <1>6, <2>2 DEF P
    <3> QED BY <1>1, <1>6, <2>2, <3>1 DEF Applied
  <2> QED BY <2>1, <2>2
<1>7. ASSUME NEW x \in w.told, x.kind = "requested", w.asks[x.about] = "pending", x.id \in out.seen
      PROVE  x \in out.dialogs
  <2>1. x.about \in Permissions /\ x.turn = w.cur /\ x.id[1] = w.cur
    BY <1>7 DEF WorldOK, OfKind
  <2>2. x.turn \notin out.over
    <3> SUFFICES ASSUME NEW c \in Range(out.story), c.kind = "completed", c.turn = w.cur PROVE FALSE
      BY <1>3, <2>1 DEF Agrees
    <3>1. c \in w.told
      BY <1>4 DEF Genuine
    <3>2. Ended(w.told)
      BY <3>1 DEF Ended, OfKind
    <3> QED BY <1>7, <2>1, <3>2 DEF WorldOK
  <2>3. \A r \in P : ~ Settles(r, x)
    BY <1>2, <1>7 DEF Settles, Genuine
  <2>4. CASE x.id \in pg.seen
    BY <1>1, <1>7, <2>2, <2>3, <2>4 DEF PageOK, Applied
  <2>5. CASE x.id \notin pg.seen
    <3>1. PICK e \in P : e.id = x.id
      BY <1>3, <1>7, <2>5
    <3>2. e \in w.told
      BY <1>2, <2>1, <3>1 DEF Genuine
    <3>3. e = x
      BY <3>1, <3>2 DEF WorldOK
    <3> QED BY <1>1, <1>7, <2>2, <2>3, <2>5, <3>3 DEF Applied
  <2> QED BY <2>4, <2>5
<1>8. KnowsActive(out, w.cur)
  BY <1>1, <1>2 DEF Applied, Genuine, PageOK, WorldOK
<1>9. PageOK(out, G, w)
  BY <1>3, <1>4, <1>5, <1>6, <1>7, <1>8 DEF PageOK
<1> QED BY <1>1, <1>9 DEF out, P

\* Events in order have different ids.
LEMMA SortedDistinct ==
    ASSUME NEW es \in Seq(Event), Sorted(es), NEW x \in Range(es), NEW y \in Range(es), x.id = y.id,
           x.id[1] = x.turn, y.id[1] = y.turn
    PROVE  x = y
<1>1. PICK i \in DOMAIN es : x = es[i]
  BY DEF Range
<1>2. PICK j \in DOMAIN es : y = es[j]
  BY DEF Range
<1>3. i \in Nat /\ j \in Nat /\ es[i] \in Event /\ es[j] \in Event
  OBVIOUS
<1>4. ~ Before(x, y) /\ ~ Before(y, x)
  BY <1>1, <1>2, <1>3 DEF Before, Event
<1> QED BY <1>1, <1>2, <1>3, <1>4 DEF Sorted

\* Who waits and is covered is among the questions that the answer leaves open.
LEMMA PendingIsOpen ==
    ASSUME NEW w, WorldOK(w), NEW F, NEW a, AnswerOK(a, F, w), NEW x \in w.told,
           x.kind = "requested", w.asks[x.about] = "pending", x.id \in a.covered
    PROVE  x \in OpenIn(a.events)
<1>1. x.about \in Permissions /\ x.turn = w.cur /\ Matters(x, w)
  BY DEF WorldOK, OfKind, Matters, Waits
<1>2. x \in Range(a.events) /\ a.events \in Seq(Event) /\ Sorted(a.events)
  BY <1>1 DEF AnswerOK, Answers
<1>3. ASSUME NEW c \in Range(a.events), c.kind = "completed", c.turn = x.turn PROVE FALSE
  <2>1. c \in w.told
    BY <1>1, <1>3 DEF AnswerOK, Genuine
  <2>2. Ended(w.told)
    BY <1>3, <2>1 DEF Ended, OfKind
  <2> QED BY <1>1, <2>2 DEF WorldOK
<1>4. \A r \in Range(a.events) : ~ Settles(r, x)
  BY DEF AnswerOK, Genuine, Settles
<1> QED BY <1>2, <1>3, <1>4, OpenInIs

\* What a recovery makes of the page, part by part.
LEMMA RecoveredFields ==
    ASSUME NEW w, WorldOK(w), NEW F, NEW pg, PageOK(pg, F, w), NEW a, AnswerOK(a, F, w)
    PROVE  /\ Applied(pg, ApplyAll(pg, a.events), Range(a.events))
           /\ PageOK(ApplyAll(pg, a.events), F, w)
           /\ Recovered(pg, a) \in Pages
           /\ Recovered(pg, a).seen = ApplyAll(pg, a.events).seen
           /\ Recovered(pg, a).story = ApplyAll(pg, a.events).story
           /\ Recovered(pg, a).over = ApplyAll(pg, a.events).over
           /\ Recovered(pg, a).active = ApplyAll(pg, a.events).active
           /\ Recovered(pg, a).dialogs = OpenIn(a.events)
           /\ Recovered(pg, a).busy = a.running
<1> DEFINE out == ApplyAll(pg, a.events)
<1>1. a.events \in Seq(Event) /\ Sorted(a.events) /\ a.running \in BOOLEAN
  BY DEF AnswerOK, Answers
<1>2. \A x \in F \cup w.told, e \in Range(a.events) : IsStory(x) /\ x.id = e.id => x = e
  <2> SUFFICES ASSUME NEW x \in F \cup w.told, NEW e \in Range(a.events), IsStory(x), x.id = e.id
               PROVE  x = e
    OBVIOUS
  <2>1. x.id \in a.covered
    BY DEF AnswerOK
  <2>2. x \in Range(a.events)
    BY <2>1 DEF AnswerOK, Matters, IsStory
  <2>3. x.id[1] = x.turn /\ e.id[1] = e.turn
    BY <2>2 DEF AnswerOK, Genuine
  <2> QED BY <1>1, <2>2, <2>3, SortedDistinct
<1>3. Applied(pg, out, Range(a.events)) /\ PageOK(out, F, w)
  <2>1. \A e \in Range(a.events) : Genuine(e, w)
    BY DEF AnswerOK
  <2> HIDE DEF Event
  <2> QED BY <1>1, <1>2, <2>1, PageApplies
<1>4. out \in Pages
  BY <1>3 DEF Applied, Agrees
<1> DEFINE dialogs == OpenIn(a.events)
           busy == a.running
           rec == Recovered(pg, a)
<1>5. dialogs \subseteq Event
  <2>1. dialogs \subseteq Range(a.events)
    BY <1>1, OpenInIs
  <2>2. Range(a.events) \subseteq Event
    BY <1>1 DEF Range
  <2> QED BY <2>1, <2>2
<1>6. rec = [out EXCEPT !.busy = busy, !.dialogs = dialogs]
  BY DEF Recovered
<1>7. busy \in BOOLEAN
  BY <1>1
<1> HIDE DEF out, rec, dialogs, busy
<1>8. /\ rec \in Pages /\ rec.seen = out.seen /\ rec.story = out.story /\ rec.over = out.over
      /\ rec.active = out.active /\ rec.dialogs = dialogs /\ rec.busy = busy
  BY <1>4, <1>5, <1>6, <1>7 DEF Pages
<1> QED BY <1>3, <1>8 DEF out, rec, dialogs, busy

\* A page that has shown the answer of a recovery is right.
LEMMA PageRecovers ==
    ASSUME NEW w, WorldOK(w), NEW F, NEW pg, PageOK(pg, F, w), NEW a, AnswerOK(a, F, w), Heard(a, pg, w)
    PROVE  PageOK(Recovered(pg, a), F, w)
<1> DEFINE out == ApplyAll(pg, a.events)
           rec == Recovered(pg, a)
<1>1. /\ Applied(pg, out, Range(a.events)) /\ PageOK(out, F, w) /\ rec \in Pages
      /\ rec.seen = out.seen /\ rec.story = out.story /\ rec.over = out.over
      /\ rec.active = out.active /\ rec.dialogs = OpenIn(a.events)
  BY RecoveredFields
<1> HIDE DEF out, rec
<1>2. PICK t \in Nat, m \in Nat : /\ a.covered = {t} \X (1..m) /\ t <= w.cur
                                  /\ \A id \in pg.seen : id[1] < t \/ id \in a.covered
  BY DEF Heard
<1>3. \A e \in Range(a.events) : e.turn = t /\ e.id \in a.covered /\ e.id[1] = e.turn /\ t <= w.cur
  BY <1>2 DEF AnswerOK, Genuine
<1>4. \A d \in rec.dialogs :
        /\ d \in Range(a.events) /\ d.kind = "requested"
        /\ \A c \in Range(a.events) : c.kind = "completed" => c.turn # d.turn
  BY <1>1, OpenInIs DEF AnswerOK, Answers
<1>5. Agrees(rec)
  <2>1. ASSUME NEW d \in rec.dialogs, NEW c \in Range(out.story), c.kind = "completed", c.turn = d.turn
        PROVE  FALSE
    <3>1. d.turn = t /\ c \notin Range(a.events)
      BY <1>3, <1>4, <2>1
    <3>2. c \in Range(pg.story)
      BY <1>1, <3>1 DEF Applied
    <3>3. c.id \in pg.seen /\ c.id[1] = t
      BY <2>1, <3>1, <3>2 DEF PageOK, Agrees, Genuine
    <3>4. c.id \in a.covered
      BY <1>2, <3>3
    <3> QED BY <3>1, <3>2, <3>4 DEF Heard
  <2>2. \A d \in rec.dialogs : d.kind = "requested" /\ d.turn \notin rec.over
    BY <1>1, <1>4, <2>1 DEF PageOK, Agrees
  <2> QED BY <1>1, <2>2 DEF PageOK, Agrees
<1>6. \A x \in Range(rec.story) \cup rec.dialogs : Genuine(x, w)
  BY <1>1, <1>4 DEF PageOK, AnswerOK
<1>7. ASSUME NEW x \in w.told, x.kind = "requested", w.asks[x.about] = "pending", x.id \in rec.seen
      PROVE  x \in rec.dialogs
  <2>1. x.turn = w.cur /\ x.id[1] = w.cur /\ w.cur \in Nat
    BY DEF WorldOK
  <2>2. x.id \in a.covered
    <3>1. CASE x.id \in pg.seen
      BY <1>2, <2>1, <3>1
    <3>2. CASE x.id \in {e.id : e \in Range(a.events)}
      BY <1>3, <3>2
    <3> QED BY <1>1, <1>7, <3>1, <3>2 DEF Applied
  <2> QED BY <1>1, <1>7, <2>2, PendingIsOpen
<1>8. KnowsActive(rec, w.cur)
  BY <1>1 DEF PageOK, KnowsActive
<1> QED BY <1>1, <1>5, <1>6, <1>7, <1>8 DEF PageOK, rec

\* What the opening of the session makes of the page.
LEMMA PageOpens ==
    ASSUME NEW w, WorldOK(w), NEW F, NEW pg, pg.active \in Nat, NEW a, AnswerOK(a, F, w)
    PROVE  /\ PageOK(OpenedWith(pg, a), F, w)
           /\ OpenedWith(pg, a).seen = a.covered /\ OpenedWith(pg, a).dialogs = OpenIn(a.events)
           /\ Range(OpenedWith(pg, a).story) = {e \in Range(a.events) : IsStory(e)}
           /\ Sorted(OpenedWith(pg, a).story) /\ OpenedWith(pg, a).busy = a.running
           /\ OpenedWith(pg, a).over = {e.turn : e \in {f \in Range(a.events) : f.kind = "completed"}}
<1> DEFINE out == OpenedWith(pg, a)
           S == {e \in Range(a.events) : IsStory(e)}
           story == Only(a.events, S)
           dialogs == OpenIn(a.events)
           over == {e.turn : e \in {f \in Range(a.events) : f.kind = "completed"}}
           active == IF a.running /\ a.events # <<>> THEN a.events[Len(a.events)].turn ELSE pg.active
<1>1. /\ a.events \in Seq(Event) /\ Sorted(a.events) /\ a.covered \in SUBSET (Nat \X Nat)
      /\ a.running \in BOOLEAN /\ \A e \in Range(a.events) : e \in Event
  BY DEF AnswerOK, Answers, Range
<1>2. story \in Seq(Event) /\ Range(story) = S /\ Sorted(story)
  <2>1. S \subseteq Range(a.events)
    OBVIOUS
  <2> HIDE DEF S
  <2> QED BY <1>1, <2>1, OnlyKeeps
<1>3. \A d \in dialogs : /\ d \in Range(a.events) /\ d.kind = "requested" /\ d.turn \notin over
  BY <1>1, OpenInIs
<1>4. over \in SUBSET Nat /\ dialogs \in SUBSET Event
  BY <1>1, <1>3 DEF Event
<1>5. a.events # <<>> => /\ a.events[Len(a.events)] \in Range(a.events)
                         /\ a.events[Len(a.events)].turn \in Nat
  BY <1>1 DEF Range, Event
<1>6. active \in Nat
  BY <1>5
<1>7. out = [seen |-> a.covered, story |-> story, dialogs |-> dialogs, over |-> over,
             busy |-> a.running, active |-> active]
  BY DEF OpenedWith
<1>8. \A t \in over : \E x \in S : x.kind = "completed" /\ x.turn = t
  BY DEF IsStory
<1>9. \A x \in S : x.kind = "completed" => x.turn \in over
  OBVIOUS
<1>10. ASSUME NEW x \in S, x.turn = w.cur, w.cur \notin over PROVE active = w.cur
  <2>1. a.running <=> ~ Ended(Range(a.events))
    BY <1>10 DEF AnswerOK
  <2>2. \A e \in Range(a.events) : e.turn = w.cur
    BY <1>10 DEF AnswerOK
  <2>3. ~ Ended(Range(a.events))
    BY <1>10, <2>2 DEF Ended, OfKind
  <2>4. a.events # <<>>
    BY <1>10 DEF Range
  <2> QED BY <1>5, <2>1, <2>2, <2>3, <2>4
<1> HIDE DEF out, S, story, dialogs, over, active, Event
<1>11. /\ out \in Pages /\ out.seen = a.covered /\ out.story = story /\ out.dialogs = dialogs
       /\ out.over = over /\ out.active = active /\ out.busy = a.running
  BY <1>1, <1>2, <1>4, <1>6, <1>7 DEF Pages
<1>12. \A e \in Range(a.events) : Genuine(e, w) /\ e.id \in a.covered
  BY DEF AnswerOK
<1>13. Agrees(out)
  BY <1>2, <1>3, <1>8, <1>9, <1>11, <1>12 DEF Agrees, S
<1>14. \A x \in Range(out.story) \cup out.dialogs : Genuine(x, w)
  BY <1>2, <1>3, <1>11, <1>12 DEF S
<1>15. \A x \in F \cup w.told : IsStory(x) /\ x.id \in out.seen => x \in Range(out.story)
  BY <1>2, <1>11 DEF AnswerOK, S, Matters, IsStory
<1>16. \A x \in w.told :
         x.kind = "requested" /\ w.asks[x.about] = "pending" /\ x.id \in out.seen => x \in out.dialogs
  BY <1>11, PendingIsOpen DEF dialogs
<1>17. KnowsActive(out, w.cur)
  BY <1>2, <1>10, <1>11 DEF KnowsActive, Tells
<1>18. out.seen \subseteq Past(w)
  BY <1>11 DEF AnswerOK
<1>19. PageOK(out, F, w)
  BY <1>13, <1>14, <1>15, <1>16, <1>17, <1>18 DEF PageOK
<1> QED BY <1>2, <1>11, <1>19 DEF out, dialogs, S, over

\* What get_active_chat answers now.
LEMMA AnswerIsRight ==
    ASSUME ServerOK, TurnOK, FlowOK
    PROVE  /\ AnswerOK(Snapshot, Flow, World)
           /\ \A pg : PageOK(pg, Flow, World) => Heard(Snapshot, pg, World)
<1> DEFINE a == Snapshot
           w == World
<1>1. /\ a \in Answers /\ Sorted(a.events) /\ Range(a.events) = {e \in w.told : Matters(e, w)}
      /\ a.covered = {turn.number} \X (1..Len(emitted))
      /\ (a.running <=> turn.phase # "over" /\ OfKind(Range(emitted), "completed") = {})
  BY SnapshotTells
<1>2. WorldOK(w) /\ w.cur = turn.number /\ w.told = Range(emitted)
  BY WorldIsOK DEF World
<1>3. /\ \A e \in w.told : e \in Made /\ Genuine(e, w) /\ e.id[1] = turn.number /\ e.turn = turn.number
      /\ \A e \in w.told : e.id[2] \in 1..Len(emitted) /\ e.id \in Nat \X Nat
      /\ \A i \in 1..Len(emitted) : emitted[i].id = <<turn.number, i>> /\ emitted[i] \in w.told
      /\ turn.number \in Nat /\ Len(emitted) \in Nat
  BY <1>2, ToldIsGenuine, NumbersOfMade DEF Made, Genuine, TurnOK, Event
<1> HIDE DEF a, w
<1>4. \A e \in w.told : e.id \in a.covered
  <2> SUFFICES ASSUME NEW e \in w.told PROVE e.id \in a.covered
    OBVIOUS
  <2>1. e.id = <<e.id[1], e.id[2]>>
    BY <1>3
  <2> QED BY <1>1, <1>3, <2>1
<1>5. a.covered \subseteq Past(w) /\ \A id \in a.covered : \E e \in w.told : e.id = id
  <2> SUFFICES ASSUME NEW id \in a.covered PROVE id \in Past(w) /\ \E e \in w.told : e.id = id
    OBVIOUS
  <2>1. PICK i \in 1..Len(emitted) : id = <<turn.number, i>>
    BY <1>1
  <2>2. emitted[i] \in w.told /\ emitted[i].id = id /\ id \in Nat \X Nat
    BY <1>3, <2>1
  <2> QED BY <2>2 DEF Past
<1>6. \A x : Genuine(x, w) /\ x.id \in a.covered => x \in w.told
  <2>1. \A id \in a.covered : id[1] = turn.number
    BY <1>1
  <2> QED BY <1>2, <2>1 DEF Genuine
<1>7. \A x \in Flow \cup w.told : Matters(x, w) /\ x.id \in a.covered => x \in Range(a.events)
  BY <1>1, <1>6 DEF FlowOK, w
<1>8. ASSUME NEW x \in Range(a.events) PROVE a.running <=> ~ Ended(Range(a.events))
  <2>1. Ended(Range(a.events)) <=> Ended(w.told)
    BY <1>1 DEF Ended, OfKind, Matters
  <2>2. turn.phase = "over" => Ended(w.told)
    <3> SUFFICES ASSUME turn.phase = "over" PROVE Ended(w.told)
      OBVIOUS
    <3>1. Made = w.told
      BY <1>2 DEF Made, ServerOK, Numbers, Range
    <3>2. turn.number # 0
      <4>1. x \in Made /\ \A e \in Made : e.id[2] \in 1..turn.made
        BY <1>1, <1>3, NumbersOfMade
      <4>2. turn.made # 0
        BY <4>1
      <4> QED BY <4>2 DEF TurnOK
    <3> QED BY <1>3, <3>1, <3>2 DEF TurnOK, Ended
  <2> QED BY <1>1, <1>2, <2>1, <2>2 DEF Ended
<1>9. \E t, m \in Nat : /\ a.covered = {t} \X (1..m) /\ t <= w.cur
                        /\ \A e \in Range(a.events) : e.turn = t /\ e.id \in a.covered
  <2>1. \A e \in Range(a.events) : e.turn = turn.number /\ e.id \in a.covered
    BY <1>1, <1>3, <1>4
  <2>2. /\ a.covered = {turn.number} \X (1..Len(emitted)) /\ turn.number <= w.cur
        /\ turn.number \in Nat /\ Len(emitted) \in Nat
    BY <1>1, <1>2, <1>3
  <2> QED BY <2>1, <2>2
<1>10. AnswerOK(a, Flow, w)
  BY <1>1, <1>3, <1>5, <1>7, <1>8, <1>9 DEF AnswerOK
<1>11. ASSUME NEW pg, PageOK(pg, Flow, w) PROVE Heard(a, pg, w)
  <2>1. \A id \in pg.seen : id[1] < turn.number \/ id \in a.covered
    BY <1>2, <1>4, <1>11 DEF PageOK, Past
  <2>2. \A x \in Range(pg.story) : x.id \in a.covered => x \in Range(a.events)
    BY <1>1, <1>6, <1>11 DEF PageOK, Agrees, Matters, IsStory
  <2>3. /\ a.covered = {turn.number} \X (1..Len(emitted)) /\ turn.number <= w.cur
        /\ turn.number \in Nat /\ Len(emitted) \in Nat
    BY <1>1, <1>2, <1>3
  <2> QED BY <2>1, <2>2, <2>3 DEF Heard
<1> QED BY <1>10, <1>11 DEF a, w

\* What a page has heard stays below what the answer covers.
LEMMA HeardGoesOn ==
    ASSUME NEW w, NEW v, w.cur <= v.cur, w.cur \in Nat, v.cur \in Nat, NEW a, NEW pg, NEW new,
           Heard(a, pg, w), new.seen = pg.seen, new.story = pg.story
    PROVE  Heard(a, new, v)
<1>1. PICK t \in Nat, m \in Nat : /\ a.covered = {t} \X (1..m) /\ t <= w.cur
                                  /\ \A id \in pg.seen : id[1] < t \/ id \in a.covered
  BY DEF Heard
<1>2. t <= v.cur
  BY <1>1
<1> QED BY <1>1, <1>2 DEF Heard

\* The user answers: the dialog goes.
LEMMA PageDecides ==
    ASSUME NEW w, NEW F, NEW pg, PageOK(pg, F, w), NEW p, w.asks[p] # "pending", NEW new,
           new = [pg EXCEPT !.dialogs = {d \in @ : d.about # p}]
    PROVE  /\ PageOK(new, F, w)
           /\ new.seen = pg.seen /\ new.story = pg.story /\ new.over = pg.over /\ new.busy = pg.busy
           /\ new.dialogs = {d \in pg.dialogs : d.about # p} /\ new.active = pg.active
<1> DEFINE dialogs == {d \in pg.dialogs : d.about # p}
<1>1. pg \in Pages
  BY DEF PageOK, Agrees
<1>2. dialogs \in SUBSET Event
  BY <1>1 DEF Pages
<1>3. new = [pg EXCEPT !.dialogs = dialogs]
  BY <1>1 DEF Pages
<1> HIDE DEF dialogs, Event
<1>4. /\ new \in Pages /\ new.seen = pg.seen /\ new.story = pg.story /\ new.over = pg.over
      /\ new.busy = pg.busy /\ new.active = pg.active /\ new.dialogs = dialogs
  BY <1>1, <1>2, <1>3 DEF Pages
<1>5. Agrees(new)
  BY <1>4 DEF PageOK, Agrees, dialogs
<1>6. KnowsActive(new, w.cur)
  BY <1>4 DEF PageOK, KnowsActive
<1>7. PageOK(new, F, w)
  BY <1>4, <1>5, <1>6 DEF PageOK, dialogs
<1> QED BY <1>4, <1>7 DEF dialogs

\* Some of what is on its way is applied to a page.
LEMMA PageHears ==
    ASSUME NetOK, FlowOK, WorldOK(World), NEW pg, PageOK(pg, Flow, World), Flow' \subseteq Flow,
           NEW rest, NEW S, Chosen(rest, S), S \subseteq Flow
    PROVE  /\ PageOK(ApplyAll(pg, rest), Flow', World)
           /\ Applied(pg, ApplyAll(pg, rest), S)
<1>1. rest \in Seq(Event) /\ Sorted(rest) /\ Range(rest) = S
  BY DEF Chosen
<1>2. \A e \in Range(rest) : Genuine(e, World)
  BY <1>1 DEF FlowOK
<1>3. \A x \in Flow \cup World.told, e \in Range(rest) : IsStory(x) /\ x.id = e.id => x = e
  BY <1>1, Distinct
<1> HIDE DEF Event
<1> QED BY <1>1, <1>2, <1>3, PageApplies

\* One event is a sequence in order.
LEMMA ChosenOne ==
    ASSUME NEW e \in Event
    PROVE  Chosen(<<e>>, {e})
<1>1. /\ <<e>> \in Seq(Event) /\ DOMAIN <<e>> = {1} /\ <<e>>[1] = e
  OBVIOUS
<1> QED BY <1>1 DEF Chosen, Sorted, Range

\* Whatever is lost, delayed, restored or applied twice, a page that took no
\* turn from the history alone shows only what was told, what it has seen of the story, and who waits.
THEOREM PageIsRight == Spec => [](timely => PageCorrect)
<1>1. Init => PageCorrect
  <2> SUFFICES ASSUME Init PROVE PageCorrect
    OBVIOUS
  <2>1. page = [seen |-> {}, story |-> <<>>, dialogs |-> {}, over |-> {}, busy |-> FALSE, active |-> 0]
        /\ load.at = "asked" /\ recovery.answer = None
    BY DEF Init
  <2>2. page \in Pages /\ Empty(page) /\ Range(page.story) = {}
    BY <2>1 DEF Pages, Empty, Range
  <2>3. Agrees(page)
    BY <2>2 DEF Agrees, Empty
  <2>4. KnowsActive(page, World.cur)
    BY <2>2 DEF KnowsActive, Tells
  <2> QED BY <2>1, <2>2, <2>3, <2>4 DEF PageCorrect, PageOK, Empty
<1>2. ServerOK /\ TurnOK /\ NetOK /\ FlowOK /\ (timely => PageCorrect) /\ WorldOK(World) /\ [Next]_vars
        /\ WorldOK(World)' /\ NetOK' => (timely => PageCorrect)'
  <2> SUFFICES ASSUME ServerOK, TurnOK, NetOK, FlowOK, PageCorrect, WorldOK(World), [Next]_vars,
                      WorldOK(World)', NetOK', Steps
               PROVE  PageCorrect'
    BY TimelySteps
  <2>g. /\ GoesOn(World, World', New) /\ WorldOK(World') /\ Steps
        /\ World.cur <= World'.cur /\ World.cur \in Nat /\ World'.cur \in Nat
    <3>1. GoesOn(World, World', New) /\ WorldOK(World') /\ Steps
      BY WorldGoesOn
    <3> QED BY <3>1 DEF GoesOn, WorldOK
  <2>n. /\ \A e \in Flow : Genuine(e, World)
        /\ load'.at \in {"asked", "answered", "done"}
        /\ ~ recovery'.running => recovery'.answer = None
        /\ load.at # "answered" => load.answer = None
        /\ load.at # "done" => ~ recovery.running
        /\ ~ recovery.running => recovery.answer = None
        /\ Range(Waiting) \subseteq Flow
    BY DEF FlowOK, NetOK, Flow
  <2>1. ASSUME Flow' \subseteq Flow \cup New, page' = page,
               load'.at = load.at, load'.answer = load.answer,
               recovery'.answer \in {recovery.answer, None}
        PROVE  PageCorrect'
    <3>1. PageOK(page, Flow', World')
      BY <2>g, <2>1, PageGoesOn DEF PageCorrect
    <3>2. load.at = "answered" => AnswerOK(load.answer, Flow', World')
      BY <2>g, <2>n, <2>1, AnswerGoesOn DEF PageCorrect
    <3>3. recovery.answer # None => /\ AnswerOK(recovery.answer, Flow', World')
                                    /\ Heard(recovery.answer, page, World')
      BY <2>g, <2>n, <2>1, AnswerGoesOn, HeardGoesOn DEF PageCorrect
    <3> QED BY <2>1, <3>1, <3>2, <3>3 DEF PageCorrect
  <2>2. CASE Emits \/ Loses \/ Connects \/ Holds
    <3>1. /\ Flow' \subseteq Flow \cup New /\ page' = page /\ load'.at = load.at
          /\ load'.answer = load.answer /\ recovery'.answer \in {recovery.answer, None}
      BY <2>2 DEF Emits, Loses, Connects, Holds
    <3> QED BY <2>1, <3>1
  <2>3. CASE Decides
    <3>1. /\ UNCHANGED <<load, recovery>> /\ Flow' = Flow
          /\ \E p \in Permissions : /\ asks[p] = "pending" /\ asks' = [asks EXCEPT ![p] = "answered"]
                                    /\ page' = [page EXCEPT !.dialogs = {d \in @ : d.about # p}]
      BY <2>3 DEF Decides
    <3>2. PICK p \in Permissions : /\ asks' = [asks EXCEPT ![p] = "answered"]
                                   /\ page' = [page EXCEPT !.dialogs = {d \in @ : d.about # p}]
      BY <3>1
    <3>3. World'.asks[p] # "pending"
      BY <3>2 DEF World, ServerOK, ServerType
    <3>4. PageOK(page, Flow', World')
      BY <2>g, <3>1, PageGoesOn DEF PageCorrect
    <3>5. /\ PageOK(page', Flow', World') /\ page'.seen = page.seen /\ page'.story = page.story
          /\ page'.over = page.over /\ page'.dialogs \subseteq page.dialogs
      BY <3>2, <3>3, <3>4, PageDecides
    <3>6. load.at = "answered" => AnswerOK(load.answer, Flow', World')
      BY <2>g, <2>n, <3>1, AnswerGoesOn DEF PageCorrect
    <3>7. recovery.answer # None => /\ AnswerOK(recovery.answer, Flow', World')
                                    /\ Heard(recovery.answer, page', World')
      BY <2>g, <2>n, <3>1, <3>5, AnswerGoesOn, HeardGoesOn DEF PageCorrect
    <3>8. load.at # "done" => Empty(page')
      BY <3>5 DEF PageCorrect, Empty
    <3> QED BY <3>1, <3>5, <3>6, <3>7, <3>8 DEF PageCorrect
  <2>4. ASSUME load'.at = "done", ~ recovery'.running, PageOK(page', Flow', World') PROVE PageCorrect'
    BY <2>n, <2>4 DEF PageCorrect
  <2>5. CASE Hears
    <3>1. /\ UNCHANGED <<load, recovery, World>> /\ load.at = "done" /\ ~ recovery.running
          /\ \E e \in Flow : page' = ApplyAll(page, <<e>>) /\ Leaves({e})
      BY <2>5 DEF Hears
    <3>2. PICK e \in Flow : page' = ApplyAll(page, <<e>>) /\ Leaves({e})
      BY <3>1
    <3>3. Flow' \subseteq Flow /\ e \in Event
      BY <2>n, <3>2 DEF Leaves, Genuine
    <3>4. Chosen(<<e>>, {e}) /\ {e} \subseteq Flow
      BY <3>3, ChosenOne
    <3>5. PageOK(ApplyAll(page, <<e>>), Flow', World)
      BY <3>3, <3>4, PageHears DEF PageCorrect
    <3> QED BY <2>4, <3>1, <3>2, <3>5
  <2>6. CASE Asks
    <3>1. /\ UNCHANGED <<page, load, World>> /\ Flow' = Flow /\ recovery.running
          /\ recovery'.running /\ recovery'.answer = Snapshot
      BY <2>6 DEF Asks
    <3>2. AnswerOK(Snapshot, Flow, World) /\ Heard(Snapshot, page, World)
      BY AnswerIsRight DEF PageCorrect
    <3>3. load.at = "done"
      BY <2>n, <3>1
    <3> QED BY <3>1, <3>2, <3>3 DEF PageCorrect
  <2>7. CASE Opens
    <3>1. /\ UNCHANGED <<page, recovery, World>> /\ Flow' = Flow
          /\ load.at = "asked" /\ load'.at = "answered" /\ load'.answer = Snapshot
      BY <2>7 DEF Opens
    <3>2. AnswerOK(Snapshot, Flow, World)
      BY AnswerIsRight
    <3>3. recovery.answer = None
      BY <2>n, <3>1
    <3> QED BY <3>1, <3>2, <3>3 DEF PageCorrect
  <2>8. CASE Recovers
    <3> DEFINE a == recovery.answer
               S == {e \in Range(Waiting) : e.id \notin recovery.answer.covered}
    <3>1. /\ UNCHANGED <<load, World>> /\ load.at = "done" /\ a # None /\ ~ recovery'.running
          /\ Flow' \subseteq Flow /\ S \subseteq Flow
          /\ \E rest : Chosen(rest, S) /\ page' = ApplyAll(Recovered(page, a), rest)
      BY <2>n, <2>8 DEF Recovers, Leaves
    <3>2. PageOK(Recovered(page, a), Flow, World)
      BY <3>1, PageRecovers DEF PageCorrect
    <3> HIDE DEF S, a
    <3>3. PageOK(page', Flow', World)
      BY <3>1, <3>2, PageHears
    <3> QED BY <2>4, <3>1, <3>3
  <2>9. CASE Loads
    <3>1. /\ World' = World /\ load.at = "answered" /\ load'.at = "done" /\ ~ recovery'.running
          /\ Flow' \subseteq Flow
          /\ \E rest : Chosen(rest, Range(Waiting)) /\ page' = ApplyAll(OpenedWith(page, load.answer), rest)
      BY <2>9 DEF Loads, Leaves
    <3>2. PageOK(OpenedWith(page, load.answer), Flow, World)
      <4>1. page.active \in Nat
        BY DEF PageCorrect, PageOK, Agrees, Pages
      <4> QED BY <3>1, <4>1, PageOpens DEF PageCorrect
    <3>3. PageOK(page', Flow', World)
      BY <2>n, <3>1, <3>2, PageHears
    <3> QED BY <2>4, <3>1, <3>3
  <2>10. CASE Fails
    <3>1. /\ World' = World /\ load'.at = "done" /\ ~ recovery'.running /\ Flow' \subseteq Flow
          /\ \/ page' = page
             \/ \E rest, S : Chosen(rest, S) /\ S \subseteq Range(Waiting) /\ page' = ApplyAll(page, rest)
      BY <2>10 DEF Fails, Leaves
    <3>2. PageOK(page, Flow, World)
      BY DEF PageCorrect
    <3>3. ASSUME NEW rest, NEW S, Chosen(rest, S), S \subseteq Range(Waiting), page' = ApplyAll(page, rest)
          PROVE  PageOK(page', Flow', World)
      <4>1. S \subseteq Flow
        BY <2>n, <3>3
      <4> QED BY <3>1, <3>2, <3>3, <4>1, PageHears
    <3>4. CASE page' = page
      <4>1. PageOK(page, Flow', World')
        BY <2>g, <3>1, <3>2, PageGoesOn
      <4> QED BY <2>4, <3>1, <3>4, <4>1
    <3> QED BY <2>4, <3>1, <3>3, <3>4
  <2> QED BY <2>g, <2>2, <2>3, <2>5, <2>6, <2>7, <2>8, <2>9, <2>10 DEF Steps
<1> QED BY <1>1, <1>2, ServerCorrect, TurnsAreTold, WorldCorrect, NetCorrect, FlowCorrect, PTL DEF Spec

-----------------------------------------------------------------------------
(* Nothing is missed, and nothing comes out of order *)

Asking == recovery.running /\ recovery.answer = None

\* What the page knows, or will know when the answer on its way is shown.
Known == IF load.at # "done" THEN load.answer.covered
         ELSE IF recovery.running THEN recovery.answer.covered ELSE page.seen

\* An event the page knows, gets, or is about to ask for.
Got(x) == Asking \/ x.id \in Known \/ x \in Flow

NothingMissed ==
    Connected /\ (whole \/ recovery.running) =>
        \A x \in World.told : Matters(x, World) => Got(x)

Orderly ==
    /\ InStoryOrder(page.story)
    /\ \A x \in World.told \cup Flow \cup Range(recovery.answer.events) : IsStory(x) => Fresh(page, x)
    /\ \A x \in World.told, e \in Flow : IsStory(x) /\ InTurn(x, e) => Got(x)

NothingLost == NothingMissed /\ (Clean => whole /\ Orderly)

\* The facts about the stages that the proofs below share.
LEMMA StagesOf ==
    ASSUME NetOK
    PROVE  /\ load.at # "answered" => load.answer = None
           /\ load.at # "done" => ~ recovery.running
           /\ ~ recovery.running => recovery.answer = None
           /\ Range(None.events) = {} /\ Range(Waiting) \subseteq Flow
BY DEF NetOK, None, Range, Flow

\* What an answer covers and what matters is told by it, so the page gets to
\* know it.
LEMMA RecoveredKnows ==
    ASSUME NEW w, WorldOK(w), NEW F, NEW pg, PageOK(pg, F, w), NEW a, AnswerOK(a, F, w)
    PROVE  /\ \A x \in F \cup w.told : Matters(x, w) /\ x.id \in a.covered => x.id \in Recovered(pg, a).seen
           /\ pg.seen \subseteq Recovered(pg, a).seen
<1>1. /\ Applied(pg, ApplyAll(pg, a.events), Range(a.events))
      /\ Recovered(pg, a).seen = ApplyAll(pg, a.events).seen
  BY RecoveredFields
<1>2. Recovered(pg, a).seen = pg.seen \cup {e.id : e \in Range(a.events)}
  BY <1>1 DEF Applied
<1> HIDE DEF Recovered
<1> QED BY <1>2 DEF AnswerOK

\* An opened session has seen what its answer covers.
LEMMA OpenedKnows ==
    ASSUME NEW w, WorldOK(w), NEW F, NEW pg, pg.active \in Nat, NEW a, AnswerOK(a, F, w)
    PROVE  PageOK(OpenedWith(pg, a), F, w) /\ OpenedWith(pg, a).seen = a.covered
BY PageOpens

\* An answer covers everything that was told of the turn.
LEMMA SnapshotCovers ==
    ASSUME ServerOK, TurnOK
    PROVE  \A x \in World.told : x.id \in Snapshot.covered
<1> SUFFICES ASSUME NEW x \in World.told PROVE x.id \in Snapshot.covered
  OBVIOUS
<1>1. /\ Snapshot.covered = {turn.number} \X (1..Len(emitted)) /\ x \in Range(emitted)
      /\ x.id[1] = turn.number /\ x.id[2] \in 1..Len(emitted) /\ x \in Event
  BY SnapshotTells, NumbersOfMade DEF World, Made
<1>2. x.id = <<x.id[1], x.id[2]>>
  BY <1>1 DEF Event
<1> QED BY <1>1, <1>2

\* What the page knows or gets stays so, unless a request fails or the
\* connection is lost.
LEMMA GotStays ==
    ASSUME ServerOK, TurnOK, NetOK, NetOK', FlowOK, PageCorrect, WorldOK(World), Steps, ~ Fails,
           Emits => New = {} \/ Connected \/ Flow' = Flow,
           NEW x \in World.told, Matters(x, World), Got(x), Loses => x \notin Flow \/ x \in Flow'
    PROVE  Got(x)'
<1>s. /\ load.at # "answered" => load.answer = None
      /\ load.at # "done" => ~ recovery.running
      /\ Range(Waiting) \subseteq Flow
  BY StagesOf
<1>0. Got(x)' <=> Asking' \/ x.id \in Known' \/ x \in Flow'
  BY DEF Got
<1>1. ASSUME Known' = Known, Asking' <=> Asking, x \in Flow => x \in Flow' PROVE Got(x)'
  BY <1>0, <1>1 DEF Got
<1>2. CASE Emits \/ Loses
  <2>1. UNCHANGED <<page, load, recovery>> /\ (x \in Flow => x \in Flow')
    BY <1>2 DEF Emits, Loses
  <2>2. Known' = Known /\ (Asking' <=> Asking)
    BY <2>1 DEF Known, Asking
  <2> QED BY <1>1, <2>1, <2>2
<1>3. CASE Decides
  <2>1. /\ UNCHANGED <<load, recovery>> /\ Flow' = Flow
        /\ \E p : page' = [page EXCEPT !.dialogs = {d \in @ : d.about # p}]
    BY <1>3 DEF Decides
  <2>2. page'.seen = page.seen
    BY <2>1 DEF PageCorrect, PageOK, Agrees, Pages
  <2>3. Known' = Known /\ (Asking' <=> Asking)
    BY <2>1, <2>2 DEF Known, Asking
  <2> QED BY <1>1, <2>1, <2>3
<1>4. CASE Connects
  <2>1. Asking'
    BY <1>4 DEF Connects, Asking
  <2> QED BY <1>0, <2>1
<1>5. CASE Holds
  <2>1. /\ Flow' = Flow /\ load'.at = load.at /\ load'.answer = load.answer /\ page' = page
        /\ (recovery'.running <=> recovery.running) /\ recovery'.answer = recovery.answer
    BY <1>5 DEF Holds
  <2>2. Known' = Known /\ (Asking' <=> Asking)
    BY <2>1 DEF Known, Asking
  <2> QED BY <1>1, <2>1, <2>2
<1>6. CASE Hears
  <2>1. /\ UNCHANGED <<load, recovery>> /\ load.at = "done" /\ ~ recovery.running
        /\ \E e \in Flow : page' = ApplyAll(page, <<e>>) /\ Leaves({e})
    BY <1>6 DEF Hears
  <2>2. PICK e \in Flow : page' = ApplyAll(page, <<e>>) /\ Leaves({e})
    BY <2>1
  <2>3. e \in Event /\ Flow' \subseteq Flow /\ Flow = {e} \cup Flow'
    BY <2>2 DEF FlowOK, Genuine, Leaves
  <2>4. Chosen(<<e>>, {e})
    BY <2>3, ChosenOne
  <2>5. Applied(page, page', {e})
    BY <2>2, <2>3, <2>4, PageHears DEF PageCorrect
  <2>6. page'.seen = page.seen \cup {e.id}
    BY <2>5 DEF Applied
  <2>7. Known = page.seen /\ Known' = page'.seen /\ ~ Asking
    BY <2>1 DEF Known, Asking
  <2> QED BY <1>0, <2>3, <2>6, <2>7 DEF Got
<1>7. CASE Asks \/ Opens
  <2>1. Known' = Snapshot.covered
    BY <1>7, <1>s DEF Asks, Opens, Known
  <2> QED BY <1>0, <2>1, SnapshotCovers
<1>8. CASE Recovers
  <2> DEFINE a == recovery.answer
             S == {e \in Range(Waiting) : e.id \notin recovery.answer.covered}
             rec == Recovered(page, a)
  <2>1. /\ UNCHANGED <<load, World>> /\ load.at = "done" /\ a # None /\ ~ recovery'.running
        /\ recovery.running /\ Leaves(Range(Waiting)) /\ Flow' \subseteq Flow /\ S \subseteq Flow
        /\ \E rest : Chosen(rest, S) /\ page' = ApplyAll(rec, rest)
    BY <1>s, <1>8 DEF Recovers, Leaves
  <2>2. /\ PageOK(rec, Flow, World)
        /\ \A y \in Flow \cup World.told : Matters(y, World) /\ y.id \in a.covered => y.id \in rec.seen
    BY <2>1, PageRecovers, RecoveredKnows DEF PageCorrect
  <2>3. Applied(rec, page', S)
    <3> HIDE DEF rec, S
    <3> QED BY <2>1, <2>2, PageHears
  <2>4. page'.seen = rec.seen \cup {e.id : e \in S}
    BY <2>3 DEF Applied
  <2>5. Known = a.covered /\ Known' = page'.seen /\ ~ Asking
    BY <2>1 DEF Known, Asking
  <2>6. Flow = Range(Waiting) \cup Flow'
    BY <2>1 DEF Leaves
  <2> HIDE DEF rec, a
  <2>7. x.id \in a.covered => x.id \in page'.seen
    BY <2>2, <2>4
  <2>8. x \in Range(Waiting) => x.id \in a.covered \/ x \in S
    BY DEF a
  <2> HIDE DEF S
  <2> QED BY <1>0, <2>4, <2>5, <2>6, <2>7, <2>8 DEF Got
<1>9. CASE Loads
  <2> DEFINE a == load.answer
             rec == OpenedWith(page, a)
  <2>1. /\ World' = World /\ load.at = "answered" /\ load'.at = "done" /\ ~ recovery'.running
        /\ ~ recovery.running /\ Leaves(Range(Waiting)) /\ Flow' \subseteq Flow
        /\ \E rest : Chosen(rest, Range(Waiting)) /\ page' = ApplyAll(rec, rest)
    BY <1>9 DEF Loads, Leaves
  <2>2. PageOK(rec, Flow, World) /\ rec.seen = a.covered
    <3>1. page.active \in Nat
      BY DEF PageCorrect, PageOK, Agrees, Pages
    <3>2. AnswerOK(load.answer, Flow, World)
      BY <2>1 DEF PageCorrect
    <3> HIDE DEF rec, a
    <3>3. PageOK(OpenedWith(page, load.answer), Flow, World)
          /\ OpenedWith(page, load.answer).seen = load.answer.covered
      BY <3>1, <3>2, OpenedKnows
    <3> QED BY <3>3 DEF rec, a
  <2>3. Applied(rec, page', Range(Waiting))
    <3> HIDE DEF rec
    <3> QED BY <1>s, <2>1, <2>2, PageHears
  <2>4. page'.seen = a.covered \cup {e.id : e \in Range(Waiting)}
    BY <2>2, <2>3 DEF Applied
  <2>5. Known = a.covered /\ Known' = page'.seen /\ ~ Asking
    BY <2>1 DEF Known, Asking
  <2>6. Flow = Range(Waiting) \cup Flow'
    BY <2>1 DEF Leaves
  <2> HIDE DEF rec, a
  <2> QED BY <1>0, <2>4, <2>5, <2>6 DEF Got
<1> QED BY <1>2, <1>3, <1>4, <1>5, <1>6, <1>7, <1>8, <1>9 DEF Steps

\* An event stays new to a page that applies only what comes before it.
LEMMA FreshStays ==
    ASSUME NEW pg, NEW out, NEW P, Applied(pg, out, P), NEW x, Fresh(pg, x),
           \A e \in P : IsStory(e) /\ e.turn = x.turn => InTurn(e, x) \/ x.id \in out.seen
    PROVE  Fresh(out, x)
<1>1. CASE x.id \in pg.seen
  BY <1>1 DEF Fresh, Applied
<1>2. CASE x.id \notin pg.seen
  BY <1>2 DEF Fresh, Applied, Agrees
<1> QED BY <1>1, <1>2

\* What comes in order is put into the story in order, if nothing before it
\* is missing.
LEMMA OrderApplies ==
    ASSUME NetOK, FlowOK, WorldOK(World), NEW pg, NEW out, NEW S, Applied(pg, out, S), S \subseteq Flow,
           Flow' \subseteq Flow, \A e \in S, y \in Flow' : Before(e, y),
           InStoryOrder(pg.story), \A x \in World.told \cup Flow : IsStory(x) => Fresh(pg, x),
           \A x \in World.told, e \in S : IsStory(x) /\ InTurn(x, e) => x.id \in out.seen \/ x \in Flow'
    PROVE  /\ InStoryOrder(out.story)
           /\ \A x \in World.told \cup Flow' : IsStory(x) => Fresh(out, x)
<1>1. InStoryOrder(out.story)
  BY DEF Applied
<1>2. \A x \in World.told \cup Flow : x.id \in Nat \X Nat /\ x.turn \in Nat /\ x.id[1] = x.turn
  BY DEF WorldOK, FlowOK, Genuine, Event
<1>3. ASSUME NEW x \in World.told \cup Flow', IsStory(x), NEW e \in S, e.turn = x.turn
      PROVE  InTurn(e, x) \/ x.id \in out.seen
  <2>1. x.id[2] \in Nat /\ e.id[2] \in Nat /\ x.id = <<x.id[1], x.id[2]>> /\ e.id = <<e.id[1], e.id[2]>>
        /\ x.turn \in Nat
    BY <1>2, <1>3
  <2>2. CASE x \in Flow'
    BY <1>3, <2>1, <2>2 DEF Before, InTurn
  <2>3. CASE x \in World.told /\ x \notin Flow'
    <3>1. CASE e.id[2] < x.id[2]
      BY <1>3, <3>1 DEF InTurn
    <3>2. CASE e.id[2] = x.id[2]
      <4>1. e.id = x.id
        BY <1>2, <1>3, <2>1, <3>2
      <4> QED BY <4>1 DEF Applied
    <3>3. CASE x.id[2] < e.id[2]
      BY <1>3, <2>3, <3>3 DEF InTurn
    <3> QED BY <2>1, <3>1, <3>2, <3>3
  <2> QED BY <1>3, <2>2, <2>3
<1>4. ASSUME NEW x \in World.told \cup Flow', IsStory(x) PROVE Fresh(out, x)
  <2>1. Fresh(pg, x)
    BY <1>4
  <2>2. \A e \in S : IsStory(e) /\ e.turn = x.turn => InTurn(e, x) \/ x.id \in out.seen
    BY <1>3, <1>4
  <2> QED BY <2>1, <2>2, FreshStays
<1> QED BY <1>1, <1>4

\* What an answer does not cover comes after what it tells.
LEMMA AnswerBefore ==
    ASSUME NEW w, WorldOK(w), NEW F, NEW a, AnswerOK(a, F, w), NEW x \in F \cup w.told, IsStory(x),
           Genuine(x, w), NEW e \in Range(a.events), e.turn = x.turn
    PROVE  InTurn(e, x) \/ x \in Range(a.events)
<1>1. PICK t \in Nat, m \in Nat : /\ a.covered = {t} \X (1..m)
                                  /\ \A b \in Range(a.events) : b.turn = t /\ b.id \in a.covered
  BY DEF AnswerOK
<1>2. /\ x.id \in Nat \X Nat /\ x.id[2] > 0 /\ x.id[1] = t /\ e.id[2] \in 1..m
      /\ x.id = <<x.id[1], x.id[2]>> /\ x.id[2] \in Nat
  BY <1>1 DEF Genuine, Event
<1>3. CASE x.id[2] \in 1..m
  <2>1. x.id \in a.covered
    BY <1>1, <1>2, <1>3
  <2> QED BY <2>1 DEF AnswerOK, Matters, IsStory
<1>4. CASE x.id[2] \notin 1..m
  BY <1>2, <1>4 DEF InTurn
<1> QED BY <1>3, <1>4

\* The world only loses what matters.
LEMMA MatteredBefore ==
    ASSUME NEW w, NEW v, NEW new, WorldOK(w), GoesOn(w, v, new), NEW x \in v.told, x \notin new, Matters(x, v)
    PROVE  x \in w.told /\ Matters(x, w)
<1>1. x \in w.told
  BY DEF GoesOn
<1>2. x.kind = "requested" => x.about \in Permissions /\ w.asks[x.about] # "none"
  BY <1>1 DEF WorldOK, OfKind
<1> QED BY <1>1, <1>2 DEF Matters, GoesOn

\* Only an emission makes something new.
LEMMA NewIsEmitted ==
    ASSUME Steps, NEW x \in New
    PROVE  Emits
<1>1. World' = World \/ emitted' = emitted => New = {}
  BY DEF World, New
<1> QED BY <1>1 DEF Steps, Decides, Loses, Connects, Holds, Hears, Asks, Opens, Recovers, Loads, Fails

\* What a connected page misses nothing of goes on so.
LEMMA MissesNothing ==
    ASSUME ServerOK, TurnOK, NetOK, NetOK', FlowOK, PageCorrect, WorldOK(World), Steps,
           GoesOn(World, World', New), NothingMissed
    PROVE  NothingMissed'
<1> SUFFICES ASSUME Connected', whole' \/ recovery'.running, NEW x \in World'.told, Matters(x, World')
             PROVE  Got(x)'
  BY DEF NothingMissed
<1>0. Got(x)' <=> Asking' \/ x.id \in Known' \/ x \in Flow'
  BY DEF Got
<1>1. ~ Fails
  BY DEF Fails
<1>2. CASE x \in New
  <2>1. Emits
    BY <1>2, NewIsEmitted
  <2>2. Connected /\ Flow' = Flow \cup New
    BY <2>1 DEF Emits, SameNet
  <2> QED BY <1>0, <1>2, <2>2
<1>3. CASE x \notin New
  <2>1. x \in World.told /\ Matters(x, World)
    BY <1>3, MatteredBefore
  <2>2. CASE Connects
    BY <1>0, <2>2 DEF Connects, Asking
  <2>3. CASE ~ Connects
    <3>1. Connected /\ (whole \/ recovery.running) /\ (Loses => Flow' = Flow)
      BY <1>1, <2>3 DEF Steps, Emits, Decides, Loses, Holds, Hears, Asks, Opens, Recovers, Loads, SameNet
    <3>2. Got(x)
      BY <2>1, <3>1 DEF NothingMissed
    <3> QED BY <1>1, <2>1, <3>1, <3>2, GotStays
  <2> QED BY <2>2, <2>3
<1> QED BY <1>2, <1>3

\* Nothing of the story before an event on its way is missed.
LEMMA NothingBefore ==
    ASSUME ServerOK, TurnOK, NetOK, NetOK', FlowOK, FlowOK', PageCorrect, WorldOK(World), WorldOK(World'),
           Steps, ~ Fails, GoesOn(World, World', New), NothingMissed, whole, Orderly,
           NEW x \in World'.told, NEW e \in Flow', IsStory(x), InTurn(x, e)
    PROVE  Got(x)'
<1>0. Got(x)' <=> Asking' \/ x.id \in Known' \/ x \in Flow'
  BY DEF Got
<1>1. Matters(x, World') /\ x.id[2] \in Nat /\ x.id[2] < e.id[2] /\ e.turn = x.turn
  BY DEF Matters, IsStory, InTurn, WorldOK, Event
<1>2. \A y \in Flow : Genuine(y, World) /\ y.id[2] \in Nat
  BY DEF FlowOK, Genuine, Event
<1>3. CASE x \in New
  <2>1. Emits
    BY <1>3, NewIsEmitted
  <2>2. CASE Connected
    BY <1>0, <1>3, <2>1, <2>2 DEF Emits
  <2>3. CASE ~ Connected
    <3>1. e \in Flow /\ x.turn = World.cur /\ \A y \in World.told : y.id[2] < x.id[2]
      BY <1>3, <2>1, <2>3 DEF Emits, GoesOn
    <3>2. e \in World.told
      BY <1>1, <1>2, <3>1 DEF Genuine
    <3> QED BY <1>1, <1>2, <3>1, <3>2
  <2> QED BY <2>2, <2>3
<1>4. CASE x \notin New
  <2>1. x \in World.told /\ Matters(x, World)
    BY <1>1, <1>4, MatteredBefore
  <2>2. Got(x)
    <3>1. CASE e \in Flow
      BY <2>1, <3>1 DEF Orderly
    <3>2. CASE e \notin Flow
      <4>1. Flow' \subseteq Flow \/ Emits
        BY DEF Steps, Decides, Loses, Connects, Holds, Hears, Asks, Opens, Recovers, Loads, Leaves
      <4>2. Connected
        BY <3>2, <4>1 DEF Emits
      <4> QED BY <2>1, <4>2 DEF NothingMissed
    <3> QED BY <3>1, <3>2
  <2>3. Loses => x \notin Flow \/ x \in Flow'
    <3> SUFFICES ASSUME Loses, x \in Flow, x \notin Flow' PROVE FALSE
      OBVIOUS
    <3>1. Before(e, x)
      BY DEF Loses
    <3>2. e \in Flow /\ e.turn \in Nat
      BY DEF Loses, FlowOK, Genuine, Event
    <3> QED BY <1>1, <1>2, <3>1, <3>2 DEF Before
  <2>4. Emits => New = {} \/ Connected \/ Flow' = Flow
    BY DEF Emits
  <2> QED BY <2>1, <2>2, <2>3, <2>4, GotStays
<1> QED BY <1>3, <1>4

\* Fresh and in order, part by part.
InOrderFor(pg, F, w) ==
    /\ InStoryOrder(pg.story)
    /\ \A x \in w.told \cup F : IsStory(x) => Fresh(pg, x)

\* The answer of a recovery keeps the story in order.
LEMMA OrderRecovers ==
    ASSUME NEW w, WorldOK(w), NEW F, \A e \in F : Genuine(e, w), NEW pg, PageOK(pg, F, w),
           NEW a, AnswerOK(a, F, w),
           InOrderFor(pg, F, w), \A x \in Range(a.events) : IsStory(x) => Fresh(pg, x)
    PROVE  InOrderFor(Recovered(pg, a), F, w)
<1> DEFINE out == ApplyAll(pg, a.events)
           rec == Recovered(pg, a)
<1>1. /\ Applied(pg, out, Range(a.events))
      /\ rec.seen = out.seen /\ rec.story = out.story
  BY RecoveredFields
<1> HIDE DEF out, rec
<1>2. InStoryOrder(rec.story)
  BY <1>1 DEF Applied, InOrderFor
<1>3. ASSUME NEW x \in w.told \cup F, IsStory(x) PROVE Fresh(rec, x)
  <2>1. Genuine(x, w) /\ Fresh(pg, x)
    BY <1>3, ToldIsGenuine DEF InOrderFor
  <2>2. \A e \in Range(a.events) : x \in Range(a.events) => x.id \in out.seen
    BY <1>1 DEF Applied
  <2>3. \A e \in Range(a.events) : e.turn = x.turn => InTurn(e, x) \/ x \in Range(a.events)
    BY <1>3, <2>1, AnswerBefore
  <2>4. \A e \in Range(a.events) : IsStory(e) /\ e.turn = x.turn => InTurn(e, x) \/ x.id \in out.seen
    BY <2>2, <2>3
  <2>5. Fresh(out, x)
    BY <1>1, <2>1, <2>4, FreshStays
  <2> QED BY <1>1, <2>5 DEF Fresh
<1> QED BY <1>2, <1>3 DEF InOrderFor, rec

\* The story of an opened session is in order.
LEMMA OpenedStory ==
    ASSUME NEW pg, NEW a, a.events \in Seq(Event), Sorted(a.events)
    PROVE  /\ Sorted(OpenedWith(pg, a).story)
           /\ \A y \in Range(OpenedWith(pg, a).story) : y \in Range(a.events)
<1> DEFINE S == {e \in Range(a.events) : IsStory(e)}
<1>1. S \subseteq Range(a.events) /\ OpenedWith(pg, a).story = Only(a.events, S)
  BY DEF OpenedWith
<1> HIDE DEF S
<1> QED BY <1>1, OnlyKeeps

\* An opened session takes what is on its way in order.
LEMMA OrderOpens ==
    ASSUME NEW w, WorldOK(w), NEW F, \A e \in F : Genuine(e, w), NEW pg, pg.active \in Nat,
           NEW a, AnswerOK(a, F, w)
    PROVE  InOrderFor(OpenedWith(pg, a), F, w)
<1>a. PageOK(OpenedWith(pg, a), F, w) /\ OpenedWith(pg, a).seen = a.covered
  BY OpenedKnows
<1>b. /\ Sorted(OpenedWith(pg, a).story)
      /\ \A y \in Range(OpenedWith(pg, a).story) : y \in Range(a.events)
  BY OpenedStory DEF AnswerOK, Answers
<1> DEFINE rec == OpenedWith(pg, a)
<1> HIDE DEF rec
<1>1. /\ PageOK(rec, F, w) /\ rec.seen = a.covered /\ Sorted(rec.story)
      /\ \A y \in Range(rec.story) : y \in Range(a.events)
  BY <1>a, <1>b DEF rec
<1>2. InStoryOrder(rec.story)
  <2>1. rec.story \in Seq(Event)
    BY <1>1 DEF PageOK, Agrees, Pages
  <2>2. \A i \in DOMAIN rec.story : rec.story[i].turn \in Nat
    <3>1. \A i \in DOMAIN rec.story : rec.story[i] \in Event
      BY <2>1
    <3> QED BY <3>1 DEF Event
  <2> SUFFICES ASSUME NEW i \in DOMAIN rec.story, NEW j \in DOMAIN rec.story, i < j,
                      rec.story[i].turn = rec.story[j].turn
               PROVE  rec.story[i].id[2] < rec.story[j].id[2]
    BY DEF InStoryOrder
  <2>3. Before(rec.story[i], rec.story[j])
    BY <1>1 DEF Sorted
  <2> QED BY <2>2, <2>3 DEF Before
<1>3. ASSUME NEW x \in w.told \cup F, IsStory(x), NEW y \in Range(rec.story), y.turn = x.turn
      PROVE  InTurn(y, x) \/ x.id \in rec.seen
  <2>1. Genuine(x, w) /\ y \in Range(a.events)
    BY <1>1, ToldIsGenuine
  <2>2. InTurn(y, x) \/ x \in Range(a.events)
    BY <1>3, <2>1, AnswerBefore
  <2>3. x \in Range(a.events) => x.id \in a.covered
    BY DEF AnswerOK
  <2> QED BY <1>1, <2>2, <2>3
<1> QED BY <1>2, <1>3 DEF InOrderFor, Fresh, rec

\* Orderly, of the next state, from what is in order then.
LEMMA OrderlyNext ==
    ASSUME InOrderFor(page', Flow', World'), \A x \in Range(recovery'.answer.events) : x \in World'.told \cup Flow'
                                                 \/ (IsStory(x) => Fresh(page', x)),
           \A x \in World'.told, e \in Flow' : IsStory(x) /\ InTurn(x, e) => Got(x)'
    PROVE  Orderly'
BY DEF Orderly, InOrderFor, World

\* An event that arrives keeps the story in order.
LEMMA OrderHears ==
    ASSUME NetOK, FlowOK, PageCorrect, WorldOK(World), Orderly, Hears
    PROVE  InOrderFor(page', Flow', World)
<1>1. /\ load.at = "done" /\ ~ recovery.running /\ \E e \in Flow : page' = ApplyAll(page, <<e>>) /\ Leaves({e})
  BY DEF Hears
<1>2. PICK e \in Flow : page' = ApplyAll(page, <<e>>) /\ Leaves({e})
  BY <1>1
<1>3. e \in Event /\ Flow' \subseteq Flow /\ Flow = {e} \cup Flow' /\ \A y \in Flow' : Before(e, y)
  BY <1>2 DEF FlowOK, Genuine, Leaves
<1>4. Chosen(<<e>>, {e}) /\ {e} \subseteq Flow
  BY <1>3, ChosenOne
<1>5. Applied(page, page', {e})
  BY <1>2, <1>3, <1>4, PageHears DEF PageCorrect
<1>6. InStoryOrder(page.story) /\ \A x \in World.told \cup Flow : IsStory(x) => Fresh(page, x)
  BY DEF Orderly
<1>7. ASSUME NEW x \in World.told, IsStory(x), InTurn(x, e) PROVE x.id \in page'.seen \/ x \in Flow'
  <2>1. x.id \in page.seen \/ x \in Flow
    BY <1>1, <1>7 DEF Orderly, Got, Asking, Known
  <2> QED BY <1>3, <1>5, <2>1 DEF Applied
<1> QED BY <1>3, <1>5, <1>6, <1>7, OrderApplies DEF InOrderFor

\* A recovery keeps the story in order.
LEMMA OrderResumes ==
    ASSUME NetOK, NetOK', FlowOK, PageCorrect, WorldOK(World), Orderly, Recovers
    PROVE  InOrderFor(page', Flow', World)
<1> DEFINE a == recovery.answer
           S == {e \in Range(Waiting) : e.id \notin recovery.answer.covered}
           rec == Recovered(page, a)
<1>1. /\ load.at = "done" /\ a # None /\ recovery.running
      /\ Leaves(Range(Waiting)) /\ Flow' \subseteq Flow /\ S \subseteq Flow
      /\ \E rest : Chosen(rest, S) /\ page' = ApplyAll(rec, rest)
  BY StagesOf DEF Recovers, Leaves
<1>2. /\ PageOK(page, Flow, World) /\ AnswerOK(a, Flow, World) /\ Heard(a, page, World)
      /\ \A y \in Flow : Genuine(y, World)
  BY <1>1 DEF PageCorrect, FlowOK
<1>3. /\ PageOK(rec, Flow, World)
      /\ \A y \in Flow \cup World.told : Matters(y, World) /\ y.id \in a.covered => y.id \in rec.seen
  BY <1>2, PageRecovers, RecoveredKnows
<1>4. InOrderFor(page, Flow, World) /\ \A x \in Range(a.events) : IsStory(x) => Fresh(page, x)
  BY DEF Orderly, InOrderFor
<1>5. InOrderFor(rec, Flow, World)
  BY <1>2, <1>4, OrderRecovers
<1> HIDE DEF rec, S, a
<1>6. Applied(rec, page', S)
  BY <1>1, <1>3, PageHears
<1>7. \A e \in S, y \in Flow' : Before(e, y)
  BY <1>1 DEF Leaves, S
<1>8. ASSUME NEW x \in World.told, NEW e \in S, IsStory(x), InTurn(x, e)
      PROVE  x.id \in page'.seen \/ x \in Flow'
  <2>1. x.id \in a.covered \/ x \in Flow
    BY <1>1, <1>8 DEF Orderly, Got, Asking, Known, a
  <2>2. x \in Flow => x \in Range(Waiting) \/ x \in Flow'
    BY <1>1 DEF Leaves
  <2>3. x \in Range(Waiting) => x.id \in a.covered \/ x \in S
    BY DEF S, a
  <2>4. Matters(x, World)
    BY <1>8 DEF Matters, IsStory
  <2>5. x.id \in rec.seen \/ x \in S => x.id \in page'.seen
    BY <1>6 DEF Applied
  <2> QED BY <1>3, <2>1, <2>2, <2>3, <2>4, <2>5
<1> QED BY <1>1, <1>5, <1>6, <1>7, <1>8, OrderApplies DEF InOrderFor

\* The opening of the session keeps the story in order.
LEMMA OrderLoads ==
    ASSUME NetOK, NetOK', FlowOK, PageCorrect, WorldOK(World), Orderly, Loads
    PROVE  InOrderFor(page', Flow', World)
<1> DEFINE a == load.answer
           S == Range(Waiting)
           rec == OpenedWith(page, a)
<1>1. /\ load.at = "answered" /\ ~ recovery.running
      /\ Leaves(S) /\ Flow' \subseteq Flow /\ S \subseteq Flow
      /\ \E rest : Chosen(rest, S) /\ page' = ApplyAll(rec, rest)
  BY StagesOf DEF Loads, Leaves
<1>2. /\ page.active \in Nat /\ AnswerOK(a, Flow, World) /\ \A y \in Flow : Genuine(y, World)
  BY <1>1 DEF PageCorrect, FlowOK, PageOK, Agrees, Pages
<1>3. PageOK(rec, Flow, World) /\ rec.seen = a.covered /\ InOrderFor(rec, Flow, World)
  <2> HIDE DEF a
  <2> QED BY <1>2, OpenedKnows, OrderOpens
<1> HIDE DEF rec, S, a
<1>6. Applied(rec, page', S)
  BY <1>1, <1>3, PageHears
<1>7. \A e \in S, y \in Flow' : Before(e, y)
  BY <1>1 DEF Leaves
<1>8. ASSUME NEW x \in World.told, NEW e \in S, IsStory(x), InTurn(x, e)
      PROVE  x.id \in page'.seen \/ x \in Flow'
  <2>1. x.id \in a.covered \/ x \in Flow
    BY <1>1, <1>8 DEF Orderly, Got, Asking, Known, a
  <2>2. x \in Flow => x \in S \/ x \in Flow'
    BY <1>1 DEF Leaves
  <2>5. x.id \in rec.seen \/ x \in S => x.id \in page'.seen
    BY <1>6 DEF Applied
  <2> QED BY <1>3, <2>1, <2>2, <2>5
<1> QED BY <1>1, <1>3, <1>6, <1>7, <1>8, OrderApplies DEF InOrderFor

\* As long as no request of the page fails and it took no turn from the history
\* alone, a page hears everything in order, and when connected misses nothing that matters, whatever connections break.
THEOREM NothingIsLost == Spec => [](timely => NothingLost)
<1>1. Init => NothingLost
  <2> SUFFICES ASSUME Init PROVE NothingLost
    OBVIOUS
  <2>1. /\ World.told = {} /\ Range(page.story) = {} /\ DOMAIN page.story = {} /\ whole = TRUE
        /\ Range(recovery.answer.events) = {}
    BY DEF Init, World, Range, None
  <2>2. Waiting = <<>> /\ Coming = <<>> /\ Unsent = {}
    BY BoundsAssumption DEF Init, Waiting, Coming, Unsent, Sockets, Idle
  <2>3. Flow = {}
    BY <2>2 DEF Flow, Range
  <2> QED BY <2>1, <2>3 DEF NothingLost, NothingMissed, Orderly, InStoryOrder
<1>2. ServerOK /\ TurnOK /\ NetOK /\ NetOK' /\ FlowOK /\ FlowOK' /\ (timely => PageCorrect) /\ WorldOK(World)
      /\ WorldOK(World)' /\ (timely => NothingLost) /\ [Next]_vars => (timely => NothingLost)'
  <2> SUFFICES ASSUME ServerOK, TurnOK, NetOK, NetOK', FlowOK, FlowOK', PageCorrect, WorldOK(World),
                      WorldOK(World)', NothingLost, [Next]_vars, Steps
               PROVE  NothingLost'
    BY TimelySteps
  <2>1. Steps /\ GoesOn(World, World', New) /\ WorldOK(World')
    BY WorldGoesOn
  <2>2. NothingMissed'
    BY <2>1, MissesNothing DEF NothingLost
  <2> SUFFICES ASSUME Clean' PROVE whole' /\ Orderly'
    BY <2>2 DEF NothingLost
  <2>3. ~ Fails /\ Clean
    BY <2>1 DEF Steps, Emits, Decides, Loses, Connects, Holds, Hears, Asks, Opens, Recovers, Loads, Fails,
                SameNet
  <2>4. whole /\ Orderly
    BY <2>3 DEF NothingLost
  <2>5. whole'
    BY <2>1, <2>3, <2>4 DEF Steps, Emits, Decides, Loses, Connects, Holds, Hears, Asks, Opens, Recovers, Loads
  <2>6. \A x \in World'.told, e \in Flow' : IsStory(x) /\ InTurn(x, e) => Got(x)'
    BY <2>1, <2>3, <2>4, NothingBefore DEF NothingLost
  <2>7. /\ InOrderFor(page, Flow, World) /\ \A x \in Range(recovery.answer.events) : IsStory(x) => Fresh(page, x)
        /\ Range(None.events) = {} /\ (~ recovery.running => recovery.answer = None)
        /\ (~ recovery'.running => recovery'.answer = None)
    BY <2>4, StagesOf DEF Orderly, InOrderFor, NetOK
  <2>8. ASSUME page'.story = page.story, page'.seen = page.seen, World' = World, Flow' \subseteq Flow
        PROVE  InOrderFor(page', Flow', World') /\ \A x : Fresh(page, x) => Fresh(page', x)
    BY <2>7, <2>8 DEF InOrderFor, Fresh
  <2>9. CASE Emits
    <3>1. page' = page /\ recovery' = recovery /\ Flow' \subseteq Flow \cup New
      BY <2>9 DEF Emits
    <3>2. ASSUME NEW x \in New, NEW y \in Range(page.story), y.turn = x.turn PROVE InTurn(y, x)
      <4>1. y \in World.told
        BY <2>1, <3>2 DEF PageCorrect, PageOK, Genuine, GoesOn
      <4> QED BY <2>1, <3>2, <4>1 DEF GoesOn, InTurn
    <3>3. World'.told \subseteq World.told \cup New
      BY <2>1 DEF GoesOn
    <3>4. InOrderFor(page', Flow', World')
      BY <2>7, <3>1, <3>2, <3>3 DEF InOrderFor, Fresh
    <3> QED BY <2>6, <2>7, <2>5, <3>1, <3>4, OrderlyNext
  <2>10. CASE Decides
    <3>1. /\ World'.told = World.told /\ recovery' = recovery /\ Flow' = Flow
          /\ \E p : page' = [page EXCEPT !.dialogs = {d \in @ : d.about # p}]
      BY <2>10 DEF Decides, World
    <3>2. page'.story = page.story /\ page'.seen = page.seen
      BY <3>1 DEF PageCorrect, PageOK, Agrees, Pages
    <3>3. InOrderFor(page', Flow', World') /\ \A x : Fresh(page, x) => Fresh(page', x)
      BY <2>7, <3>1, <3>2 DEF InOrderFor, Fresh
    <3> QED BY <2>5, <2>6, <2>7, <3>1, <3>3, OrderlyNext
  <2>11. CASE Loses \/ Connects \/ Holds \/ Opens
    <3>1. /\ page' = page /\ World' = World /\ Flow' \subseteq Flow
          /\ recovery'.answer = recovery.answer \/ recovery'.answer = None
      BY <2>11 DEF Loses, Connects, Holds, Opens
    <3>2. InOrderFor(page', Flow', World') /\ \A x : Fresh(page, x) => Fresh(page', x)
      BY <2>8, <3>1
    <3> QED BY <2>5, <2>6, <2>7, <3>1, <3>2, OrderlyNext
  <2>12. CASE Asks
    <3>1. page' = page /\ World' = World /\ Flow' = Flow /\ recovery'.answer = Snapshot
      BY <2>12 DEF Asks
    <3>2. Range(Snapshot.events) \subseteq World.told
      BY SnapshotTells
    <3>3. InOrderFor(page', Flow', World')
      BY <2>8, <3>1
    <3> QED BY <2>5, <2>6, <3>1, <3>2, <3>3, OrderlyNext
  <2>13. CASE Hears \/ Recovers \/ Loads
    <3>1. World' = World /\ ~ recovery'.running
      BY <2>13 DEF Hears, Recovers, Loads
    <3>2. InOrderFor(page', Flow', World)
      BY <2>4, <2>13, OrderHears, OrderResumes, OrderLoads
    <3> QED BY <2>5, <2>6, <2>7, <3>1, <3>2, OrderlyNext
  <2> QED BY <2>1, <2>3, <2>9, <2>10, <2>11, <2>12, <2>13 DEF Steps
<1> QED BY <1>1, <1>2, ServerCorrect, TurnsAreTold, WorldCorrect, NetCorrect, FlowCorrect, PageIsRight, PTL
    DEF Spec

\* The events of a turn are emitted in the order of their numbers, and the page
\* that took no turn from the history alone shows them in that order and none
\* twice, for any number of turns, texts, questions and connections: InOrder.
THEOREM EventsInOrder == Spec => [](timely => InOrder)
<1>1. ServerOK /\ NothingLost => InOrder
  <2> SUFFICES ASSUME ServerOK, NothingLost PROVE InOrder
    OBVIOUS
  <2>1. \A i \in DOMAIN emitted : emitted[i].id = <<turn.number, i>>
    BY DEF ServerOK, Numbers
  <2>2. Clean => InStoryOrder(page.story)
    BY DEF NothingLost, Orderly
  <2> QED BY <2>1, <2>2 DEF InOrder, InStoryOrder, Clean
<1> QED BY <1>1, ServerCorrect, NothingIsLost, PTL

-----------------------------------------------------------------------------
(* A quiet page is up to date *)

\* The end of an event's turn is still to come, from the client or on the way.
Runs(w, t)     == t = w.cur /\ ~ Ended(w.told)
EndsIn(S, t)   == \E c \in S : c.kind = "completed" /\ c.turn = t
EndComes(e, S) == \E c \in S : c.kind = "completed" /\ c.turn = e.turn /\ (c = e \/ Before(e, c))

Ends(F, w)        == \A e \in F : Runs(w, e.turn) \/ EndComes(e, F)
EndKnown(a, F, w) == \A d \in OpenIn(a.events) :
                        Runs(w, d.turn) \/ EndsIn({c \in F : c.id \notin a.covered}, d.turn)
Offers(pg, S, w)  == \A d \in pg.dialogs : Runs(w, d.turn) \/ EndsIn(S, d.turn)

\* A connected page gets the end of every turn whose questions it shows or is
\* about to show, and knows whether the turn runs.
UpToDate ==
    Connected =>
        /\ Ends(Flow, World)
        /\ recovery.answer # None => EndKnown(recovery.answer, Flow, World)
        /\ load.at = "answered" => EndKnown(load.answer, Flow, World)
        /\ whole /\ ~ recovery.running => Offers(page, Flow, World) /\ KnowsBusy(page, World.cur)

\* A turn that runs goes on, or its end is new.
LEMMA RunsOn ==
    ASSUME NEW w, NEW v, NEW new, WorldOK(w), WorldOK(v), GoesOn(w, v, new), NEW e, Genuine(e, w), Runs(w, e.turn)
    PROVE  Runs(v, e.turn) \/ \E c \in new : c.kind = "completed" /\ c.turn = e.turn /\ Before(e, c) /\ c.id \notin Past(w)
<1>1. e \in w.told /\ ~ Ended(w.told) /\ e.turn = w.cur
  BY DEF Genuine, Runs
<1>2. v.cur = w.cur /\ v.told = w.told \cup new
  BY <1>1 DEF GoesOn
<1>3. CASE ~ Ended(v.told)
  BY <1>1, <1>2, <1>3 DEF Runs
<1>4. CASE Ended(v.told)
  <2>1. PICK c \in v.told : c.kind = "completed"
    BY <1>4 DEF Ended, OfKind
  <2>2. c \in new
    BY <1>1, <1>2, <2>1 DEF Ended, OfKind
  <2>3. c.turn = w.cur /\ e.id[2] < c.id[2] /\ c.id \notin Past(w)
    BY <1>1, <2>2, PastGoesOn DEF GoesOn
  <2> QED BY <1>1, <2>1, <2>2, <2>3 DEF Before
<1> QED BY <1>3, <1>4

\* What is told after its turn began ends, or its turn runs.
LEMMA NewEnds ==
    ASSUME NEW w, NEW v, NEW new, WorldOK(w), WorldOK(v), GoesOn(w, v, new), NEW e \in new
    PROVE  Runs(v, e.turn) \/ EndComes(e, new)
<1>1. /\ v.cur = w.cur /\ v.told = w.told \cup new /\ e.turn = w.cur /\ ~ Ended(w.told)
      /\ e \in v.told
  BY DEF GoesOn
<1>2. CASE ~ Ended(v.told)
  BY <1>1, <1>2 DEF Runs
<1>3. CASE Ended(v.told)
  <2>1. PICK c \in v.told : c.kind = "completed"
    BY <1>3 DEF Ended, OfKind
  <2>2. c \in new
    BY <1>1, <2>1 DEF Ended, OfKind
  <2>3. c.turn = w.cur /\ e.id[2] <= c.id[2] /\ e.id[2] \in Nat /\ c.id[2] \in Nat
        /\ (e.id[2] = c.id[2] => c = e)
    BY <1>1, <2>1 DEF WorldOK, OfKind, Event
  <2> QED BY <1>1, <2>1, <2>2, <2>3 DEF EndComes, Before
<1> QED BY <1>2, <1>3

\* Ends that are to come are still to come as the world goes on.
LEMMA EndsGrow ==
    ASSUME NEW w, NEW v, NEW new, WorldOK(w), WorldOK(v), GoesOn(w, v, new),
           NEW F, \A e \in F : Genuine(e, w)
    PROVE  /\ Ends(F, w) => Ends(F \cup new, v)
           /\ \A a : AnswerOK(a, F, w) /\ EndKnown(a, F, w) => EndKnown(a, F \cup new, v)
           /\ \A pg : PageOK(pg, F, w) /\ Offers(pg, F, w) => Offers(pg, F \cup new, v)
           /\ \A pg : PageOK(pg, F, w) /\ KnowsBusy(pg, w.cur) => KnowsBusy(pg, v.cur)
<1>1. ASSUME Ends(F, w) PROVE Ends(F \cup new, v)
  <2> SUFFICES ASSUME NEW e \in F \cup new PROVE Runs(v, e.turn) \/ EndComes(e, F \cup new)
    BY DEF Ends
  <2>1. CASE e \in new
    BY <2>1, NewEnds DEF EndComes
  <2>2. CASE e \in F /\ Runs(w, e.turn)
    BY <2>2, RunsOn DEF EndComes
  <2>3. CASE e \in F /\ ~ Runs(w, e.turn)
    BY <1>1, <2>3 DEF EndComes, Ends
  <2> QED BY <2>1, <2>2, <2>3
<1>2. ASSUME NEW a, AnswerOK(a, F, w), EndKnown(a, F, w) PROVE EndKnown(a, F \cup new, v)
  <2> SUFFICES ASSUME NEW d \in OpenIn(a.events)
               PROVE  Runs(v, d.turn) \/ EndsIn({c \in F \cup new : c.id \notin a.covered}, d.turn)
    BY DEF EndKnown
  <2>1. Genuine(d, w) /\ a.covered \subseteq Past(w)
    <3>1. a.events \in Seq(Event) /\ Sorted(a.events)
      BY <1>2 DEF AnswerOK, Answers
    <3>2. d \in Range(a.events)
      BY <3>1, OpenInIs
    <3> QED BY <1>2, <3>2 DEF AnswerOK
  <2>2. CASE Runs(w, d.turn)
    BY <2>1, <2>2, RunsOn DEF EndsIn
  <2>3. CASE ~ Runs(w, d.turn)
    BY <1>2, <2>3 DEF EndKnown, EndsIn
  <2> QED BY <2>2, <2>3
<1>3. ASSUME NEW pg, PageOK(pg, F, w), Offers(pg, F, w) PROVE Offers(pg, F \cup new, v)
  <2> SUFFICES ASSUME NEW d \in pg.dialogs PROVE Runs(v, d.turn) \/ EndsIn(F \cup new, d.turn)
    BY DEF Offers
  <2>1. Genuine(d, w)
    BY <1>3 DEF PageOK
  <2>2. CASE Runs(w, d.turn)
    BY <2>1, <2>2, RunsOn DEF EndsIn
  <2>3. CASE ~ Runs(w, d.turn)
    BY <1>3, <2>3 DEF Offers, EndsIn
  <2> QED BY <2>2, <2>3
<1>4. ASSUME NEW pg, PageOK(pg, F, w), KnowsBusy(pg, w.cur) PROVE KnowsBusy(pg, v.cur)
  <2>1. CASE v.cur = w.cur
    BY <1>4, <2>1
  <2>2. CASE v.cur = w.cur + 1
    <3>1. w.cur \in Nat /\ \A x \in Range(pg.story) : x.turn <= w.cur /\ x.turn \in Nat
      BY <1>4 DEF PageOK, Genuine, Event, WorldOK
    <3>2. ~ Tells(Range(pg.story), v.cur)
      BY <2>2, <3>1 DEF Tells
    <3> QED BY <3>2 DEF KnowsBusy
  <2> QED BY <2>1, <2>2 DEF GoesOn
<1> QED BY <1>1, <1>2, <1>3, <1>4

\* What leaves first leaves the ends of what stays.
LEMMA EndsLeave ==
    ASSUME \A e \in Flow : Genuine(e, World), NEW S, Leaves(S), Ends(Flow, World)
    PROVE  Ends(Flow', World)
<1> SUFFICES ASSUME NEW e \in Flow', ~ Runs(World, e.turn) PROVE EndComes(e, Flow')
  BY DEF Ends
<1>1. e \in Flow
  BY DEF Leaves
<1>2. PICK c \in Flow : c.kind = "completed" /\ c.turn = e.turn /\ (c = e \/ Before(e, c))
  BY <1>1 DEF Ends, EndComes
<1>3. e.turn \in Nat /\ e.id[2] \in Nat /\ c.id[2] \in Nat /\ c.turn \in Nat
  BY <1>1, <1>2 DEF Genuine, Event
<1>4. ~ Before(c, e)
  BY <1>2, <1>3 DEF Before
<1>5. c \in Flow'
  BY <1>4 DEF Leaves
<1> QED BY <1>2, <1>5 DEF EndComes

\* The ends that a page applies close the dialogs of their turns, and those of
\* the dialogs it opens are still to come.
LEMMA OffersHear ==
    ASSUME NEW w, NEW pg, NEW out, NEW S, NEW S0, Applied(pg, out, S), PageOK(pg, Flow, w), Ends(Flow, w),
           S \subseteq S0, Flow = S0 \cup Flow', Offers(pg, S \cup Flow', w),
           \A d \in S, c \in S0 : InTurn(d, c) => c \in S, \A e \in Flow : Genuine(e, w)
    PROVE  Offers(out, Flow', w)
<1>1. ASSUME NEW d \in out.dialogs, NEW c \in S, c.kind = "completed", c.turn = d.turn PROVE FALSE
  <2>1. c \in Flow /\ IsStory(c)
    BY <1>1 DEF IsStory
  <2>2. c \in Range(out.story)
    BY <2>1 DEF Applied, PageOK
  <2>3. c.turn \in out.over
    BY <1>1, <2>2 DEF Applied, Agrees
  <2> QED BY <1>1, <2>3 DEF Applied, Agrees
<1> SUFFICES ASSUME NEW d \in out.dialogs, ~ Runs(w, d.turn) PROVE EndsIn(Flow', d.turn)
  BY DEF Offers
<1>2. CASE d \in pg.dialogs
  <2>1. EndsIn(S \cup Flow', d.turn)
    BY <1>2 DEF Offers
  <2> QED BY <1>1, <2>1 DEF EndsIn
<1>3. CASE d \in S
  <2>1. d \in Flow /\ d.kind = "requested"
    BY <1>3 DEF Applied, Agrees
  <2>2. PICK c \in Flow : c.kind = "completed" /\ c.turn = d.turn /\ (c = d \/ Before(d, c))
    BY <2>1 DEF Ends, EndComes
  <2>3. d.turn \in Nat
    BY <2>1 DEF Genuine, Event
  <2>4. InTurn(d, c)
    BY <2>1, <2>2, <2>3 DEF Before, InTurn
  <2>5. c \notin S
    BY <1>1, <2>2
  <2>6. c \in Flow'
    BY <1>3, <2>4, <2>5
  <2> QED BY <2>2, <2>6 DEF EndsIn
<1> QED BY <1>2, <1>3 DEF Applied

\* The first text of the turn is known when its end comes.
LEMMA NotFirst ==
    ASSUME NEW w, WorldOK(w), \A e \in Flow : Genuine(e, w), NEW pg, PageOK(pg, Flow, w),
           NEW S, S \subseteq Flow, \A e \in S, y \in Flow' : Before(e, y),
           \A x \in w.told : IsStory(x) => x.id \in pg.seen \/ x \in S \/ x \in Flow'
    PROVE  NotEndFirst(pg, S, w.cur) /\ \A e \in S : e.turn <= w.cur
<1>1. \A e \in S : e.turn <= w.cur
  BY DEF Genuine
<1> SUFFICES ASSUME NEW c \in S, c.kind = "completed", c.turn = w.cur, c.id \notin pg.seen
             PROVE  \/ Tells(Range(pg.story), w.cur)
                    \/ \E x \in S : IsStory(x) /\ x.id \notin pg.seen /\ InTurn(x, c)
  BY <1>1 DEF NotEndFirst
<1>2. c \in w.told
  BY DEF Genuine
<1>3. PICK x \in w.told : x.kind = "text" /\ \A y \in w.told : y = x \/ InTurn(x, y)
  BY <1>2 DEF WorldOK
<1>4. InTurn(x, c) /\ IsStory(x) /\ x.turn = w.cur
  BY <1>2, <1>3 DEF IsStory, WorldOK
<1>5. x \notin Flow'
  <2> SUFFICES ASSUME x \in Flow' PROVE FALSE
    OBVIOUS
  <2>1. Before(c, x)
    OBVIOUS
  <2>2. x.id[2] \in Nat /\ c.id[2] \in Nat /\ x.turn \in Nat
    BY <1>2 DEF WorldOK, Event
  <2> QED BY <1>4, <2>1, <2>2 DEF Before, InTurn
<1>6. CASE x.id \in pg.seen
  <2>1. x \in Range(pg.story)
    BY <1>4, <1>6 DEF PageOK
  <2> QED BY <1>4, <2>1 DEF Tells
<1>7. CASE x.id \notin pg.seen
  BY <1>4, <1>5, <1>7
<1> QED BY <1>6, <1>7

\* So what is applied to a page that knows whether the turn runs leaves one
\* that does.
LEMMA BusyHears ==
    ASSUME NEW w, WorldOK(w), \A e \in Flow : Genuine(e, w), NEW pg, PageOK(pg, Flow, w), KnowsBusy(pg, w.cur),
           NEW S, S \subseteq Flow, \A e \in S, y \in Flow' : Before(e, y), NEW out, Applied(pg, out, S),
           \A x \in w.told : IsStory(x) => x.id \in pg.seen \/ x \in S \/ x \in Flow'
    PROVE  KnowsBusy(out, w.cur)
<1>1. NotEndFirst(pg, S, w.cur) /\ \A e \in S : e.turn <= w.cur
  BY NotFirst
<1>2. w.cur \in Nat /\ KnowsActive(pg, w.cur)
  BY DEF WorldOK, PageOK
<1> QED BY <1>1, <1>2 DEF Applied

\* After a recovery the page knows whether the turn runs.
LEMMA BusyRecovers ==
    ASSUME NEW w, WorldOK(w), NEW F, NEW pg, PageOK(pg, F, w), NEW a, AnswerOK(a, F, w), Heard(a, pg, w)
    PROVE  KnowsBusy(Recovered(pg, a), w.cur)
<1> DEFINE out == ApplyAll(pg, a.events)
           rec == Recovered(pg, a)
<1>1. /\ Applied(pg, out, Range(a.events)) /\ PageOK(out, F, w)
      /\ rec.story = out.story /\ rec.over = out.over /\ rec.busy = a.running
  BY RecoveredFields
<1> HIDE DEF out, rec
<1>2. PICK t \in Nat, m \in Nat : /\ a.covered = {t} \X (1..m) /\ t <= w.cur
                                  /\ \A id \in pg.seen : id[1] < t \/ id \in a.covered
  BY DEF Heard
<1>3. w.cur \in Nat
  BY DEF WorldOK
<1>4. ASSUME NEW x \in Range(rec.story), x.turn = w.cur PROVE x \in Range(a.events)
  <2>1. CASE x \in Range(pg.story)
    <3>1. x.id \in pg.seen /\ x.id[1] = w.cur
      BY <1>4, <2>1 DEF PageOK, Agrees, Genuine
    <3>2. x.id \in a.covered
      BY <1>2, <1>3, <3>1
    <3> QED BY <2>1, <3>2 DEF Heard
  <2>2. CASE x \notin Range(pg.story)
    BY <1>1, <1>4, <2>2 DEF Applied
  <2> QED BY <2>1, <2>2
<1> SUFFICES ASSUME NEW x \in Range(rec.story), x.turn = w.cur
             PROVE  rec.busy <=> w.cur \notin rec.over
  BY DEF KnowsBusy, Tells, rec
<1>5. a.running <=> ~ Ended(Range(a.events))
  BY <1>4 DEF AnswerOK
<1>6. ASSUME Ended(Range(a.events)) PROVE w.cur \in rec.over
  <2>1. PICK c \in Range(a.events) : c.kind = "completed"
    BY <1>6 DEF Ended, OfKind
  <2>2. c.turn = w.cur
    BY <1>4 DEF AnswerOK
  <2>3. c \in w.told /\ c.id \in out.seen
    BY <1>1, <2>2 DEF AnswerOK, Genuine, Applied
  <2>4. c \in Range(out.story)
    BY <1>1, <2>1, <2>3 DEF PageOK, IsStory
  <2> QED BY <1>1, <2>1, <2>2, <2>4 DEF Applied, Agrees
<1>7. ASSUME w.cur \in rec.over PROVE Ended(Range(a.events))
  <2>1. PICK c \in Range(rec.story) : c.kind = "completed" /\ c.turn = w.cur
    BY <1>1, <1>7 DEF Applied, Agrees
  <2> QED BY <1>4, <2>1 DEF Ended, OfKind
<1> QED BY <1>1, <1>5, <1>6, <1>7

\* After the opening of the session the page knows whether the turn runs.
LEMMA BusyOpens ==
    ASSUME NEW w, WorldOK(w), NEW F, NEW pg, NEW a, AnswerOK(a, F, w)
    PROVE  KnowsBusy(OpenedWith(pg, a), w.cur) /\ OpenedWith(pg, a).dialogs = OpenIn(a.events)
<1> DEFINE rec == OpenedWith(pg, a)
<1>1. /\ rec.busy = a.running /\ rec.dialogs = OpenIn(a.events)
      /\ \A c \in Range(a.events) : c.kind = "completed" => c.turn \in rec.over
      /\ \A t \in rec.over : \E c \in Range(a.events) : c.kind = "completed" /\ c.turn = t
  BY DEF OpenedWith
<1>2. \A x \in Range(rec.story) : x \in Range(a.events)
  BY OpenedStory DEF AnswerOK, Answers
<1> HIDE DEF rec
<1>3. ASSUME NEW x \in Range(rec.story), x.turn = w.cur
      PROVE  rec.busy <=> w.cur \notin rec.over
  <2>1. /\ a.running <=> ~ Ended(Range(a.events))
        /\ \A e \in Range(a.events) : e.turn = w.cur
    BY <1>2, <1>3 DEF AnswerOK
  <2> QED BY <1>1, <2>1 DEF Ended, OfKind
<1> QED BY <1>1, <1>3 DEF KnowsBusy, Tells, rec

\* An answer leaves no question of a turn open whose end it does not tell.
LEMMA SnapshotEnds ==
    ASSUME ServerOK, TurnOK, NEW F
    PROVE  EndKnown(Snapshot, F, World)
<1>1. /\ Snapshot.events \in Seq(Event) /\ Sorted(Snapshot.events)
      /\ Range(Snapshot.events) = {e \in World.told : Matters(e, World)} /\ WorldOK(World)
  BY SnapshotTells, WorldIsOK DEF Answers
<1> HIDE DEF Snapshot
<1> SUFFICES ASSUME NEW d \in OpenIn(Snapshot.events) PROVE Runs(World, d.turn)
  BY DEF EndKnown
<1>2. d \in World.told /\ \A c \in Range(Snapshot.events) : c.kind = "completed" => c.turn # d.turn
  BY <1>1, OpenInIs
<1>3. d.turn = World.cur
  BY <1>1, <1>2 DEF WorldOK
<1>4. ASSUME NEW c \in World.told, c.kind = "completed" PROVE FALSE
  <2>1. c \in Range(Snapshot.events) /\ c.turn = World.cur
    BY <1>1, <1>4 DEF Matters, WorldOK
  <2> QED BY <1>2, <1>3, <1>4, <2>1
<1> QED BY <1>3, <1>4 DEF Runs, Ended, OfKind

\* The dialogs of an answer, before what waited is applied.
LEMMA OffersAnswer ==
    ASSUME NEW F, NEW w, NEW a, EndKnown(a, F, w), NEW pg, pg.dialogs = OpenIn(a.events),
           NEW S, \A c \in F : c.id \notin a.covered => c \in S
    PROVE  Offers(pg, S, w)
BY DEF EndKnown, Offers, EndsIn

\* What is covered is a beginning of its turn.
LEMMA CoversBeginning ==
    ASSUME NEW F, NEW w, NEW a, AnswerOK(a, F, w), NEW d, Genuine(d, w), NEW c, Genuine(c, w), InTurn(d, c),
           c.id \in a.covered
    PROVE  d.id \in a.covered
<1>1. PICK t \in Nat, m \in Nat : a.covered = {t} \X (1..m)
  BY DEF AnswerOK
<1>2. /\ d.id[1] = c.id[1] /\ d.id[2] < c.id[2] /\ d.id[2] > 0 /\ d.id \in Nat \X Nat /\ c.id \in Nat \X Nat
  BY DEF Genuine, InTurn, Event
<1>3. c.id[1] = t /\ c.id[2] \in 1..m /\ d.id = <<d.id[1], d.id[2]>> /\ d.id[2] \in Nat
  BY <1>1, <1>2
<1>4. d.id[2] \in 1..m
  BY <1>2, <1>3
<1> QED BY <1>1, <1>2, <1>3, <1>4

\* An event that arrives keeps the page up to date.
LEMMA UpToDateHears ==
    ASSUME NetOK, FlowOK, PageCorrect, WorldOK(World), Hears, Connected, whole, NothingMissed, UpToDate
    PROVE  Offers(page', Flow', World) /\ KnowsBusy(page', World.cur)
<1>1. /\ ~ recovery.running /\ load.at = "done" /\ \E e \in Flow : page' = ApplyAll(page, <<e>>) /\ Leaves({e})
  BY DEF Hears
<1>2. PICK e \in Flow : page' = ApplyAll(page, <<e>>) /\ Leaves({e})
  BY <1>1
<1>3. e \in Event /\ Flow' \subseteq Flow /\ Flow = {e} \cup Flow' /\ \A y \in Flow' : Before(e, y)
  BY <1>2 DEF FlowOK, Genuine, Leaves
<1>4. Chosen(<<e>>, {e}) /\ {e} \subseteq Flow
  BY <1>3, ChosenOne
<1>5. Applied(page, page', {e})
  BY <1>2, <1>3, <1>4, PageHears DEF PageCorrect
<1>6. /\ PageOK(page, Flow, World) /\ \A x \in Flow : Genuine(x, World)
      /\ Ends(Flow, World) /\ Offers(page, Flow, World) /\ KnowsBusy(page, World.cur)
  BY <1>1 DEF PageCorrect, FlowOK, UpToDate
<1>7. \A x \in World.told : IsStory(x) => x.id \in page.seen \/ x \in {e} \/ x \in Flow'
  BY <1>1, <1>3 DEF NothingMissed, Got, Asking, Known, Matters, IsStory
<1>8. KnowsBusy(page', World.cur)
  BY <1>3, <1>4, <1>5, <1>6, <1>7, BusyHears
<1>9. Offers(page', Flow', World)
  <2>1. Offers(page, {e} \cup Flow', World)
    BY <1>3, <1>6
  <2>2. \A d \in {e}, c \in {e} : InTurn(d, c) => c \in {e}
    OBVIOUS
  <2> QED BY <1>3, <1>5, <1>6, <2>1, <2>2, OffersHear
<1> QED BY <1>8, <1>9

\* A recovery brings the page up to date.
LEMMA UpToDateResumes ==
    ASSUME NetOK, FlowOK, PageCorrect, WorldOK(World), Recovers, Connected, NothingMissed, UpToDate
    PROVE  Offers(page', Flow', World) /\ KnowsBusy(page', World.cur)
<1> DEFINE a == recovery.answer
           S == {e \in Range(Waiting) : e.id \notin recovery.answer.covered}
           rec == Recovered(page, a)
<1>1. /\ load.at = "done" /\ a # None /\ recovery.running
      /\ Leaves(Range(Waiting)) /\ Flow' \subseteq Flow /\ S \subseteq Flow
      /\ \E rest : Chosen(rest, S) /\ page' = ApplyAll(rec, rest)
  BY StagesOf DEF Recovers, Leaves
<1>2. /\ PageOK(page, Flow, World) /\ AnswerOK(a, Flow, World) /\ Heard(a, page, World)
      /\ \A y \in Flow : Genuine(y, World)
  BY <1>1 DEF PageCorrect, FlowOK
<1>3. /\ PageOK(rec, Flow, World) /\ KnowsBusy(rec, World.cur)
      /\ \A y \in Flow \cup World.told : Matters(y, World) /\ y.id \in a.covered => y.id \in rec.seen
  BY <1>2, PageRecovers, RecoveredKnows, BusyRecovers
<1>4. Ends(Flow, World) /\ EndKnown(a, Flow, World)
  BY <1>1 DEF UpToDate
<1>d. rec.dialogs = OpenIn(a.events)
  BY <1>2, RecoveredFields
<1>n. \A x \in World.told : Matters(x, World) => x.id \in a.covered \/ x \in Flow
  BY <1>1 DEF NothingMissed, Got, Asking, Known
<1>s. \A x \in Range(Waiting) : x.id \in a.covered \/ x \in S
  OBVIOUS
<1>t. \A x \in S : x.id \notin a.covered /\ x \in Range(Waiting)
  OBVIOUS
<1> HIDE DEF rec, S, a
<1>5. Applied(rec, page', S)
  BY <1>1, <1>3, PageHears
<1>6. (\A e \in S, y \in Flow' : Before(e, y)) /\ Flow = Range(Waiting) \cup Flow'
  BY <1>1, <1>t DEF Leaves
<1>7. \A x \in World.told : IsStory(x) => x.id \in rec.seen \/ x \in S \/ x \in Flow'
  BY <1>3, <1>6, <1>n, <1>s DEF Matters, IsStory
<1>8. KnowsBusy(page', World.cur)
  BY <1>1, <1>2, <1>3, <1>5, <1>6, <1>7, BusyHears
<1>9. Offers(page', Flow', World)
  <2>1. Offers(rec, S \cup Flow', World)
    <3>1. \A c \in Flow : c.id \notin a.covered => c \in S \cup Flow'
      BY <1>6, <1>s
    <3> QED BY <1>4, <1>d, <3>1, OffersAnswer
  <2>2. ASSUME NEW d \in S, NEW c \in Range(Waiting), InTurn(d, c) PROVE c \in S
    <3>1. Genuine(d, World) /\ Genuine(c, World)
      BY <1>1, <1>2, <1>6
    <3> QED BY <1>2, <1>s, <1>t, <2>2, <3>1, CoversBeginning
  <2>3. S \subseteq Range(Waiting)
    BY <1>t
  <2> QED BY <1>2, <1>3, <1>4, <1>5, <1>6, <2>1, <2>2, <2>3, OffersHear
<1> QED BY <1>8, <1>9

\* The opening of the session brings the page up to date.
LEMMA UpToDateLoads ==
    ASSUME NetOK, FlowOK, PageCorrect, WorldOK(World), Loads, Connected, whole, NothingMissed, UpToDate
    PROVE  Offers(page', Flow', World) /\ KnowsBusy(page', World.cur)
<1> DEFINE a == load.answer
           S == Range(Waiting)
           rec == OpenedWith(page, a)
<1>1. /\ load.at = "answered" /\ ~ recovery.running
      /\ Leaves(S) /\ Flow' \subseteq Flow /\ S \subseteq Flow
      /\ \E rest : Chosen(rest, S) /\ page' = ApplyAll(rec, rest)
  BY StagesOf DEF Loads, Leaves
<1>2. /\ page.active \in Nat /\ AnswerOK(a, Flow, World) /\ \A y \in Flow : Genuine(y, World)
  BY <1>1 DEF PageCorrect, FlowOK, PageOK, Agrees, Pages
<1>3. PageOK(rec, Flow, World) /\ rec.seen = a.covered
  <2> HIDE DEF a
  <2> QED BY <1>2, OpenedKnows
<1>b. KnowsBusy(rec, World.cur) /\ rec.dialogs = OpenIn(a.events)
  <2> HIDE DEF a
  <2> QED BY <1>2, BusyOpens
<1>4. Ends(Flow, World) /\ EndKnown(a, Flow, World)
  BY <1>1 DEF UpToDate
<1>n. \A x \in World.told : Matters(x, World) => x.id \in a.covered \/ x \in Flow
  BY <1>1 DEF NothingMissed, Got, Asking, Known
<1> HIDE DEF rec, S, a
<1>5. Applied(rec, page', S)
  BY <1>1, <1>3, PageHears
<1>6. (\A e \in S, y \in Flow' : Before(e, y)) /\ Flow = S \cup Flow'
  BY <1>1 DEF Leaves
<1>7. \A x \in World.told : IsStory(x) => x.id \in rec.seen \/ x \in S \/ x \in Flow'
  BY <1>3, <1>6, <1>n DEF Matters, IsStory
<1>8. KnowsBusy(page', World.cur)
  BY <1>1, <1>2, <1>3, <1>b, <1>5, <1>6, <1>7, BusyHears
<1>9. Offers(page', Flow', World)
  <2>1. Offers(rec, S \cup Flow', World)
    <3>1. \A c \in Flow : c.id \notin a.covered => c \in S \cup Flow'
      BY <1>6
    <3> QED BY <1>4, <1>b, <3>1, OffersAnswer
  <2>2. \A d \in S, c \in S : InTurn(d, c) => c \in S
    OBVIOUS
  <2>3. S \subseteq S
    OBVIOUS
  <2> QED BY <1>2, <1>3, <1>4, <1>5, <1>6, <2>1, <2>2, <2>3, OffersHear
<1> QED BY <1>8, <1>9

\* A connected page that took no turn from the history alone gets the end of
\* every turn whose questions it shows, and knows whether the turn runs,
\* whatever it recovered from before.
THEOREM PageIsUpToDate == Spec => [](timely => UpToDate)
<1>1. Init => UpToDate
  <2> SUFFICES ASSUME Init PROVE UpToDate
    OBVIOUS
  <2>1. /\ Range(page.story) = {} /\ page.dialogs = {} /\ load.at = "asked" /\ recovery.answer = None
    BY DEF Init, Range
  <2>2. Waiting = <<>> /\ Coming = <<>> /\ Unsent = {}
    BY BoundsAssumption DEF Init, Waiting, Coming, Unsent, Sockets, Idle
  <2>3. Flow = {}
    BY <2>2 DEF Flow, Range
  <2> QED BY <2>1, <2>3 DEF UpToDate, Ends, Offers, KnowsBusy, Tells
<1>2. ServerOK /\ TurnOK /\ NetOK /\ NetOK' /\ FlowOK /\ (timely => PageCorrect) /\ WorldOK(World)
      /\ WorldOK(World)' /\ (timely => NothingLost) /\ (timely => UpToDate) /\ [Next]_vars => (timely => UpToDate)'
  <2> SUFFICES ASSUME ServerOK, TurnOK, NetOK, NetOK', FlowOK, PageCorrect, WorldOK(World),
                      WorldOK(World)', NothingLost, UpToDate, [Next]_vars, Steps
               PROVE  UpToDate'
    BY TimelySteps
  <2> SUFFICES ASSUME Connected' PROVE UpToDate'
    BY DEF UpToDate
  <2> DEFINE Goal ==
        /\ Ends(Flow', World')
        /\ recovery'.answer # None => EndKnown(recovery'.answer, Flow', World')
        /\ load'.at = "answered" => EndKnown(load'.answer, Flow', World')
        /\ whole' /\ ~ recovery'.running => Offers(page', Flow', World') /\ KnowsBusy(page', World'.cur)
  <2>0. Goal => UpToDate'
    BY DEF UpToDate
  <2>1. Steps /\ GoesOn(World, World', New) /\ WorldOK(World')
    BY WorldGoesOn
  <2>2. /\ \A e \in Flow : Genuine(e, World)
        /\ PageOK(page, Flow, World) /\ NothingMissed
        /\ (recovery.answer # None => AnswerOK(recovery.answer, Flow, World))
        /\ (load.at = "answered" => AnswerOK(load.answer, Flow, World))
        /\ (~ recovery.running => recovery.answer = None)
        /\ (~ recovery'.running => recovery'.answer = None)
    BY DEF FlowOK, PageCorrect, NothingLost, NetOK
  <2>3. CASE Connects
    <3>1. Flow' = {} /\ recovery'.running /\ recovery'.answer = None /\ load'.at # "answered"
      BY <2>3 DEF Connects
    <3> QED BY <2>0, <3>1 DEF Ends
  <2>4. ASSUME ~ Connects PROVE Connected
    BY <2>1, <2>4 DEF Steps, Emits, Decides, Loses, Holds, Hears, Asks, Opens, Recovers, Loads, Fails, SameNet
  <2>5. ASSUME Connected
        PROVE  /\ Ends(Flow \cup New, World')
               /\ recovery.answer # None => EndKnown(recovery.answer, Flow \cup New, World')
               /\ load.at = "answered" => EndKnown(load.answer, Flow \cup New, World')
               /\ whole /\ ~ recovery.running =>
                    Offers(page, Flow \cup New, World') /\ KnowsBusy(page, World'.cur)
    <3>1. /\ Ends(Flow, World)
          /\ recovery.answer # None => EndKnown(recovery.answer, Flow, World)
          /\ load.at = "answered" => EndKnown(load.answer, Flow, World)
          /\ whole /\ ~ recovery.running => Offers(page, Flow, World) /\ KnowsBusy(page, World.cur)
      BY <2>5 DEF UpToDate
    <3> QED BY <2>1, <2>2, <3>1, EndsGrow
  <2>6. ASSUME World' = World PROVE New = {} /\ Flow \cup New = Flow
    BY <2>6 DEF World, New
  <2>7. CASE Emits
    <3>1. Connected /\ UNCHANGED <<page, load, recovery, whole>> /\ Flow' = Flow \cup New
      BY <2>7 DEF Emits, SameNet
    <3> QED BY <2>0, <2>5, <3>1
  <2>8. CASE Decides
    <3>1. /\ Connected /\ UNCHANGED <<load, recovery, whole>> /\ Flow' = Flow /\ New = {}
          /\ \E p : page' = [page EXCEPT !.dialogs = {d \in @ : d.about # p}]
      BY <2>8 DEF Decides, SameNet, New
    <3>2. /\ page'.story = page.story /\ page'.over = page.over /\ page'.busy = page.busy
          /\ page'.dialogs \subseteq page.dialogs /\ Flow \cup New = Flow
      BY <2>2, <3>1 DEF PageOK, Agrees, Pages
    <3>3. Offers(page, Flow, World') => Offers(page', Flow, World')
      BY <3>2 DEF Offers
    <3>4. KnowsBusy(page, World'.cur) => KnowsBusy(page', World'.cur)
      BY <3>2 DEF KnowsBusy
    <3> QED BY <2>0, <2>5, <3>1, <3>2, <3>3, <3>4
  <2>9. CASE Loses \/ Holds
    <3>1. /\ Connected /\ page' = page /\ (whole' <=> whole) /\ Flow' = Flow /\ World' = World
          /\ load'.at = load.at /\ load'.answer = load.answer
          /\ (recovery'.running <=> recovery.running) /\ recovery'.answer = recovery.answer
      BY <2>9 DEF Loses, Holds, SameNet
    <3> QED BY <2>0, <2>5, <2>6, <3>1
  <2>10. CASE Asks \/ Opens
    <3>1. /\ Connected /\ page' = page /\ whole' = whole /\ Flow' = Flow /\ World' = World
          /\ \/ load' = load /\ recovery'.answer = Snapshot /\ recovery'.running
             \/ recovery' = recovery /\ load'.answer = Snapshot
      BY <2>10 DEF Asks, Opens, SameNet
    <3>2. EndKnown(Snapshot, Flow, World)
      BY SnapshotEnds
    <3> QED BY <2>0, <2>5, <2>6, <3>1, <3>2
  <2>11. ASSUME Connected, World' = World, NEW S, Leaves(S), recovery'.answer = None, load'.at = "done",
                whole' => Offers(page', Flow', World) /\ KnowsBusy(page', World.cur)
         PROVE  Goal
    <3>1. Ends(Flow', World)
      BY <2>2, <2>11, EndsLeave DEF UpToDate
    <3> QED BY <2>11, <3>1
  <2>12. CASE Hears
    <3>1. /\ Connected /\ World' = World /\ (\E S : Leaves(S)) /\ recovery'.answer = None /\ load'.at = "done"
          /\ whole' = whole
      BY <2>2, <2>12 DEF Hears, SameNet
    <3>2. whole => Offers(page', Flow', World) /\ KnowsBusy(page', World.cur)
      BY <2>2, <2>12, <3>1, UpToDateHears
    <3> QED BY <2>0, <2>11, <3>1, <3>2
  <2>13. CASE Recovers
    <3>1. /\ Connected /\ World' = World /\ (\E S : Leaves(S)) /\ recovery'.answer = None /\ load'.at = "done"
      BY <2>2, <2>13 DEF Recovers, SameNet
    <3>2. Offers(page', Flow', World) /\ KnowsBusy(page', World.cur)
      BY <2>2, <2>13, <3>1, UpToDateResumes
    <3> QED BY <2>0, <2>11, <3>1, <3>2
  <2>14. CASE Loads
    <3>1. /\ Connected /\ World' = World /\ (\E S : Leaves(S)) /\ recovery'.answer = None /\ load'.at = "done"
          /\ whole' = whole
      BY <2>2, <2>14 DEF Loads, SameNet
    <3>2. whole => Offers(page', Flow', World) /\ KnowsBusy(page', World.cur)
      BY <2>2, <2>14, <3>1, UpToDateLoads
    <3> QED BY <2>0, <2>11, <3>1, <3>2
  <2>15. CASE Fails
    <3>1. /\ Connected /\ World' = World /\ (\E S : Leaves(S)) /\ recovery'.answer = None /\ load'.at = "done"
          /\ ~ whole'
      BY <2>2, <2>15 DEF Fails
    <3> QED BY <2>0, <2>11, <3>1
  <2> QED BY <2>1, <2>3, <2>7, <2>8, <2>9, <2>10, <2>12, <2>13, <2>14, <2>15 DEF Steps
<1> QED BY <1>1, <1>2, ServerCorrect, TurnsAreTold, WorldCorrect, NetCorrect, FlowCorrect, PageIsRight,
           NothingIsLost, PTL DEF Spec

-----------------------------------------------------------------------------
(* On its first connection, the page offers no question that is settled *)

First    == opened = 1 /\ Connected /\ whole
Underway == Flow \cup Range(made)

Over(d, w) == d.kind = "requested" /\ w.asks[d.about] = "over"

\* Of every question in D that is over, the resolution is in U and unknown to K.
Settling(D, U, K, w) == \A d \in D : Over(d, w) => \E r \in U : Settles(r, d) /\ r.id \notin K

\* What is known of F is a beginning of it.
Beginning(K, F) == \A e, y \in F : InTurn(e, y) /\ y.id \in K => e.id \in K

SettledOK ==
    /\ \A d \in Flow : d.kind = "requested" /\ Waits(World, d.about) => d.turn = World.cur
    /\ \A r, d \in Underway : d.kind = "requested" /\ Settles(r, d) => InTurn(d, r)
    /\ First => /\ Settling(Underway, Underway, {}, World)
                /\ load.at = "answered" => Settling(Range(load.answer.events), Underway, load.answer.covered, World)
                /\ load.at = "done" => Settling(page.dialogs, Underway, page.seen, World)
                /\ Beginning(Known, Flow)

\* What the client makes in a step, and whom it asks or answers.
MakesOn(add) ==
    /\ Range(made') \cup New = Range(made) \cup add /\ New \subseteq Range(made)
    /\ \A e \in add : /\ e \in Event /\ e.turn = turn.number /\ e.id[1] = e.turn
                      /\ \A x \in Made : x.id[2] < e.id[2]
                      /\ e.kind = "requested" => asks[e.about] = "none" /\ asks'[e.about] = "pending"
                      /\ e.kind = "resolved" => asks[e.about] \in {"denied", "answered"}
    /\ \A p \in Permissions : asks'[p] = "over" /\ asks[p] # "over" =>
         \E r \in add : r.kind = "resolved" /\ r.about = p

\* The client makes one event.
LEMMA OneMade ==
    ASSUME ServerOK, TurnOK, New = {},
           NEW changed \in [number : Nat, phase : {"running", "ending", "over"}, texts : Nat, made : Nat],
           changed.number = turn.number, changed.made = turn.made,
           NEW kind \in {"text", "requested", "resolved", "completed"},
           NEW p \in Permissions \cup {"none"}, Make(changed, kind, p),
           kind = "requested" => asks[p] = "none" /\ asks'[p] = "pending",
           kind = "resolved" => asks[p] \in {"denied", "answered"},
           \A q \in Permissions : asks'[q] = "over" /\ asks[q] # "over" => kind = "resolved" /\ q = p
    PROVE  \E add : MakesOn(add)
<1>1. made \in Seq(Event) /\ turn.number \in Nat /\ turn.made \in Nat
  BY DEF ServerOK, ServerType
<1>2. PICK e \in Event : /\ e.id = <<changed.number, changed.made + 1>>
                         /\ e.kind = kind /\ e.about = p /\ e.turn = changed.number
                         /\ made' = Append(made, e)
  BY <1>1, MakeType
<1>3. Range(made') = Range(made) \cup {e}
  BY <1>1, <1>2, OneMore
<1>4. e.turn = turn.number /\ e.id[1] = e.turn /\ e.id[2] = turn.made + 1
  BY <1>2
<1>5. \A x \in Made : x.id[2] < e.id[2]
  BY <1>1, <1>4, NumbersOfMade
<1>6. Range(made') \cup New = Range(made) \cup {e} /\ New \subseteq Range(made)
  BY <1>3
<1> HIDE DEF Event
<1>7. MakesOn({e})
  BY <1>2, <1>4, <1>5, <1>6 DEF MakesOn
<1> QED BY <1>7

\* Every step makes what MakesOn says.
LEMMA StepMakes ==
    ASSUME ServerOK, TurnOK, [Next]_vars
    PROVE  \E add : MakesOn(add)
<1> USE DEF server, net, ui, ghosts
<1>t. /\ turn \in [number : Nat, phase : {"running", "ending", "over"}, texts : Nat, made : Nat]
      /\ asks \in [Permissions -> AskStates] /\ "none" \notin Permissions
  BY BoundsAssumption DEF ServerOK, ServerType
<1>n. (emitted' = emitted \/ emitted' = <<>>) => New = {}
  BY DEF New, Range
<1>1. ASSUME made' = made, New = {}, \A p \in Permissions : asks'[p] = "over" => asks[p] = "over"
      PROVE  \E add : MakesOn(add)
  <2>1. MakesOn({})
    BY <1>1 DEF MakesOn
  <2> QED BY <2>1
<1>2. CASE Emit
  <2>1. /\ made \in Seq(Event) /\ made # <<>> /\ made' = Tail(made) /\ New = {Head(made)}
    BY <1>2, WorldEmits DEF Emit, ServerOK, ServerType
  <2>2. Range(made) = {Head(made)} \cup Range(made')
    BY <2>1, FirstAndRest
  <2>3. \A p \in Permissions : asks'[p] = "over" => asks[p] = "over"
    BY <1>2 DEF Emit, Undeliverable, Denied
  <2>4. Range(made') \cup New = Range(made) \cup {} /\ New \subseteq Range(made)
    BY <2>1, <2>2
  <2>5. MakesOn({})
    BY <2>3, <2>4 DEF MakesOn
  <2> QED BY <2>5
<1>3. CASE Say
  <2> DEFINE changed == [turn EXCEPT !.texts = @ + 1]
  <2>1. /\ changed \in [number : Nat, phase : {"running", "ending", "over"}, texts : Nat, made : Nat]
        /\ changed.number = turn.number /\ changed.made = turn.made
    BY <1>t
  <2>2. Make(changed, "text", "none") /\ asks' = asks /\ emitted' = emitted
    BY <1>3 DEF Say
  <2> HIDE DEF changed
  <2> QED BY <1>n, <2>1, <2>2, OneMade
<1>4. CASE Complete
  <2> DEFINE changed == [turn EXCEPT !.phase = "ending"]
  <2>1. /\ changed \in [number : Nat, phase : {"running", "ending", "over"}, texts : Nat, made : Nat]
        /\ changed.number = turn.number /\ changed.made = turn.made
    BY <1>t
  <2>2. Make(changed, "completed", "none") /\ asks' = asks /\ emitted' = emitted
    BY <1>4 DEF Complete
  <2> HIDE DEF changed
  <2> QED BY <1>n, <2>1, <2>2, OneMade
<1>5. ASSUME NEW p \in Permissions, Ask(p) PROVE \E add : MakesOn(add)
  <2>1. Make(turn, "requested", p) /\ asks[p] = "none" /\ asks' = [asks EXCEPT ![p] = "pending"]
        /\ emitted' = emitted
    BY <1>5 DEF Ask
  <2>2. asks'[p] = "pending" /\ \A q \in Permissions : asks'[q] = "over" => asks[q] = "over"
    BY <1>t, <2>1
  <2> QED BY <1>n, <1>t, <2>1, <2>2, OneMade
<1>6. ASSUME NEW p \in Permissions, AskReturns(p) PROVE \E add : MakesOn(add)
  <2>1. Make(turn, "resolved", p) /\ asks[p] \in {"answered", "denied"} /\ asks' = [asks EXCEPT ![p] = "over"]
        /\ emitted' = emitted
    BY <1>6 DEF AskReturns
  <2>2. \A q \in Permissions : asks'[q] = "over" /\ asks[q] # "over" => q = p
    BY <1>t, <2>1
  <2> QED BY <1>n, <1>t, <2>1, <2>2, OneMade
<1>7. ASSUME NEW p \in Permissions, Respond(p) PROVE \E add : MakesOn(add)
  <2>1. made' = made /\ emitted' = emitted /\ asks' = [asks EXCEPT ![p] = "answered"]
    BY <1>7 DEF Respond
  <2> QED BY <1>1, <1>n, <1>t, <2>1
<1>8. ASSUME made' = made, emitted' = emitted \/ emitted' = <<>>, asks' = asks \/ \E ps : asks' = Denied(ps)
      PROVE  \E add : MakesOn(add)
  <2>1. \A p \in Permissions : asks'[p] = "over" => asks[p] = "over"
    BY <1>8 DEF Denied
  <2> QED BY <1>1, <1>8, <1>n, <2>1
<1>9. ASSUME NEW c \in Sockets, Disconnect(c) \/ Send(c) \/ SendTimesOut(c) \/ Break(c) PROVE \E add : MakesOn(add)
  <2>1. made' = made /\ emitted' = emitted /\ (asks' = asks \/ \E ps : asks' = Denied(ps))
    BY <1>9 DEF Disconnect, Send, SendTimesOut, Break
  <2> QED BY <1>8, <2>1
<1>10. CASE Prompt \/ TurnOver \/ Stop \/ EmitReturns
  <2>1. made' = made /\ (emitted' = emitted \/ emitted' = <<>>) /\ (asks' = asks \/ \E ps : asks' = Denied(ps))
    BY <1>10 DEF Prompt, TurnOver, Stop, EmitReturns, Undeliverable
  <2> QED BY <1>8, <2>1
<1>11. CASE Connect \/ Show \/ Failure \/ UNCHANGED vars
  <2>1. made' = made /\ emitted' = emitted /\ asks' = asks
    BY <1>11 DEF Connect, Show, Failure, Noticed, Receive, LoadAnswered, ReadHistory, Loaded, Answer,
       Recover, LoadFails, RecoverFails, vars
  <2> QED BY <1>8, <2>1
<1> QED BY <1>2, <1>3, <1>4, <1>5, <1>6, <1>7, <1>9, <1>10, <1>11
    DEF Next, Turns, Returns, Deliver, Trouble, Decide

\* What is made or on its way, and how both compare.
LEMMA UnderwayIs ==
    ASSUME ServerOK, TurnOK, FlowOK
    PROVE  /\ \A e \in Underway :
                /\ e \in Event /\ e.turn \in Nat /\ e.id[2] \in Nat
                /\ e.turn = World.cur => e \in Made
                /\ e.kind = "requested" => e.about \in Permissions /\ asks[e.about] # "none"
                /\ e.kind = "resolved" => e.about \in Permissions /\ asks[e.about] = "over"
           /\ \A e \in Range(made) : e.turn = World.cur /\ e.id \notin Past(World)
           /\ \A e \in Range(made), x \in Flow : e.id # x.id /\ ~ InTurn(e, x)
<1>1. World.cur = turn.number /\ World.told = Range(emitted) /\ World.asks = asks /\ turn.number \in Nat
      /\ Len(emitted) \in Nat
  BY NumbersOfMade DEF World
<1>2. ASSUME NEW e \in Range(made)
      PROVE  /\ e \in Made /\ e \in Event /\ e.turn = turn.number /\ e.id[1] = turn.number
             /\ e.id[2] > Len(emitted) /\ e.id[2] \in Nat
             /\ e.kind = "requested" => e.about \in Permissions /\ asks[e.about] # "none"
             /\ e.kind = "resolved" => e.about \in Permissions /\ asks[e.about] = "over"
  <2>1. e \in Made
    BY DEF Made
  <2>2. e \in Event /\ e.id[1] = turn.number /\ e.id[2] > Len(emitted) /\ e.id[2] \in Nat
    <3>1. turn.made \in Nat
      BY DEF ServerOK, ServerType
    <3> QED BY <2>1, <3>1, NumbersOfMade
  <2>3. e.kind = "requested" => e.about \in Permissions /\ asks[e.about] # "none"
    <3>1. PICK i \in DOMAIN made : e = made[i]
      BY DEF Range
    <3> QED BY <3>1 DEF ServerOK, Answerable, Asked
  <2>4. e.kind = "resolved" => e.about \in Permissions /\ asks[e.about] = "over"
    BY <2>1 DEF TurnOK, OfKind
  <2> QED BY <2>1, <2>2, <2>3, <2>4 DEF TurnOK
<1>3. \A x \in Range(emitted) : x.id[2] \in 1..Len(emitted) /\ x \in Made
  BY NumbersOfMade DEF Made
<1>4. ASSUME NEW x \in Flow
      PROVE  /\ x \in Event /\ x.turn \in Nat /\ x.id[2] \in Nat /\ x.id[1] = x.turn
             /\ x.turn = turn.number => x \in Range(emitted)
             /\ x.kind = "requested" => x.about \in Permissions /\ asks[x.about] # "none"
             /\ x.kind = "resolved" => x.about \in Permissions /\ asks[x.about] = "over"
  <2>1. Genuine(x, World)
    BY DEF FlowOK
  <2> QED BY <1>1, <2>1 DEF Genuine, Event
<1>5. ASSUME NEW e \in Range(made) PROVE e.id \notin Past(World)
  BY <1>1, <1>2, <1>3 DEF Past
<1>6. ASSUME NEW e \in Range(made), NEW x \in Flow PROVE e.id # x.id /\ ~ InTurn(e, x)
  <2>1. x.turn = turn.number => x.id[2] <= Len(emitted)
    BY <1>1, <1>3, <1>4
  <2> QED BY <1>1, <1>2, <1>4, <2>1 DEF InTurn
<1>7. \A e \in Underway :
                /\ e \in Event /\ e.turn \in Nat /\ e.id[2] \in Nat
                /\ e.turn = World.cur => e \in Made
                /\ e.kind = "requested" => e.about \in Permissions /\ asks[e.about] # "none"
                /\ e.kind = "resolved" => e.about \in Permissions /\ asks[e.about] = "over"
  <2> HIDE DEF Event
  <2> QED BY <1>1, <1>2, <1>3, <1>4 DEF Underway
<1> QED BY <1>1, <1>2, <1>5, <1>6, <1>7

\* A question comes before its resolution, and waits in its turn.
LEMMA AskedFirst ==
    ASSUME ServerOK, TurnOK, FlowOK, WorldOK(World), WorldOK(World'), GoesOn(World, World', New),
           NEW add, MakesOn(add), Flow' \subseteq Flow \cup New, SettledOK
    PROVE  /\ \A d \in Flow' : d.kind = "requested" /\ Waits(World', d.about) => d.turn = World'.cur
           /\ \A r, d \in Underway' : d.kind = "requested" /\ Settles(r, d) => InTurn(d, r)
<1>1. ASSUME NEW d \in Flow', d.kind = "requested", Waits(World', d.about) PROVE d.turn = World'.cur
  <2>1. CASE d \in New
    BY <2>1 DEF New, World, WorldOK
  <2>2. CASE d \in Flow
    <3>1. Genuine(d, World) /\ d.about \in Permissions /\ World.asks[d.about] # "none"
      BY <1>1, <2>2 DEF FlowOK, Genuine
    <3>2. Waits(World, d.about)
      BY <1>1, <3>1 DEF GoesOn
    <3>3. d.turn = World.cur
      BY <1>1, <2>2, <3>2 DEF SettledOK
    <3>4. d \in World.told /\ ~ Ended(World.told)
      BY <3>1, <3>2, <3>3 DEF Genuine, Waits, WorldOK
    <3> QED BY <3>3, <3>4 DEF GoesOn
  <2> QED BY <2>1, <2>2
<1>2. Underway' \subseteq Underway \cup add
  BY DEF Underway, MakesOn
<1>3. World.cur = turn.number
  BY DEF World
<1>4. ASSUME NEW r \in Underway', NEW d \in Underway', d.kind = "requested", Settles(r, d) PROVE InTurn(d, r)
  <2>1. r.kind = "resolved" /\ r.about = d.about
    BY <1>4 DEF Settles
  <2>2. CASE r \in Underway /\ d \in Underway
    BY <1>4, <2>2 DEF SettledOK
  <2>3. CASE d \in add
    <3>1. asks[d.about] = "none"
      BY <1>4, <2>3 DEF MakesOn
    <3>2. r \in Underway => asks[r.about] = "over"
      BY <2>1, UnderwayIs
    <3>3. r \in add => asks[r.about] \in {"denied", "answered"}
      BY <2>1 DEF MakesOn
    <3> QED BY <1>2, <2>1, <3>1, <3>2, <3>3
  <2>4. CASE r \in add /\ d \in Underway
    <3>1. asks[d.about] \in {"denied", "answered"} /\ r.turn = turn.number /\ \A x \in Made : x.id[2] < r.id[2]
      BY <2>1, <2>4 DEF MakesOn
    <3>2. d.turn = turn.number
      <4>1. CASE d \in Range(made)
        BY <1>3, <4>1, UnderwayIs
      <4>2. CASE d \in Flow
        BY <1>3, <1>4, <3>1, <4>2 DEF SettledOK, Waits, World
      <4> QED BY <2>4, <4>1, <4>2 DEF Underway
    <3>3. d \in Made
      BY <1>3, <2>4, <3>2, UnderwayIs
    <3> QED BY <3>1, <3>2, <3>3 DEF InTurn
  <2> QED BY <1>2, <2>2, <2>3, <2>4
<1> QED BY <1>1, <1>4

\* As the client goes on, whatever gets over is resolved by what it makes.
LEMMA SettlingGrows ==
    ASSUME ServerOK, TurnOK, FlowOK, NEW add, MakesOn(add), Flow' = Flow \cup New,
           NEW D, \A d \in D : d.kind = "requested" => d.about \in Permissions,
           NEW K, K \subseteq Past(World), Settling(D, Underway, K, World)
    PROVE  Underway' = Underway \cup add /\ Settling(D \cup add, Underway', K, World')
<1>1. Underway' = Underway \cup add
  BY DEF Underway, MakesOn
<1>2. World.asks = asks /\ World'.asks = asks' /\ World.told = Range(emitted) /\ World.cur = turn.number
      /\ turn.number \in Nat /\ \A x \in Range(emitted) : x.id[2] \in Nat /\ x \in Made
  BY NumbersOfMade DEF World, Made
<1>3. ASSUME NEW d \in D \cup add, Over(d, World')
      PROVE  \E r \in Underway' : Settles(r, d) /\ r.id \notin K
  <2>1. CASE d \in add
    BY <1>2, <1>3, <2>1 DEF Over, MakesOn
  <2>2. CASE d \in D /\ asks[d.about] = "over"
    <3>1. Over(d, World)
      BY <1>2, <1>3, <2>2 DEF Over
    <3> QED BY <1>1, <2>2, <3>1 DEF Settling
  <2>3. CASE d \in D /\ asks[d.about] # "over"
    <3>1. d.about \in Permissions /\ asks'[d.about] = "over" /\ d.kind = "requested"
      BY <1>2, <1>3, <2>3 DEF Over
    <3>2. PICK r \in add : r.kind = "resolved" /\ r.about = d.about
      BY <2>3, <3>1 DEF MakesOn
    <3>3. r.id \notin Past(World)
      <4>1. r.id[1] = turn.number /\ \A x \in Made : x.id[2] < r.id[2]
        BY <3>2 DEF MakesOn
      <4> QED BY <1>2, <4>1 DEF Past
    <3> QED BY <1>1, <3>2, <3>3 DEF Settles
  <2> QED BY <1>3, <2>1, <2>2, <2>3
<1> QED BY <1>1, <1>3 DEF Settling

\* What the page applies settles what it shows, unless the resolution is still
\* to come.
LEMMA SettlingHears ==
    ASSUME ServerOK, TurnOK, NetOK, FlowOK, WorldOK(World), World' = World, NEW add, MakesOn(add),
           NEW pg, PageOK(pg, Flow, World), NEW P, P \subseteq Flow, Leaves(P), NEW out, Applied(pg, out, P),
           \A r, d \in Underway : d.kind = "requested" /\ Settles(r, d) => InTurn(d, r),
           Settling(Underway, Underway, {}, World), Settling(pg.dialogs, Underway, pg.seen, World),
           Beginning(pg.seen, Flow)
    PROVE  /\ Settling(Underway', Underway', {}, World)
           /\ Settling(out.dialogs, Underway', out.seen, World)
           /\ Beginning(out.seen, Flow')
<1>1. /\ Flow = P \cup Flow' /\ \A x \in P, y \in Flow' : Before(x, y)
      /\ Range(made') = Range(made) \cup add
      /\ asks' = asks
  BY DEF Leaves, World, MakesOn, New
<1>2. \A d \in add : ~ Over(d, World)
  BY <1>1 DEF MakesOn, Over, World
<1>3. \A x, y \in Flow : x.id = y.id => x = y
  BY Distinct
<1>4. \A e \in Underway : e.turn \in Nat /\ e.id[2] \in Nat
  BY UnderwayIs
<1>5. \A x, y \in Underway : InTurn(x, y) => ~ Before(y, x)
  BY <1>4 DEF InTurn, Before
<1>6. Underway' = Flow' \cup Range(made) \cup add /\ Underway = P \cup Flow' \cup Range(made)
  BY <1>1 DEF Underway
<1>7. \A e \in Range(made), x \in Flow : e.id # x.id /\ ~ InTurn(e, x)
  BY UnderwayIs
<1>8. \A e \in Range(made) : e.id \notin Past(World)
  BY UnderwayIs
<1>9. out.seen = pg.seen \cup {e.id : e \in P} /\ pg.seen \subseteq Past(World)
  BY DEF Applied, PageOK
<1>10. Settling(Underway', Underway', {}, World)
  <2> SUFFICES ASSUME NEW d \in Underway', Over(d, World) PROVE \E r \in Underway' : Settles(r, d)
    BY DEF Settling
  <2>1. d \in Underway /\ d.kind = "requested" /\ d \in Flow' \cup Range(made)
    BY <1>2, <1>6 DEF Over
  <2>2. PICK r \in Underway : Settles(r, d)
    BY <2>1 DEF Settling
  <2>3. InTurn(d, r)
    BY <2>1, <2>2
  <2>4. r \in Underway'
    <3> SUFFICES ASSUME r \in P PROVE FALSE
      BY <1>6
    <3>1. CASE d \in Flow'
      BY <1>1, <1>5, <2>1, <2>3, <3>1
    <3>2. CASE d \in Range(made)
      BY <1>7, <2>3, <3>2
    <3> QED BY <2>1, <3>1, <3>2
  <2> QED BY <2>2, <2>4
<1>11. Settling(out.dialogs, Underway', out.seen, World)
  <2> SUFFICES ASSUME NEW d \in out.dialogs, Over(d, World)
               PROVE  \E r \in Underway' : Settles(r, d) /\ r.id \notin out.seen
    BY DEF Settling
  <2>1. d.kind = "requested"
    BY DEF Over
  <2>2. ASSUME NEW r \in Underway, Settles(r, d), r.id \notin pg.seen, r \notin P
        PROVE  \E q \in Underway' : Settles(q, d) /\ q.id \notin out.seen
    <3>1. r \in Underway'
      BY <1>6, <2>2
    <3>2. \A e \in P : e.id # r.id
      BY <1>3, <1>6, <1>7, <2>2 DEF Underway
    <3> QED BY <1>9, <2>2, <3>1, <3>2
  <2>3. ASSUME NEW r \in P, Settles(r, d), r.id \notin pg.seen PROVE FALSE
    <3>1. d \in P /\ Before(r, d)
      BY <2>3 DEF Applied
    <3>2. d \in Underway /\ r \in Underway
      BY <1>6, <3>1
    <3> QED BY <1>5, <2>1, <2>3, <3>1, <3>2
  <2>4. \E r \in Underway : Settles(r, d) /\ r.id \notin pg.seen
    <3>1. CASE d \in pg.dialogs
      BY <3>1 DEF Settling
    <3>2. CASE d \in P /\ d.id \notin pg.seen
      <4>1. d \in Underway /\ d \in Flow
        BY <1>1, <1>6, <3>2
      <4>2. PICK r \in Underway : Settles(r, d)
        BY <4>1 DEF Settling
      <4>3. InTurn(d, r)
        BY <2>1, <4>1, <4>2
      <4>4. r.id \notin pg.seen
        <5>1. CASE r \in Flow
          BY <3>2, <4>1, <4>3, <5>1 DEF Beginning
        <5>2. CASE r \in Range(made)
          BY <1>8, <1>9, <5>2
        <5> QED BY <5>1, <5>2 DEF Underway
      <4> QED BY <4>2, <4>4
    <3> QED BY <3>1, <3>2 DEF Applied
  <2> QED BY <2>2, <2>3, <2>4
<1>12. Beginning(out.seen, Flow')
  <2> SUFFICES ASSUME NEW e \in Flow', NEW y \in Flow', InTurn(e, y), y.id \in out.seen PROVE e.id \in out.seen
    BY DEF Beginning
  <2>1. CASE y.id \in pg.seen
    BY <1>1, <1>9, <2>1 DEF Beginning
  <2>2. CASE y.id \notin pg.seen
    <3>1. PICK x \in P : x.id = y.id
      BY <1>9, <2>2
    <3>2. x = y
      BY <1>1, <1>3, <3>1
    <3>3. Before(y, y) /\ y \in Underway
      BY <1>1, <1>6, <3>2
    <3> QED BY <1>4, <3>3 DEF Before
  <2> QED BY <2>1, <2>2
<1> QED BY <1>10, <1>11, <1>12

\* The client and what it tells go on, and the page shows no more than before.
LEMMA SettledGrows ==
    ASSUME ServerOK, TurnOK, NetOK, FlowOK, PageCorrect, WorldOK(World), GoesOn(World, World', New),
           NEW add, MakesOn(add), Flow' = Flow \cup New, First, SettledOK
    PROVE  /\ Settling(Underway', Underway', {}, World')
           /\ load.at = "answered" => Settling(Range(load.answer.events), Underway', load.answer.covered, World')
           /\ load.at = "done" => Settling(page.dialogs, Underway', page.seen, World')
           /\ Beginning(Known, Flow')
<1>1. ~ recovery.running /\ load.at \in {"asked", "answered", "done"}
  BY DEF NetOK, First
<1>2. /\ Settling(Underway, Underway, {}, World)
      /\ load.at = "answered" => Settling(Range(load.answer.events), Underway, load.answer.covered, World)
      /\ load.at = "done" => Settling(page.dialogs, Underway, page.seen, World)
      /\ Beginning(Known, Flow)
  BY DEF SettledOK
<1>3. ASSUME NEW D, \A d \in D : d.kind = "requested" => d.about \in Permissions,
             NEW K, K \subseteq Past(World), Settling(D, Underway, K, World)
      PROVE  Underway' = Underway \cup add /\ Settling(D \cup add, Underway', K, World')
  BY <1>3, SettlingGrows
<1>4. Settling(Underway', Underway', {}, World')
  <2>1. \A d \in Underway : d.kind = "requested" => d.about \in Permissions
    BY UnderwayIs
  <2>2. {} \subseteq Past(World)
    OBVIOUS
  <2>3. Underway' = Underway \cup add /\ Settling(Underway \cup add, Underway', {}, World')
    BY <1>2, <1>3, <2>1, <2>2
  <2> QED BY <2>3
<1>5. ASSUME load.at = "answered"
      PROVE  /\ Settling(Range(load.answer.events), Underway', load.answer.covered, World')
             /\ load.answer.covered \subseteq Past(World)
  <2>1. load.answer.covered \subseteq Past(World) /\ \A d \in Range(load.answer.events) : Genuine(d, World)
    BY <1>5 DEF PageCorrect, AnswerOK
  <2>2. \A d \in Range(load.answer.events) : d.kind = "requested" => d.about \in Permissions
    BY <2>1 DEF Genuine
  <2>3. Settling(Range(load.answer.events) \cup add, Underway', load.answer.covered, World')
    BY <1>2, <1>3, <1>5, <2>1, <2>2
  <2> QED BY <2>1, <2>3 DEF Settling
<1>6. ASSUME load.at = "done"
      PROVE  Settling(page.dialogs, Underway', page.seen, World') /\ page.seen \subseteq Past(World)
  <2>1. page.seen \subseteq Past(World) /\ \A d \in page.dialogs : Genuine(d, World)
    BY DEF PageCorrect, PageOK
  <2>2. \A d \in page.dialogs : d.kind = "requested" => d.about \in Permissions
    BY <2>1 DEF Genuine
  <2>3. Settling(page.dialogs \cup add, Underway', page.seen, World')
    BY <1>2, <1>3, <1>6, <2>1, <2>2
  <2> QED BY <2>1, <2>3 DEF Settling
<1>7. Beginning(Known, Flow')
  <2> SUFFICES ASSUME NEW e \in Flow \cup New, NEW y \in Flow \cup New, InTurn(e, y), y.id \in Known
               PROVE  e.id \in Known
    BY DEF Beginning
  <2>1. Known \subseteq Past(World) \cup {<<0, 0>>}
    <3>1. load.at = "asked" => load.answer = None
      BY DEF NetOK
    <3> QED BY <1>1, <1>5, <1>6, <3>1 DEF Known, None
  <2>2. y \in Flow
    <3> SUFFICES ASSUME y \in New PROVE FALSE
      OBVIOUS
    <3>1. y.id \notin Past(World) /\ y.id[2] > 0
      BY PastGoesOn DEF GoesOn
    <3> QED BY <2>1, <3>1
  <2>3. CASE e \in Flow
    BY <1>2, <2>2, <2>3 DEF Beginning
  <2>4. CASE e \in New
    <3>1. /\ e.turn = World.cur /\ e \in Event /\ \A x \in World.told : x.id[2] < e.id[2]
      BY <2>4 DEF GoesOn
    <3>2. Genuine(y, World)
      BY <2>2 DEF FlowOK
    <3>3. y \in World.told /\ y \in Event
      BY <3>1, <3>2 DEF Genuine, InTurn
    <3>4. e.id[2] \in Nat /\ y.id[2] \in Nat /\ y.id[2] < e.id[2] /\ e.id[2] < y.id[2]
      BY <3>1, <3>3 DEF Event, InTurn
    <3> QED BY <3>4
  <2> QED BY <2>3, <2>4
<1> QED BY <1>4, <1>5, <1>6, <1>7

\* An event that arrives settles what it is about.
LEMMA SettledHears ==
    ASSUME ServerOK, TurnOK, NetOK, FlowOK, PageCorrect, WorldOK(World), NEW add, MakesOn(add),
           Hears, First, SettledOK
    PROVE  /\ Settling(Underway', Underway', {}, World)
           /\ Settling(page'.dialogs, Underway', page'.seen, World)
           /\ Beginning(page'.seen, Flow')
<1>1. World' = World /\ ~ recovery.running /\ load.at = "done"
  BY DEF Hears
<1>2. PICK e \in Flow : page' = ApplyAll(page, <<e>>) /\ Leaves({e})
  BY DEF Hears
<1>3. e \in Event /\ Flow' \subseteq Flow
  BY <1>2 DEF FlowOK, Genuine, Leaves
<1>4. Chosen(<<e>>, {e}) /\ {e} \subseteq Flow
  BY <1>3, ChosenOne
<1>5. PageOK(page, Flow, World)
  BY DEF PageCorrect
<1>6. Applied(page, page', {e})
  BY <1>2, <1>3, <1>4, <1>5, PageHears
<1>7. /\ \A r, d \in Underway : d.kind = "requested" /\ Settles(r, d) => InTurn(d, r)
      /\ Settling(Underway, Underway, {}, World) /\ Settling(page.dialogs, Underway, page.seen, World)
      /\ Beginning(page.seen, Flow)
  BY <1>1 DEF SettledOK, Known
<1> QED BY <1>1, <1>2, <1>4, <1>5, <1>6, <1>7, SettlingHears

\* The settlement of what an opened session shows is still to come.
LEMMA SettledLoads ==
    ASSUME ServerOK, TurnOK, NetOK, FlowOK, PageCorrect, WorldOK(World), NEW add, MakesOn(add),
           Loads, First, SettledOK
    PROVE  /\ Settling(Underway', Underway', {}, World)
           /\ Settling(page'.dialogs, Underway', page'.seen, World)
           /\ Beginning(page'.seen, Flow')
<1> DEFINE a == load.answer
           pg == OpenedWith(page, load.answer)
           S == Range(Waiting)
<1>1. World' = World /\ load.at = "answered" /\ Leaves(S)
  BY DEF Loads
<1>2. PICK rest : Chosen(rest, S) /\ page' = ApplyAll(pg, rest)
  BY DEF Loads
<1>3. Flow' \subseteq Flow /\ S \subseteq Flow
  BY <1>1 DEF Leaves
<1>4. AnswerOK(a, Flow, World) /\ page.active \in Nat
  BY <1>1 DEF PageCorrect, PageOK, Agrees, Pages
<1>5. PageOK(pg, Flow, World) /\ pg.seen = a.covered
  BY <1>4, OpenedKnows
<1>6. pg.dialogs \subseteq Range(a.events)
  <2>1. pg.dialogs = OpenIn(a.events)
    BY <1>4, BusyOpens
  <2>2. a.events \in Seq(Event) /\ Sorted(a.events)
    BY <1>4 DEF AnswerOK, Answers
  <2> HIDE DEF a, pg
  <2> QED BY <2>1, <2>2, OpenInIs
<1> HIDE DEF pg
<1>7. Applied(pg, page', S)
  BY <1>2, <1>3, <1>5, PageHears
<1>8. /\ \A r, d \in Underway : d.kind = "requested" /\ Settles(r, d) => InTurn(d, r)
      /\ Settling(Underway, Underway, {}, World) /\ Settling(Range(a.events), Underway, a.covered, World)
      /\ Beginning(a.covered, Flow)
  BY <1>1 DEF SettledOK, Known
<1>9. Settling(pg.dialogs, Underway, pg.seen, World) /\ Beginning(pg.seen, Flow)
  BY <1>5, <1>6, <1>8 DEF Settling
<1> HIDE DEF S, a
<1> QED BY <1>1, <1>3, <1>5, <1>7, <1>8, <1>9, SettlingHears

\* On its first connection, of every question that is over and that a page which
\* took no turn from the history alone shows or will show, the resolution is
\* still to come to it.
THEOREM QuestionsSettle == Spec => [](timely => SettledOK)
<1>1. Init => SettledOK
  <2> SUFFICES ASSUME Init PROVE SettledOK
    OBVIOUS
  <2>1. Waiting = <<>> /\ Coming = <<>> /\ Unsent = {}
    BY BoundsAssumption DEF Init, Waiting, Coming, Unsent, Sockets, Idle
  <2>2. Flow = {} /\ Underway = {} /\ load.at = "asked"
    BY <2>1 DEF Flow, Underway, Range, Init
  <2> QED BY <2>2 DEF SettledOK, Settling, Beginning
<1>2. ServerOK /\ TurnOK /\ NetOK /\ NetOK' /\ FlowOK /\ (timely => PageCorrect) /\ WorldOK(World)
      /\ WorldOK(World)' /\ (timely => SettledOK) /\ [Next]_vars => (timely => SettledOK)'
  <2> SUFFICES ASSUME ServerOK, TurnOK, NetOK, NetOK', FlowOK, PageCorrect, WorldOK(World),
                      WorldOK(World)', SettledOK, [Next]_vars, Steps
               PROVE  SettledOK'
    BY TimelySteps
  <2>1. Steps /\ GoesOn(World, World', New) /\ WorldOK(World')
    BY WorldGoesOn
  <2>2. PICK add : MakesOn(add)
    BY StepMakes
  <2>3. /\ \A d \in Flow' : d.kind = "requested" /\ Waits(World', d.about) => d.turn = World'.cur
        /\ \A r, d \in Underway' : d.kind = "requested" /\ Settles(r, d) => InTurn(d, r)
    <3>1. Flow' \subseteq Flow \cup New
      BY <2>1 DEF Steps, Emits, Decides, Loses, Connects, Holds, Hears, Asks, Opens, Recovers, Loads, Fails, Leaves
    <3> QED BY <2>1, <2>2, <3>1, AskedFirst
  <2> DEFINE Goal ==
        /\ Settling(Underway', Underway', {}, World')
        /\ load'.at = "answered" => Settling(Range(load'.answer.events), Underway', load'.answer.covered, World')
        /\ load'.at = "done" => Settling(page'.dialogs, Underway', page'.seen, World')
        /\ Beginning(Known', Flow')
  <2>4. SUFFICES ASSUME First' PROVE Goal
    BY <2>3 DEF SettledOK
  <2>5. opened' = 1 /\ Connected' /\ whole' /\ ~ recovery'.running
    BY <2>4 DEF First, NetOK
  <2>6. ASSUME opened' = opened PROVE ~ recovery.running
    BY <2>5, <2>6 DEF NetOK
  <2>7. ASSUME First, Flow' = Flow \cup New
        PROVE  /\ Settling(Underway', Underway', {}, World')
               /\ load.at = "answered" => Settling(Range(load.answer.events), Underway', load.answer.covered, World')
               /\ load.at = "done" => Settling(page.dialogs, Underway', page.seen, World')
               /\ Beginning(Known, Flow')
    BY <2>1, <2>2, <2>7, SettledGrows
  <2>8. ASSUME World' = World PROVE New = {} /\ Flow \cup New = Flow
    BY <2>8 DEF World, New
  <2>9. CASE Emits
    <3>1. First /\ Flow' = Flow \cup New /\ UNCHANGED <<page, load, recovery>>
      BY <2>5, <2>9 DEF Emits, SameNet, First
    <3>2. Known' = Known
      BY <3>1 DEF Known
    <3> QED BY <2>7, <3>1, <3>2
  <2>10. CASE Decides
    <3>1. /\ First /\ Flow' = Flow /\ New = {} /\ UNCHANGED <<load, recovery>>
          /\ \E p : page' = [page EXCEPT !.dialogs = {d \in @ : d.about # p}]
      BY <2>5, <2>10 DEF Decides, SameNet, First, New
    <3>2. page \in Pages
      BY DEF PageCorrect, PageOK, Agrees
    <3>3. page'.seen = page.seen /\ page'.dialogs \subseteq page.dialogs
      BY <3>1, <3>2 DEF Pages
    <3>4. Known' = Known
      BY <3>1, <3>3 DEF Known
    <3>5. Flow' = Flow \cup New
      BY <3>1
    <3> QED BY <2>7, <3>1, <3>3, <3>4, <3>5 DEF Settling
  <2>11. CASE Loses \/ Holds
    <3>1. /\ First /\ Flow' = Flow /\ World' = World /\ page' = page
          /\ load'.at = load.at /\ load'.answer = load.answer
          /\ (recovery'.running <=> recovery.running) /\ recovery'.answer = recovery.answer
      BY <2>5, <2>11 DEF Loses, Holds, SameNet, First
    <3>2. Known' = Known
      BY <3>1 DEF Known
    <3>3. Flow' = Flow \cup New
      BY <2>8, <3>1
    <3> QED BY <2>7, <3>1, <3>2, <3>3
  <2>12. CASE Opens
    <3>1. /\ First /\ Flow' = Flow /\ World' = World /\ load'.at = "answered" /\ load'.answer = Snapshot
      BY <2>5, <2>12 DEF Opens, SameNet, First
    <3>2. Settling(Underway', Underway', {}, World')
      BY <2>7, <2>8, <3>1
    <3>3. \A d \in Range(Snapshot.events) : d.kind = "requested" => World.asks[d.about] # "over"
      BY SnapshotTells DEF Matters, Waits
    <3>4. Settling(Range(Snapshot.events), Underway', Snapshot.covered, World')
      BY <3>1, <3>3 DEF Settling, Over
    <3>5. Beginning(Snapshot.covered, Flow)
      <4>1. AnswerOK(Snapshot, Flow, World) /\ \A e \in Flow : Genuine(e, World)
        BY AnswerIsRight DEF FlowOK
      <4> QED BY <4>1, CoversBeginning DEF Beginning
    <3>6. Known' = Snapshot.covered
      BY <3>1 DEF Known
    <3> QED BY <3>1, <3>2, <3>4, <3>5, <3>6
  <2>13. CASE Hears
    <3>1. First /\ World' = World /\ load'.at = "done"
      BY <2>5, <2>13 DEF Hears, SameNet, First
    <3>2. Known' = page'.seen
      BY <2>5, <3>1 DEF Known
    <3> QED BY <2>2, <2>13, <3>1, <3>2, SettledHears
  <2>14. CASE Loads
    <3>1. First /\ World' = World /\ load'.at = "done"
      BY <2>5, <2>14 DEF Loads, SameNet, First
    <3>2. Known' = page'.seen
      BY <2>5, <3>1 DEF Known
    <3> QED BY <2>2, <2>14, <3>1, <3>2, SettledLoads
  <2>15. CASE Asks \/ Recovers
    BY <2>6, <2>15 DEF Asks, Recovers, SameNet
  <2>16. CASE Connects \/ Fails
    BY <2>5, <2>16 DEF Connects, Fails
  <2> QED BY <2>1, <2>9, <2>10, <2>11, <2>12, <2>13, <2>14, <2>15, <2>16 DEF Steps
<1> QED BY <1>1, <1>2, ServerCorrect, TurnsAreTold, WorldCorrect, NetCorrect, FlowCorrect, PageIsRight, PTL DEF Spec

\* Once a connected page that took no turn from the history alone is quiet, it
\* shows the whole turn, knows whether it runs, and offers who waits and nothing
\* that is over, whatever connections broke before and for any number of them:
\* QuietIsUpToDate.
THEOREM QuietPageIsUpToDate == Spec => []QuietIsUpToDate
<1>1. ServerOK /\ TurnOK /\ NetOK /\ FlowOK /\ (timely => PageCorrect) /\ WorldOK(World)
      /\ (timely => NothingLost) /\ (timely => UpToDate) /\ (timely => SettledOK) => QuietIsUpToDate
  <2> SUFFICES ASSUME ServerOK, TurnOK, NetOK, FlowOK, PageCorrect, WorldOK(World),
                      NothingLost, UpToDate, SettledOK, Quiet
               PROVE  /\ {e \in Range(page.story) : e.turn = turn.number} = {e \in Range(emitted) : IsStory(e)}
                      /\ emitted # <<>> => page.busy = (turn.phase = "running")
                      /\ {p \in Permissions : asks[p] = "pending"} \subseteq {d.about : d \in page.dialogs}
                      /\ ~ page.busy => page.dialogs = {}
                      /\ opened = 1 => \A d \in page.dialogs : asks[d.about] # "over"
    BY DEF QuietIsUpToDate, Quiet
  <2>1. /\ Connected /\ whole /\ load.at = "done" /\ ~ recovery.running /\ made = <<>> /\ sending = Idle
        /\ wire[socket] = <<>> /\ TurnsSorted(page.story)
    BY DEF Quiet, Connected, TurnsSorted
  <2>2. Flow = {} /\ Underway = {}
    <3>1. Waiting = <<>> /\ Coming = <<>> /\ Unsent = {}
      BY <2>1, Sequences DEF Coming, Unsent, Idle
    <3> QED BY <2>1, <3>1 DEF Flow, Underway, Range
  <2>3. /\ World.cur = turn.number /\ World.told = Range(emitted) /\ World.asks = asks
        /\ Made = Range(emitted)
    BY <2>1 DEF World, Made, Range
  <2>4. \A x \in Range(emitted) : /\ Matters(x, World) => x.id \in page.seen
                                  /\ x.turn = turn.number
    <3>1. ~ Asking /\ Known = page.seen
      BY <2>1 DEF Asking, Known
    <3> QED BY <2>1, <2>2, <2>3, <3>1 DEF NothingLost, NothingMissed, Got, TurnOK
  <2>5. /\ Agrees(page) /\ KnowsBusy(page, World.cur) /\ Offers(page, {}, World)
        /\ \A x \in Range(page.story) \cup page.dialogs : Genuine(x, World)
        /\ \A x \in World.told : IsStory(x) /\ x.id \in page.seen => x \in Range(page.story)
        /\ \A x \in World.told :
             x.kind = "requested" /\ World.asks[x.about] = "pending" /\ x.id \in page.seen => x \in page.dialogs
    BY <2>1, <2>2 DEF PageCorrect, PageOK, UpToDate
  <2>6. \A x \in Range(emitted) : IsStory(x) => x \in Range(page.story)
    BY <2>3, <2>4, <2>5 DEF Matters, IsStory
  <2>7. \A x \in Range(page.story) : x.turn = turn.number => x \in Range(emitted) /\ IsStory(x)
    BY <2>3, <2>5 DEF Genuine, Agrees
  <2>8. {e \in Range(page.story) : e.turn = turn.number} = {e \in Range(emitted) : IsStory(e)}
    BY <2>4, <2>6, <2>7
  <2>9. Range(emitted) # {} => (turn.phase = "running" <=> ~ Ended(Range(emitted)))
    <3>1. Range(emitted) # {} => turn.made > 0
      BY <2>3, NumbersOfMade DEF ServerOK, ServerType
    <3>2. turn.number \in Nat /\ turn.made \in Nat
      BY DEF ServerOK, ServerType
    <3> QED BY <2>3, <3>1, <3>2 DEF TurnOK, Ended
  <2>10. Range(emitted) # {} => (page.busy <=> turn.phase = "running")
    <3> SUFFICES ASSUME Range(emitted) # {} PROVE page.busy <=> turn.phase = "running"
      OBVIOUS
    <3>1. Tells(Range(page.story), turn.number)
      <4>1. PICK x \in Range(emitted) : x.kind = "text"
        BY <2>3 DEF WorldOK
      <4> QED BY <2>4, <2>6, <4>1 DEF Tells, IsStory
    <3>2. page.busy <=> turn.number \notin page.over
      BY <2>1, <2>3, <2>5, <3>1 DEF KnowsBusy
    <3>3. turn.number \in page.over <=> Ended(Range(emitted))
      <4>1. ASSUME turn.number \in page.over PROVE Ended(Range(emitted))
        <5>1. PICK x \in Range(page.story) : x.kind = "completed" /\ x.turn = turn.number
          BY <2>5, <4>1 DEF Agrees
        <5> QED BY <2>7, <5>1 DEF Ended, OfKind
      <4>2. ASSUME Ended(Range(emitted)) PROVE turn.number \in page.over
        <5>1. PICK c \in Range(emitted) : c.kind = "completed"
          BY <4>2 DEF Ended, OfKind
        <5> QED BY <2>4, <2>5, <2>6, <5>1 DEF Agrees, IsStory
      <4> QED BY <4>1, <4>2
    <3> QED BY <2>9, <3>2, <3>3
  <2>11. emitted # <<>> => page.busy = (turn.phase = "running")
    <3>1. page.busy \in BOOLEAN
      BY <2>5 DEF Agrees, Pages
    <3>2. ASSUME emitted # <<>> PROVE Range(emitted) # {}
      <4>1. emitted \in Seq(Event)
        BY DEF ServerOK, ServerType
      <4> QED BY <3>2, <4>1, FirstAndRest
    <3> QED BY <2>10, <3>1, <3>2
  <2>12. {p \in Permissions : asks[p] = "pending"} \subseteq {d.about : d \in page.dialogs}
    <3> SUFFICES ASSUME NEW p \in Permissions, asks[p] = "pending" PROVE \E d \in page.dialogs : d.about = p
      OBVIOUS
    <3>1. PICK e \in Range(emitted) : e.kind = "requested" /\ e.about = p
      BY <2>3 DEF TurnOK, OfKind
    <3>2. Matters(e, World)
      BY <2>3, <3>1 DEF Matters, Waits
    <3> QED BY <2>3, <2>4, <2>5, <3>1, <3>2
  <2>13. ~ page.busy => page.dialogs = {}
    <3> SUFFICES ASSUME NEW d \in page.dialogs PROVE page.busy
      OBVIOUS
    <3>1. Runs(World, d.turn)
      BY <2>5 DEF Offers, EndsIn
    <3>2. d \in Range(emitted) /\ ~ Ended(Range(emitted))
      BY <2>3, <2>5, <3>1 DEF Runs, Genuine
    <3> QED BY <2>9, <2>10, <3>2
  <2>14. opened = 1 => \A d \in page.dialogs : asks[d.about] # "over"
    <3>1. opened = 1 => Settling(page.dialogs, {}, page.seen, World)
      BY <2>1, <2>2 DEF SettledOK, First
    <3> QED BY <2>3, <2>5, <3>1 DEF Settling, Over, Agrees
  <2> QED BY <2>8, <2>11, <2>12, <2>13, <2>14
<1> QED BY <1>1, ServerCorrect, TurnsAreTold, WorldCorrect, NetCorrect, FlowCorrect, PageIsRight,
           NothingIsLost, PageIsUpToDate, QuestionsSettle, PTL
=============================================================================
