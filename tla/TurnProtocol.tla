---------------------------- MODULE TurnProtocol ----------------------------
(***************************************************************************)
(* What ClaudeChatClient promises the callers of send: turns run one after *)
(* another; the handler of a turn hears its prompt first, a decision only  *)
(* after the request it decides, and at most one terminal event, which is  *)
(* the last event and comes after on_complete; send returns the result of  *)
(* the turn it was called for, and only of a turn that ran.                *)
(*                                                                         *)
(* Sources: the docstrings of ClaudeChatClient, send and stream in         *)
(* backend/claude_chat_client/client.py.                                   *)
(***************************************************************************)
CONSTANTS Turns, Requests

VARIABLES
    stage,    \* "waiting", "running", "over" (stream left), "done" (returned)
    shown,    \* the events the handler was given
    returned  \* whose result send returns, "none" if it raises

vars == <<stage, shown, returned>>

Ev(kind)  == [kind |-> kind, req |-> "none"]
Ask(r)    == [kind |-> "requested", req |-> r]
Answer(r) == [kind |-> "resolved", req |-> r]

Init ==
    /\ stage = [t \in Turns |-> "waiting"]
    /\ shown = [t \in Turns |-> {}]
    /\ returned = [t \in Turns |-> "none"]

Move(t, from, to) ==
    /\ stage[t] = from
    /\ stage' = [stage EXCEPT ![t] = to]

Start(t) ==
    /\ \A other \in Turns : stage[other] # "running"
    /\ Move(t, "waiting", "running")
    /\ UNCHANGED <<shown, returned>>

\* The connection cannot be opened: the handler never hears of the turn.
Refuse(t) ==
    /\ Move(t, "waiting", "over")
    /\ UNCHANGED <<shown, returned>>

Show(t, event) ==
    /\ stage[t] = "running"
    /\ shown' = [shown EXCEPT ![t] = @ \cup {event}]
    /\ UNCHANGED <<stage, returned>>

ShowNext(t) ==
    \/ Show(t, Ev("started"))
    \/ Ev("started") \in shown[t] /\ Show(t, Ev("user"))
    \/ Ev("user") \in shown[t] /\ Show(t, Ev("proxy"))
    \/ \E r \in Requests :
         \/ Ev("user") \in shown[t] /\ Show(t, Ask(r))
         \/ Ask(r) \in shown[t] /\ Show(t, Answer(r))

Leave(t) ==
    /\ Move(t, "running", "over")
    /\ returned' \in {returned, [returned EXCEPT ![t] = t]}
    /\ UNCHANGED shown

\* A turn whose result is returned ends with turn.completed; one that raises
\* ends with turn.failed, or without a terminal event if its caller left.
Finish(t) ==
    /\ Move(t, "over", "done")
    /\ \/ /\ returned[t] = t
          /\ shown' = [shown EXCEPT ![t] = @ \cup {Ev("completed")}]
       \/ /\ returned[t] = "none"
          /\ \/ UNCHANGED shown
             \/ /\ Ev("user") \in shown[t]
                /\ \E kind \in {"completed", "failed"} :
                     shown' = [shown EXCEPT ![t] = @ \cup {Ev(kind)}]
    /\ UNCHANGED returned

Next ==
    \E t \in Turns : Start(t) \/ Refuse(t) \/ ShowNext(t) \/ Leave(t) \/ Finish(t)

Spec == Init /\ [][Next]_vars

=============================================================================
