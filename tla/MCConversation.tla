---------------------------- MODULE MCConversation --------------------------
(* Small conversations for TLC.  In the first the main agent is streamed: it    *)
(* thinks, replies after a blank piece and replies again; then come a command   *)
(* that prints something and one that answers nothing.  In the second it calls  *)
(* a subagent that calls another, and then replies once more.  In the third it  *)
(* writes a file that its subagent edits, in the fourth the subagent writes     *)
(* what was in the file at first.                                               *)
EXTENDS Reopened

CONSTANTS user, helper, deep, write, edit, file

Text(t)      == [kind |-> "text", text |-> t]
Thinking     == [kind |-> "thinking", text |-> <<"plan">>]
Call(t)      == [kind |-> "tool", tool |-> t, name |-> "Agent", text |-> <<"input">>]
Change(t, n, c) == [kind |-> "tool", tool |-> t, name |-> n, text |-> <<"input">>,
                    file |-> file, content |-> c]
Only(m) == user :> m @@ helper :> <<>> @@ deep :> <<>>

Streamed ==
    [streamed |-> {user}, lost |-> 1, repeats |-> 1, untold |-> 0, foreign |-> 0,
     commands |-> 2 :> "/cost" @@ 3 :> "/compact",
     turns |-> << Only(<< << Thinking, Text(<<"blank", "hello">>), Text(<<"blank">>) >>,
                         << Text(<<"so", "done">>) >> >>), Only(<<>>), Only(<<>>) >>]

Delegated ==
    [streamed |-> {}, lost |-> 0, repeats |-> 0, untold |-> 0, foreign |-> 0, commands |-> <<>>,
     turns |-> << user   :> << << Text(<<"ask">>), Call(helper) >>, << Text(<<"done">>) >> >>
                  @@ helper :> << << Text(<<"look">>), Call(deep) >>, << Text(<<"seen">>) >> >>
                  @@ deep   :> << << Text(<<"found">>) >> >>,
                  Only(<< << Text(<<"bye">>) >> >>) >>]

Edited(c) ==
    [streamed |-> {}, lost |-> 0, repeats |-> 0, untold |-> 1, foreign |-> 1, commands |-> <<>>,
     turns |-> << user   :> << << Call(helper), Change(write, "Write", 1) >>, << Text(<<"done">>) >> >>
                  @@ helper :> << << Change(edit, "Edit", c) >> >> @@ deep :> <<>> >>]

All == {Streamed, Delegated, Edited(2), Edited(0)}

=============================================================================
