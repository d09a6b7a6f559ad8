--------------------------- MODULE MCThreadPool ---------------------------
(***************************************************************************)
(* Programs for ThreadPool: Main submits two functions, does something     *)
(* about their futures, and shuts the pool down; other clients interfere.  *)
(***************************************************************************)
EXTENDS ThreadPool

CONSTANTS Main, Other, Third

MC(op, fs, when, timed) == [op |-> op, fs |-> fs, when |-> when, timed |-> timed]

Cancelling == MC("cancel", <<1>>, "", FALSE)
Calling    == MC("callback", <<1>>, "", FALSE)
Waiting ==
  {MC("result", <<1>>, "", timed) : timed \in BOOLEAN}
    \cup {MC("wait", <<1, 2>>, when, FALSE) :
            when \in {"ALL_COMPLETED", "FIRST_COMPLETED", "FIRST_EXCEPTION"}}
    \cup {MC("wait", <<1, 2>>, "FIRST_EXCEPTION", TRUE)}
    \cup {MC("as_completed", <<1, 2>>, "", timed) : timed \in BOOLEAN}

Others ==
  {Other :> y @@ Third :> <<>> :
     y \in {<<Cancelling>>, <<Calling, Calling>>, <<MC("shutdown", <<>>, "", TRUE)>>}}
    \cup {Other :> <<MC("wait", <<2, 1>>, "ALL_COMPLETED", FALSE)>> @@ Third :> <<Cancelling>>}

MCPrograms ==
  {Main :> <<MC("submit", <<1>>, "", FALSE), MC("submit", <<2>>, "", FALSE), x,
             MC("shutdown", <<>>, "", FALSE)>> @@ y :
     x \in {Cancelling, Calling} \cup Waiting, y \in Others}
=============================================================================
