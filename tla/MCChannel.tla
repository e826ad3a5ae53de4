------------------------------ MODULE MCChannel ------------------------------
(***************************************************************************)
(* The channel for TLC: up to three tokens, and what each does in the      *)
(* setups that a run explores together.                                    *)
(***************************************************************************)
EXTENDS Channel, TLC

CONSTANTS ta, tb, tc

Setup(does) == [does |-> does, inline |-> FALSE, pulls |-> 3]

\* Blocks are recycled while a token comes, posts, pulls, closes and goes.
ReclaimSetups ==
    { Setup(ta :> {"post", "pull"} @@ tb :> {"post", "close", "leave"}),
      Setup(ta :> {"pull"} @@ tb :> {"post_bulk"}),
      [Setup(ta :> {"post", "try_pull"} @@ tb :> {"try_pull", "leave"}) EXCEPT !.pulls = 4] }

\* close() meets consumers that pull or poll, and the channel is destroyed.
CloseSetups ==
    { Setup(ta :> {"post", "close", "leave"} @@ tb :> {"pull", "leave"} @@ tc :> {"pull", "leave"}),
      Setup(ta :> {"post", "close", "leave"} @@ tb :> {"pull", "leave"} @@ tc :> {"try_pull", "leave"}) }

\* Inline, the one that closes is not a consumer.
LiveSetups ==
    { Setup(ta :> {"post", "pull"} @@ tb :> {"pull", "close", "leave"}),
      [Setup(ta :> {"post", "close"} @@ tb :> {"pull", "leave"}) EXCEPT !.inline = TRUE] }

\* Two that may close, one of which is a consumer that resumes inside close().
SelfCloseSetups ==
    { [Setup(ta :> {"close"} @@ tb :> {"pull", "close"}) EXCEPT !.inline = TRUE, !.pulls = 1] }
================================================================================
