----------------------------- MODULE VoteLedger -----------------------------
(***************************************************************************)
(* What the four reaction endpoints of a question or an answer promise:    *)
(* every user holds one stance on the content; a request that is accepted  *)
(* moves the stance of the user who made it, and of nobody else, by the    *)
(* move of its endpoint, or is abandoned and moves nothing.  Deleting the  *)
(* content forgets every stance.                                           *)
(***************************************************************************)
CONSTANT Users

Moves == {"like", "undoLike", "dislike", "undoDislike"}

VARIABLES
    stance,        \* stance[u]: what user u says of the content
    turn           \* the request accepted and not yet in effect: none or one

\* The stances a move may be asked from, and the one it leads to.
From == [like |-> {"none", "dislike"}, undoLike |-> {"like"},
         dislike |-> {"none", "like"}, undoDislike |-> {"dislike"}]
To == [like |-> "like", undoLike |-> "none", dislike |-> "dislike", undoDislike |-> "none"]

Init ==
    /\ stance = [u \in Users |-> "none"]
    /\ turn = {}

Accept(u, move) ==
    /\ turn = {}
    /\ stance[u] \in From[move]
    /\ turn' = {[user |-> u, move |-> move]}
    /\ UNCHANGED stance

TakeEffect ==
    /\ \E t \in turn : stance' = [stance EXCEPT ![t.user] = To[t.move]]
    /\ turn' = {}

Abandon ==
    /\ turn # {}
    /\ turn' = {}
    /\ UNCHANGED stance

Forget ==
    /\ turn = {}
    /\ stance' = [u \in Users |-> "none"]
    /\ UNCHANGED turn

Next ==
    \/ \E u \in Users, move \in Moves : Accept(u, move)
    \/ TakeEffect
    \/ Abandon
    \/ Forget

Spec == Init /\ [][Next]_<<stance, turn>>
=============================================================================
