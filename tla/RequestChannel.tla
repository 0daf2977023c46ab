--------------------------- MODULE RequestChannel ---------------------------
(***************************************************************************)
(* What a display relies on when it makes requests of a remote: the remote *)
(* gets them whole and in the order they were made.  A connection that     *)
(* breaks takes no more of them, and those under way may not arrive.       *)
(***************************************************************************)
EXTENDS Naturals, Sequences

CONSTANT Requests

VARIABLES
  sent,  \* the requests made
  got,   \* those the remote has
  open   \* whether the connection takes requests

vars == <<sent, got, open>>

Init == sent = <<>> /\ got = <<>> /\ open = TRUE

Request(r) ==
  /\ open
  /\ sent' = Append(sent, r)
  /\ UNCHANGED <<got, open>>

Deliver ==
  /\ Len(got) < Len(sent)
  /\ got' = Append(got, sent[Len(got) + 1])
  /\ UNCHANGED <<sent, open>>

Break == open /\ open' = FALSE /\ UNCHANGED <<sent, got>>

Next == (\E r \in Requests : Request(r)) \/ Deliver \/ Break

Spec == Init /\ [][Next]_vars
=============================================================================
