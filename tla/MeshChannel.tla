---------------------------- MODULE MeshChannel ----------------------------
(***************************************************************************)
(* What the mesh promises the tasks that use it: the messages of one board *)
(* for another reach it in the order in which they were sent, each at most *)
(* once.  Any of them may be lost.  The messages for one listener are      *)
(* numbered 1, 2, 3 .. by the calls that send them.                        *)
(***************************************************************************)
EXTENDS Naturals, Sequences

CONSTANTS Listener

VARIABLES
  sent,    \* how many messages were sent to a listener
  taken    \* the messages handed over at a listener, in order

Init == sent = [r \in Listener |-> 0] /\ taken = [r \in Listener |-> <<>>]

Send(r) == sent' = [sent EXCEPT ![r] = @ + 1] /\ UNCHANGED taken

Take(r) ==
  /\ \E k \in 1 .. sent[r] : /\ \A i \in DOMAIN taken[r] : taken[r][i] < k
                            /\ taken' = [taken EXCEPT ![r] = Append(@, k)]
  /\ UNCHANGED sent

Next == \E r \in Listener : Send(r) \/ Take(r)

Spec == Init /\ [][Next]_<<sent, taken>>
=============================================================================
