---------------------------- MODULE MCSendMessage ----------------------------
(* Small instances of SendMessage: two sends, in one session or in two.  The  *)
(* sessions may be exchanged: s1 is in the first one.                         *)
EXTENDS SendMessage

CONSTANTS s1, s2, sesA, sesB

MCSends == {s1, s2}
MCSessions == {sesA, sesB}

MCInit == Init /\ session[s1] = sesA
MCFairSpec == MCInit /\ [][Next]_vars /\ \A s \in Sends : WF_vars(HandlerStep(s))
=============================================================================
