---------------------------- MODULE MCWolfHooks ----------------------------
(* An instance of WolfHooks: the start of a session, a write, a stop, and a *)
(* hook that may be any but a session-start.                                *)
EXTENDS WolfHooks

CONSTANTS s1, w1, e1, x1, f1, f2

EventsOf == [h \in Hooks |-> CASE h = s1 -> {"session-start"}
                              [] h = w1 -> {"post-write"}
                              [] h = e1 -> {"stop"}
                              [] h = x1 -> Kinds \ {"session-start"}]

SubjectOf == [h \in Hooks |-> IF h = x1 THEN f2 ELSE f1]
=============================================================================
