----------------------------- MODULE MCSessions -----------------------------
(***************************************************************************)
(* Sessions on small instances.  Ann signs up at home and signs in on her  *)
(* phone; at home, where Bob may sign in or somebody may sign out, a       *)
(* protected route is called.                                              *)
(***************************************************************************)
EXTENDS Sessions

Call(n, purposes, from, for) == [nr |-> n, purposes |-> purposes, from |-> from, for |-> for]

AtHome == Call(1, {"signup"}, "home", "ann")
OnPhone == Call(2, {"login"}, "phone", "ann")
Shared == Call(3, {"login", "logout"}, "home", "bob")
Visit == Call(4, {"api"}, "home", "ann")

Evening == {AtHome, OnPhone, Shared, Visit}
DoubleClick == {Call(n, {"login"}, "home", "ann") : n \in {5, 6}}

MCPurposes == [c \in Calls |-> c.purposes]
MCFrom == [c \in Calls |-> c.from]
MCFor == [c \in Calls |-> c.for]
=============================================================================
