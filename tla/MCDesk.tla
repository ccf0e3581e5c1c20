------------------------------- MODULE MCDesk -------------------------------
(* The office's three desks, for TLC.                                       *)
EXTENDS Desk, TLC

CONSTANTS u1, u2, r1, r2

Ask(kind, to) == [kind |-> kind, to |-> to]
OneOfEach ==
  {<<Ask("role", "editor")>>, <<Ask("status", "disabled")>>, <<Ask("status", "active")>>,
   <<Ask("permissions", "less")>>, <<Ask("delete", "gone")>>,
   <<Ask("role", "admin"), Ask("status", "disabled")>>}
Alike == Permutations({u1, u2}) \cup Permutations({r1, r2})
=============================================================================
