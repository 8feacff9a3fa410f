--------------------------- MODULE MCAttemptRun ----------------------------
(***************************************************************************)
(* Model checking of AttemptRun.  The scenes: a new branch in both comment *)
(* modes; a continuation of a published branch on a moved base, with and   *)
(* without a conflict; a branch an earlier attempt left in the clone; and  *)
(* conflict attempts whose rebase conflicts, whose rebase is clean (a      *)
(* semantic conflict), and whose base did not move.  In some of them it is *)
(* the attempt's own work that a base moving later clashes with.           *)
(***************************************************************************)
EXTENDS AttemptRun

Old == Branch({"old"}, 0)

Scene(k, m, b, r, l, c) ==
    [kind |-> k, mode |-> m, base |-> b, remote |-> r, local |-> l, clashes |-> c]

MCScenes ==
    { Scene("ordinary", "verbose", 0, Absent, Absent, {}),
      Scene("ordinary", "link", 0, Absent, Absent, {"work"}),
      Scene("ordinary", "link", 1, Old, Absent, {"old"}),
      Scene("ordinary", "verbose", 1, Old, Old, {}),
      Scene("ordinary", "link", 1, Absent, Old, {"old"}),
      Scene("conflict", "link", 1, Old, Absent, {"old"}),
      Scene("conflict", "link", 1, Old, Absent, {}),
      Scene("conflict", "link", 0, Old, Old, {}) }

=============================================================================
