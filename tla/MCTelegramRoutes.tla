--------------------------- MODULE MCTelegramRoutes ---------------------------
(* Instances of TelegramRoutes for TLC. *)
EXTENDS TelegramRoutes, TLC

CONSTANTS w1, w2

\* The continuations that can come up: something is left above `at`.
MCForwards(phases) ==
  {f \in [phase : phases, base : 0..MaxPosts, snap : 1..MaxPosts, at : 0..MaxPosts] :
     f.base <= f.at /\ f.at < f.snap}
MCContinuations ==
  {f \in MCForwards({"activation", "scan", "capture"}) : f.phase = "activation" => f.base = 0}
  \cup {[NoForward EXCEPT !.phase = "cycle", !.at = c] : c \in 0..MaxPosts}

MCRoots ==
  {Key("init", a, f, 0) : a \in 1..MaxActs, f \in MCContinuations \cup {NoForward}}
  \cup {Key("poll", n, NoForward, 0) : n \in 1..MaxPolls}
  \cup {Key("forward", a, f, 0) : a \in 1..MaxActs, f \in MCForwards({"scan", "capture"})}
MCOthers == {Key("dry", 0, NoForward, 0), Key("backfill", 0, NoForward, 0)}

Deferred(keys) == {[k EXCEPT !.seq = s] : k \in keys, s \in 0..MaxDefer}
MCJobs == Deferred(MCRoots)

\* With a window above MaxPosts no progress needs to be kept.
MCRootsShort ==
  {Key("init", a, f, 0) : a \in 1..MaxActs,
     f \in {NoForward} \cup {[NoForward EXCEPT !.phase = "cycle", !.at = c] : c \in 0..MaxPosts}}
  \cup {Key("poll", n, NoForward, 0) : n \in 1..MaxPolls}
MCJobsShort == Deferred(MCRootsShort)
MCJobsOthers == Deferred(MCRootsShort \cup MCOthers)
MCNoJob == Key("none", 0, NoForward, 0)
MCWorkers1 == {w1}
MCWorkers2 == {w1, w2}
MCSymmetry == Permutations(MCWorkers2)
=============================================================================
