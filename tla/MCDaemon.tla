-------------------------------- MODULE MCDaemon --------------------------------
(***************************************************************************)
(* Instances of Daemon for TLC: a daemon with two threads and a command    *)
(* with one; the personal space and two managed ones, of which two domains *)
(* fit; two restores into the same profile and a job that needs the store. *)
(***************************************************************************)
EXTENDS Daemon, TLC

CONSTANTS d, c, t1, t2, t3, home, s1, s2, i1, i2, i3, r1, r2, k, p1

Owner    == t1 :> d @@ t2 :> d @@ t3 :> c
Counts   == home :> 1 @@ s1 :> 1 @@ s2 :> 2
Into     == r1 :> p1 @@ r2 :> p1
Ids      == Permutations({i1, i2, i3})

Mix(c1, c2, c3, js, f) == [calls |-> t1 :> c1 @@ t2 :> c2 @@ t3 :> c3, jobs |-> js, faults |-> f]
\* Who starts at once; who leases, creates and maintains beside each other; two
\* restores; a job that waits for the store.
FourMixes == {
  Mix({"bind"}, {"create"}, {"bind"}, {}, 2),
  Mix({"acquire"}, {"create", "acquire", "maintain"}, {"bind", "maintain"}, {}, 1),
  Mix({}, {}, {}, {r1, r2}, 1),
  Mix({"bind", "acquire", "serve"}, {}, {}, {k}, 1)}
=============================================================================
