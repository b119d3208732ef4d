------------------------------- MODULE MCJobs -------------------------------
(***************************************************************************)
(* Jobs for TLC.  A configuration picks the requests that happen:            *)
(*   MCJobs          a prepared job pushed twice, and a hook that fires twice *)
(*                   for one visit, the second time with resubmit (safety);  *)
(*   MCJobsLive      a prepared job pushed and ingested beside a submit;     *)
(*   MCJobsSubmit    a hook that fires twice.                                *)
(***************************************************************************)
EXTENDS Jobs, TLC

CONSTANTS fl1, fl2, j1, j2, j3, v1, p1, u1, u2, n1, s1, s2

MCKindOf == p1 :> "prepare" @@ u1 :> "push" @@ u2 :> "push" @@
            n1 :> "ingest" @@ s1 :> "submit" @@ s2 :> "submit"

MCJobOf == p1 :> j1 @@ u1 :> j1 @@ u2 :> j1 @@ n1 :> j1 @@ s1 :> j2 @@ s2 :> j3

MCVisitOf == s1 :> v1 @@ s2 :> v1

MCSymmetry == Permutations({fl1, fl2})
=============================================================================
