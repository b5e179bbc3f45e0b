--------------------------- MODULE MCRtdRefresh ---------------------------
(* Instances of RtdRefresh: two topics in shards of their own, or in one.   *)
EXTENDS RtdRefresh, TLC

CONSTANTS t1, t2, p1, p2, s1, s2, val1, val2

OwnShards == t1 :> s1 @@ t2 :> s2
OneTopic == t1 :> s1
OneEach == p1 :> t1 @@ p2 :> t2
BothOne == p1 :> t1 @@ p2 :> t1
OneAlone == p1 :> t1
Alike == Permutations({p1, p2}) \cup Permutations({val1, val2})
=============================================================================
