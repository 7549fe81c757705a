-------------------------------- MODULE MCLSVM --------------------------------
EXTENDS LSVM

CONSTANTS s1, s2, s3, r1, r2, t1, t2

MCSessions == {s1, s2}
ThreeSessions == {s1, s2, s3}
MCResources == {r1, r2}
MCThreads == {t1, t2}
OneThread == {t1}

Lock(r) == [op |-> "LOCK", res |-> r]
UnlockOf(r) == [op |-> "UNLOCK", res |-> r]

(* Programs that unlock what they locked, in one lock order, and one that  *)
(* leaves its lock to cleanup().                                           *)
WellFormedScripts ==
    { <<Lock(r1), UnlockOf(r1)>>,
      <<Lock(r1)>>,
      <<Lock(r1), Lock(r2), UnlockOf(r2), UnlockOf(r1)>> }

(* A program that unlocks a resource it never locked before locking it.   *)
StrayUnlockScripts ==
    { <<Lock(r1), UnlockOf(r1)>>,
      <<UnlockOf(r1), Lock(r1)>> }
=============================================================================
