----------------------------- MODULE MCDelivery -----------------------------
(* Small instances of Delivery for TLC.                                       *)
EXTENDS Delivery, TLC

CONSTANTS a1, a2, s1, s2, s3, s4

\* Two writes of one minute, a write of another and a deletion.
MCEventOf == s1 :> 2 @@ s2 :> 2 @@ s3 :> 2 @@ s4 :> 1 @@ a1 :> 0 @@ a2 :> 0
\* The job of everything else may be fired while it runs.
MCRuns == {<<"activity", 1>>, <<"activity", 2>>, <<"sftp", 1>>}

MCKeyOf == s1 :> 1 @@ s2 :> 1 @@ s3 :> 2 @@ s4 :> 3 @@ a1 :> 0 @@ a2 :> 0
=============================================================================
