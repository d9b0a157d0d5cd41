----------------------------- MODULE MC_AdminApi -----------------------------
(* Mixes of concurrent requests on two devices. *)
EXTENDS AdminApi, TLC

CONSTANTS k1, k2, c, m0, m1, plain, h0, h1

ThreeKeys == {k1, k2, c}
OneCluster == {c}
ThreeMetas == {m0, m1, plain}

\* A device with a plain credential is stored as m1, which has the reference.
StoredAs == [m \in ThreeMetas \union {NoDevice} |-> IF m = plain THEN m1 ELSE m]

TwoHooks == {h0, h1}
ThreeLevels == 70..72

\* k1 is there at the start, k2 and the cluster are not.
Start == [dev |-> (k1 :> m0 @@ k2 :> NoDevice @@ c :> NoDevice), th |-> 70, hook |-> h0]

Delete == [op |-> "del", key |-> k1]
Edit == [op |-> "put", key |-> k1, to |-> m1]
PutBack == [op |-> "put", key |-> k1, to |-> m0]
Enroll == [op |-> "add", key |-> k2, to |-> plain]
EnrollCluster == [op |-> "add", key |-> c, to |-> m0]
Notify == [op |-> "notify", to |-> h1]
Thresholds(v) == [op |-> "thr", to |-> v]

\* A backup in which k1 is edited, k2 is there and the thresholds differ; in the second,
\* k2 comes with a plain credential.
Import(of) ==
    [op |-> "import", to |-> [dev |-> (k1 :> m1 @@ k2 :> of @@ c :> NoDevice), th |-> 72,
                              hook |-> h0]]

\* Each request meets each other one that can touch what it touches; in the last mix
\* three writers can defeat the three attempts to restore the notification section.  In
\* the fifth two edits bring the file back to what the import wrote.
Mixes ==
    {<<Delete, Import(m1), Edit>>, <<Delete, Enroll, Thresholds(71)>>,
     <<Import(plain), EnrollCluster, Notify>>, <<Import(plain), Enroll>>,
     <<Import(m1), PutBack, Edit>>,
     <<Delete, Delete, Notify>>,
     <<Notify, Thresholds(71), Thresholds(72), Enroll>>}

=============================================================================
