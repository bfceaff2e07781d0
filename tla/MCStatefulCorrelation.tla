------------------------ MODULE MCStatefulCorrelation ------------------------
(* Instances of StatefulCorrelation. *)
EXTENDS StatefulCorrelation, TLC

CONSTANTS j1, j2

B(id, key, events, context, first, last) ==
    [id |-> id, key |-> key, events |-> events, context |-> context,
     first |-> first, last |-> last]

\* k1 and k3 are one campaign hashed under two correlation versions.
MCKeyVersion == [k \in Keys |-> IF k = "k3" THEN 2 ELSE 1]

MCScoped == [p \in Ids \X {1, 2} |-> "i9"]

In(b1, b2) == (j1 :> b1) @@ (j2 :> b2)

MCInputs == {
    \* two first writers of a campaign, and a later burst of it
    In(<<B("i1", "k1", {1}, {3}, 0, 0)>>,
       <<B("i2", "k1", {2}, {1}, 1, 1), B("i3", "k1", {5}, {2}, 3, 3)>>),
    \* two campaigns in opposite orders, and evidence without a profile
    In(<<B("i1", "k1", {1}, {}, 0, 0), B("i4", "k2", {4}, {}, 0, 0)>>,
       <<B("i5", "k2", {5}, {}, 0, 0), B("i2", "k1", {2}, {}, 0, 0),
         B("i6", NoKey, {6}, {3}, 0, 0)>>),
    \* an old arrival, and the first evidence again after a version change
    In(<<B("i1", "k1", {1}, {}, 3, 3), B("i1", "k1", {1}, {}, 3, 3)>>,
       <<B("i2", "k1", {2}, {}, 0, 0), B("i1", "k3", {1, 3}, {}, 3, 3)>>),
    \* the same evidence, with and without a profile
    In(<<B("i1", "k1", {1}, {3, 4}, 0, 1)>>,
       <<B("i1", NoKey, {1}, {2}, 0, 0)>>),
    \* a campaign of three batches, the first and last of one job
    In(<<B("i1", "k1", {1}, {2, 3}, 1, 1), B("i3", "k1", {3}, {5}, 2, 2)>>,
       <<B("i2", "k1", {2}, {4}, 0, 0)>>)}
=============================================================================
