-------------------------- MODULE MCCanonicalSink --------------------------
(* Instances of CanonicalSink for TLC. *)
EXTENDS CanonicalSink, TLC

CONSTANTS c1, c2, cat, k1, k2, k3, price, cost, v1, v2

Row(k, s, t, contrib) == [key |-> k, sku |-> s, ts |-> t, contrib |-> contrib]

\* c1 fills one batch and a half.  c2 repeats a row of c1 in the opposite order, corrects
\* another, and ends with a SKU that has no hot row.  The catalogue chunk updates
\* one SKU and creates one that no event chunk names.
OverlappingRows ==
    c1  :> << Row(k1, 1, 1, price :> v1), Row(k2, 2, 2, cost :> v1),
              Row(k3, 2, 1, price :> v1) >>
 @@ c2  :> << Row(k2, 2, 2, cost :> v1), Row(k1, 1, 1, price :> v2),
              Row(k3, 3, 1, price :> v1) >>
 @@ cat :> << Row(k1, 2, 1, price :> v2), Row(k2, 4, 1, price :> v2) >>

\* An event chunk and the catalogue chunk that onboards its SKU.
OnboardingRows ==
    c1  :> << Row(k1, 1, 2, price :> v1) >>
 @@ cat :> << Row(k2, 1, 1, price :> v2) >>

\* Three rows of one SKU, not in the order of their times.
UnsortedRows ==
    c1  :> << Row(k1, 1, 3, cost :> v1), Row(k2, 1, 1, price :> v1),
              Row(k3, 1, 2, price :> v2) >>

\* A sale line and its correction: the same key, SKU and event time.
CorrectedRows ==
    c1  :> << Row(k1, 1, 1, price :> v1) >>
 @@ c2  :> << Row(k1, 1, 1, price :> v2) >>

WriterSymmetry == Permutations(Writers)
=============================================================================
