------------------------------ MODULE MCStreams ------------------------------
(* Instances of Streams for TLC.                                           *)
EXTENDS Streams

\* The output grows, or is said again.
GrowingReports == {<<1, 0>>, <<1, 2>>}
=============================================================================
