---------------------------- MODULE MCTaskFlow -----------------------------
EXTENDS TaskFlow

\* One review.
OneReview == [r1 |-> "REVIEW"]
=============================================================================
