----------------------------- MODULE MCRetention -----------------------------
(* Instances of Retention for TLC.                                          *)
EXTENDS Retention

CONSTANTS alpha, beta, gamma, bad, listing, rating, page

Company(id, items) == [id |-> id, items |-> items]

\* A batch whose candidates survive the loss of a licensed item, or not, and
\* one with a candidate that the CRM refuses.
TwoBatches == << <<Company(alpha, {listing, page}), Company(beta, {rating})>>,
                 <<Company(bad, {listing, page}), Company(gamma, {rating, page})>> >>

AnyItem == SUBSET {listing, rating, page} \ {{}}
=============================================================================
