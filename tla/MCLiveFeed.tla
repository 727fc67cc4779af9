----------------------------- MODULE MCLiveFeed -----------------------------
(* Two connections, one of which may stop reading, one request for         *)
(* /metrics or two at once, and a query that fits one bucket of two.       *)
EXTENDS LiveFeed

CONSTANTS c1, c2, s1, s2

TwoBuckets == <<1, 5>>
OneQuery == << [status |-> "success", duration |-> 3] >>
=============================================================================
