---------------------------- MODULE MCRateLimit ----------------------------
(* RateLimit for TLC: two requests a window on the sign-in routes, one on    *)
(* the others; windows of two seconds, clock units of half a second.         *)
EXTENDS RateLimit, TLC

MCLimit == [c \in Classes |-> IF c = "auth" THEN 2 ELSE 1]

MCRoutes == {"POST login", "GET repositories", "health"}
=============================================================================
