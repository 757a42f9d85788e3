------------------------------ MODULE MCService ------------------------------
(* Model-checking instance of Service.                                      *)
EXTENDS Service, TLC

Order(from, id) == [origin |-> from, preflight |-> FALSE, route |-> "order", id |-> id]
Preflight(from) == [Order(from, "missing") EXCEPT !.preflight = TRUE]
Unknown(from) == [Order(from, "missing") EXCEPT !.route = "unknown"]

CONSTANTS r1, r2

SomeTraffic ==
    {r1 :> Order("trusted", "valid") @@ r2 :> Order("foreign", "invalid"),
     r1 :> Preflight("trusted") @@ r2 :> Preflight("foreign"),
     r1 :> Preflight("none") @@ r2 :> Unknown("foreign")}
=============================================================================
