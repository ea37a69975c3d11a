-------------------------- MODULE MCEmailDelivery --------------------------
(***************************************************************************)
(* EmailDelivery for TLC: an announcement to one address is sent by        *)
(* requests that overlap in every way, one to several addresses by one     *)
(* request at a time.                                                      *)
(***************************************************************************)
EXTENDS EmailDelivery, TLC
CONSTANT d1

OneAddress == \A d \in Destinations \ {d1} : row[d].status = "NONE"

MCSpec == Init /\ [][Next /\ (overlapped' => OneAddress')]_vars /\ Fairness
=============================================================================
