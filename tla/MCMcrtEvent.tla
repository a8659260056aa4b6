----------------------------- MODULE MCMcrtEvent -----------------------------
(* Event 1 resets itself, event 2 is reset by hand.                        *)
EXTENDS McrtEvent

Wait(events, all, timed) == [events |-> events, all |-> all, timed |-> timed]

MCWaits ==
    {Wait({1}, FALSE, FALSE), Wait({1}, FALSE, TRUE), Wait({1, 2}, FALSE, FALSE),
     Wait({1, 2}, TRUE, FALSE), Wait({1, 2}, TRUE, TRUE)}
=============================================================================
