----------------------------- MODULE MCTLSDesync -----------------------------
(* Plans with points before, in and behind the message, equal points and noise. *)
EXTENDS TLSDesync

Plan(from, at, noise, lazy) == [from |-> from, at |-> at, noise |-> noise, lazy |-> lazy]

MCFake == [len |-> 4, sni |-> <<2, 3>>]

MCPlans == {<<>>,
            <<Plan("head", 1, 0, TRUE), Plan("sni", 0, 1, FALSE)>>,
            <<Plan("sni", -2, 0, FALSE), Plan("sni", 1, 0, TRUE), Plan("head", 3, 1, FALSE)>>}
==============================================================================
