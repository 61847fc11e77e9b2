----------------------------- MODULE MCAdmission -----------------------------
(* Rules of two priorities that block or do not.  Three addresses make the  *)
(* spawner of DialFastest wait for one of two slots.                        *)
EXTENDS Admission

MCRule == [priority : 0..1, block : BOOLEAN]

MCAddrs == [e \in Entries |-> CASE e = "connect" -> {1, 2}
                                [] e = "https"   -> {3}
                                [] OTHER         -> {1}]
==============================================================================
