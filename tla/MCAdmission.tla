----------------------------- MODULE MCAdmission -----------------------------
(* Admission with values for TLC: a visitor's IP and a session.  A token is *)
(* three fractions, so it takes an IP three seconds and a session one and a *)
(* half.  The window is long enough to fill the bucket of the session, and  *)
(* too short for that of the IP.                                            *)
EXTENDS Admission, TLC

MCIPs == {"ip"}
MCSessions == {"session"}
MCKeys == MCIPs \cup MCSessions
MCLimiterOf == [k \in MCKeys |-> IF k \in MCIPs THEN "mutation" ELSE "session"]
MCCap == [k \in MCKeys |-> IF k \in MCIPs THEN 6 ELSE 3]
MCRate == [k \in MCKeys |-> IF k \in MCIPs THEN 1 ELSE 2]
MCSymmetry == Permutations(Clients)
=============================================================================
