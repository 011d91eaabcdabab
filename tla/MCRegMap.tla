------------------------------ MODULE MCRegMap ------------------------------
(* Instances of RegMap: two threads, two outputs, addresses of two octets. *)
EXTENDS RegMap, TLC

MCSymmetry == Permutations(Threads)

MCDefaultIp == <<1, 1>>
MCIps == {<<2, 2>>}
MCOctetWrites == {<<2, 0>>}
MCNoOctetWrites == {}

=============================================================================
