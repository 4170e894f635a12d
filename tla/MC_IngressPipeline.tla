------------------------- MODULE MC_IngressPipeline -------------------------
(* Small instances of IngressPipeline: the machines a and b, the lots L1   *)
(* and L2, and the events each run offers.                                 *)
EXTENDS IngressPipeline, TLC

CONSTANTS a, b, L1, L2, w1, w2

WorkerSymmetry == Permutations(Workers)

Ev(e, k, l, c) == [ep |-> e, kind |-> k, lot |-> l, closes |-> c]

(* One machine, every path through the lot writer.                         *)
LotOffers == {Ev(a, "csv", NoLot, FALSE), Ev(a, "csv", L1, FALSE),
              Ev(a, "csv", L1, TRUE), Ev(a, "csv", L2, FALSE),
              Ev(a, "none", NoLot, FALSE)}
(* One machine, every path through the publishers.                         *)
PublishOffers == {Ev(a, "csv", L1, FALSE), Ev(a, "alarm", NoLot, FALSE),
                  Ev(a, "poison", NoLot, FALSE)}
(* Two machines.                                                           *)
PlainPair  == {Ev(a, "plain", NoLot, FALSE), Ev(b, "plain", NoLot, FALSE)}
(* One machine, a lot that opens, goes on and closes.                      *)
OpenClose == {Ev(a, "csv", NoLot, FALSE), Ev(a, "csv", L1, TRUE)}
=============================================================================
