--------------------------- MODULE MC_KernelRecord ---------------------------
EXTENDS KernelRecord

MCOneDay == 86400

(* Network parameters are not in the sources: one day minimum, three days *)
(* maximum, so that both clamps are crossed within the horizon.           *)
MCMinAge == 1 * MCOneDay
MCMaxAge == 3 * MCOneDay

(* Values in whole coins: value * COIN * w / (COIN * nOneDay) = value * w /  *)
(* nOneDay, so COIN = 1 gives the same coin ages.                         *)
MCCOIN == 1

Out(m, v, s) == [mine |-> m, value |-> v, spent |-> s]

MCTxs ==
    { [hash |-> 1, coinbase |-> FALSE, depth |-> 3, trusted |-> TRUE, time |-> 0,
       vout |-> <<Out(TRUE, 3, FALSE), Out(FALSE, 1, FALSE), Out(TRUE, 1, TRUE)>>],
      [hash |-> 2, coinbase |-> TRUE, depth |-> 1, trusted |-> TRUE, time |-> 0,
       vout |-> <<Out(TRUE, 2, FALSE)>>],
      [hash |-> 3, coinbase |-> FALSE, depth |-> 0, trusted |-> FALSE, time |-> 0,
       vout |-> <<Out(TRUE, 2, FALSE)>>] }

MCStarts == {0, MCOneDay \div 2}
MCSteps == {MCOneDay \div 2, 2 * MCOneDay}
MCHorizon == 5 * MCOneDay
MCDifficulties == {1, 2}
MCMinutes == {0, 720, 1440, 2160}
=============================================================================
