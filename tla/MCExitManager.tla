--------------------------- MODULE MCExitManager ---------------------------
(* A small instance of ExitManager: three lots, one of which is the part,  *)
(* and a market that moves up to two steps from the entry price. The     *)
(* thresholds keep the order of those of backend/core/config.py.           *)
EXTENDS ExitManager, TLC

MCConfig ==
   [volume |-> 3, part |-> 1, buffer |-> 0, safety |-> 1, net |-> 1,
    target |-> 5, partMove |-> 1, partProfit |-> 3, stopProfit |-> 3,
    lockPeak |-> 6, tightProfit |-> 2, tightLockPeak |-> 4, givePeak |-> 4,
    giveRetrace |-> 2, plusPeak |-> 3, plusRetrace |-> 2, guardHold |-> 1,
    adverseMove |-> 1, adverseLoss |-> 3, extremeMove |-> 2,
    extremeLoss |-> 6, lossLimit |-> 4, holdLoss |-> 2, weakPeak |-> 1,
    weakHold |-> 0, fullHold |-> 1, waitLoss |-> 1, waitMin |-> 1,
    waitMax |-> 2, waitMaxConfirmed |-> 2, waitMaxWeak |-> 1,
    waitWeakPeak |-> 1, recovery |-> 2, skipPeak |-> 2,
    skipGiveback |-> 2, runnerPeak |-> 2, runnerGiveback |-> 3,
    runnerMove |-> 1, lateAge |-> 2]

=============================================================================
