------------------------ MODULE MCEventProjections -------------------------
(* Instances of EventProjections for TLC: one short log per question.      *)
EXTENDS EventProjections

CONSTANTS r1, r2

Ev(t, r, a) == [type |-> t, row |-> r, amt |-> a, ref |-> 0,
                ok |-> TRUE, garbled |-> FALSE]
Ref(t, r, a, d) == [Ev(t, r, a) EXCEPT !.ref = d]
Bad(t, r) == [Ev(t, r, 1) EXCEPT !.ok = FALSE]
Garbled(t, r) == [Bad(t, r) EXCEPT !.garbled = TRUE]

MCLogs == {
  <<Ev("tip", r1, 1), Ev("tip", r1, 2), Bad("tip", r1)>>,
  <<Ev("accrued", r1, 2), Ev("deployed", r1, 1)>>,
  <<Ev("accrued", r1, 1), Ev("deployed", r1, 2)>>,
  <<Ev("deployed", r1, 1), Ev("accrued", r1, 2)>>,
  <<Ev("feeReceived", r1, 1), Ev("allocated", r1, 1)>>,
  <<Ev("feeReceived", r1, 1), Bad("earlySlot", r2)>>,
  <<Ev("feeReceived", r1, 1), Garbled("allocated", r1)>>,
  <<Ev("granted", r1, 1), Ev("revoked", r1, 0), Bad("granted", r1)>>,
  <<Ev("lpAdded", r1, 1), Ev("lpRemoved", r1, 0), Ev("lpAdded", r1, 2)>>,
  <<Ev("lpClaimed", r1, 1), Ev("lpAdded", r1, 1)>>,
  <<Ev("depth", r1, 1), Ev("depth", r1, 2), Bad("depth", r2)>>,
  <<Ev("leaderboard", r1, 1), Ev("leaderboard", r1, 2)>>,
  <<Ev("coCreator", r1, 1), Ev("coCreator", r1, 2)>>,
  <<Ev("snapshot", r1, 1), Ev("snapshot", r1, 2)>>,
  <<Ev("social", r1, 1), Ev("social", r1, 2)>>,
  <<Ev("social", r1, 2), Ev("social", r1, 1), Ev("social", r1, 0)>>,
  <<Ev("whitelisted", r1, 0), Ev("unlisted", r1, 0), Bad("social", r2)>>,
  <<Ev("subscription", r1, 0), Ev("health", r2, 0)>>,
  <<Ev("pollCreated", r1, 0), Ev("pollVote", r1, 1), Ev("pollVote", r1, 1),
    Ev("pollClosed", r1, 0)>>,
  <<Ev("curveProposed", r1, 0), Ev("curveExecuted", r1, 0),
    Ev("curveExecuted", r1, 0)>>,
  <<Ev("auctionCreated", r1, 0), Ev("bid", r1, 2), Ev("bid", r1, 1),
    Ev("auctionSettled", r1, 0)>>,
  <<Ev("auctionCreated", r1, 0), Ev("auctionSettled", r1, 0), Ev("bid", r1, 1),
    Ev("auctionSettled", r1, 0)>>,
  <<Ev("tip", r1, 1), Ev("bid", r2, 1)>>, <<Ev("twap", r1, 1), Bad("badge", r2)>>,
  <<Ev("spotlight", r1, 1), Ev("twap", r2, 1)>>,
  <<Ev("milestone", r1, 1), Ev("retirement", r2, 1)>>,
  <<Ev("earlySlot", r1, 1), Ev("badge", r2, 1), Ev("badge", r2, 1)>>,
  <<Ev("trade", r1, 1), Ev("dividend", r1, 2), Ev("trade", r1, 1)>>,
  <<Ev("dividend", r1, 1), Ev("dividendClaimed", r1, 1),
    Ev("dividend", r1, 2), Ev("dividendClaimed", r1, 1)>>,
  <<Ev("trade", r1, 1), Ev("revenue", r1, 2), Ev("revenueClaimed", r1, 1),
    Ref("revenueClaimed", r1, 1, 2)>>,
  <<Ev("revenue", r1, 2), Ref("revenueClaimed", r1, 1, 1),
    Ref("revenueClaimed", r1, 2, 1)>>,
  <<Ev("revenue", r1, 3), Ev("revenue", r1, 3), Ev("revenueClaimed", r1, 3)>>,
  <<Ev("revenue", r1, 3), Ev("revenue", r1, 2), Ev("revenueClaimed", r1, 3),
    Ev("revenueClaimed", r1, 2)>>,
  <<Ev("score", r1, 1), Ev("score", r1, 2), Ev("transferBlocked", r2, 0)>>,
  <<Ev("reportSubmitted", r1, 0), Ev("reportResolved", r1, 1)>>,
  <<Ev("changeEnded", r1, 1), Ev("changeProposed", r1, 0)>> }
=============================================================================
