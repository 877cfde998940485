------------------------- MODULE MCTorrentDownload -------------------------
(* Small instances of TorrentDownload.                                     *)
EXTENDS TorrentDownload

Limits == [r \in Rules |-> IF r = "slow" THEN 3 ELSE 2]

Setting(caller, way, rules, boosted, full, seeds) ==
  [caller |-> caller, way |-> way, rules |-> rules, boosted |-> boosted,
   full |-> full, seeds |-> seeds]

AllSettings == {
  Setting("task", "magnet", {"slow", "stall"}, FALSE, FALSE, {"ratio"}),
  Setting("task", "magnet", {"slow", "low"}, FALSE, TRUE, {}),
  Setting("task", "magnet", {"slow", "stall"}, TRUE, FALSE, {"ratio", "hours"}),
  Setting("task", "file", {"slow", "stall"}, FALSE, TRUE, {"hours"}),
  Setting("offline", "file", {"slow"}, FALSE, FALSE, {"ratio"}),
  Setting("offer", "file", {}, FALSE, FALSE, {"ratio"})}
=============================================================================
