--------------------------- MODULE MCOfferFulfil ---------------------------
(* One offerer has a film and two episodes of a season on disk, the film   *)
(* without its subtitles, the other a single episode, and could download   *)
(* the film; one request is for the film, the other for two episodes.      *)
EXTENDS OfferFulfil, TLC

CONSTANTS collector, leecher, film, season, mkv, srt, e1, e2, e3

MCHolds == film :> {mkv, srt} @@ season :> {e1, e2, e3}
MCFileFilter == film :> {} @@ season :> {e1, e2}
MCLibrary == collector :> (film :> {mkv} @@ season :> {e1, e2})
             @@ leecher :> (film :> {} @@ season :> {e1})
MCFolders == {<<collector, season>>}
MCTorrents == collector :> {} @@ leecher :> {film}

(* Bound: a request that is closed from the start is about nothing on any  *)
(* disk; nobody can claim it.                                              *)
MCInit == Init /\ \A a \in Agents, r \in Requests : status[r] = "closed" => have[a][r] = {}
MCSpec == MCInit /\ [][Next]_vars /\ Fairness
=============================================================================
