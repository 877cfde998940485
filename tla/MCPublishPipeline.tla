------------------------- MODULE MCPublishPipeline -------------------------
(* A task that seals and an offer that does not, each with a release of a  *)
(* video, an archive of any kind and a file that is not for Usenet.        *)
EXTENDS PublishPipeline, TLC

CONSTANTS task, offer, video, archive, stray, episode, shot, parity, sealed

MCRelease == {video, archive, stray}
MCUploadable == {video, archive, episode, parity}
MCVideos == {video, episode}
MCInside == archive :> {episode}
MCKind == archive :> {"rar", "zip", "7z", "iso", "tar", "misc"}
MCStale == archive :> {}

(* A zip that holds a file with the name of one beside it.                 *)
MCInsideAgain == archive :> {video}
MCZip == archive :> {"zip"}
=============================================================================
