----------------------------- MODULE FileUpload -----------------------------
(***************************************************************************)
(* What UploadToUsenet promises its caller, whatever its goroutines do:    *)
(* while the call runs articles appear on the server; it ends once, either *)
(* with a segment list that names one stored article for every part of the *)
(* file, or with an error and no list; nothing is posted after it ended.   *)
(***************************************************************************)
EXTENDS FiniteSets

CONSTANTS
  PartIds,    \* the parts of the file
  ArticleIds, \* the Message-IDs that may be drawn
  PartOf(_)   \* the part an article carries

VARIABLES
  articles,   \* Message-IDs the server holds
  outcome,    \* "running", "ok", "failed" or "cancelled"
  nzb         \* the Message-IDs returned to the caller

fvars == <<articles, outcome, nzb>>

AbsInit == articles = {} /\ outcome = "running" /\ nzb = {}

(* At most one article is ever stored for a part.                          *)
Store ==
  /\ outcome = "running"
  /\ \E a \in ArticleIds :
       /\ \A b \in articles : PartOf(b) # PartOf(a)
       /\ articles' = articles \cup {a}
  /\ UNCHANGED <<outcome, nzb>>

Succeed ==
  /\ outcome = "running"
  /\ outcome' = "ok"
  /\ nzb' \in SUBSET articles
  /\ {PartOf(a) : a \in nzb'} = PartIds
  /\ UNCHANGED articles

GiveUpFile ==
  /\ outcome = "running"
  /\ outcome' \in {"failed", "cancelled"}
  /\ UNCHANGED <<articles, nzb>>

AbsNext == Store \/ Succeed \/ GiveUpFile

AbsSpec == AbsInit /\ [][AbsNext]_fvars
=============================================================================
