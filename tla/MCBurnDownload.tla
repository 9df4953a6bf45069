---------------------------- MODULE MCBurnDownload -----------------------------
(* Instances of BurnDownload for TLC.                                      *)
EXTENDS BurnDownload, TLC

Ask(kind, token, finger, role, session, want) ==
  [ kind |-> kind, token |-> token, finger |-> finger, role |-> role,
    session |-> session, want |-> want ]

(* Two receivers with tokens of their own, the second one's preview,       *)
(* burn-finalize and cancel.                                               *)
RaceProfiles ==
  { Ask("download", "t1", "f1", "receiver", "s1", Files),
    Ask("download", "t2", "f2", "receiver", "s2", Files),
    Ask("preview", "t2", "f2", "receiver", "none", Files),
    Ask("burnFinalize", "t1", "f1", "receiver", "none", {}),
    Ask("cancel", "t1", "f1", "sender", "none", {}) }

(* One receiver, its preview and burn-finalize; the sender's download of   *)
(* its own transfer, its cancel, and a download of a bad index by a sender *)
(* that shows its ownership token in the query only.                       *)
ReapedProfiles ==
  { Ask("download", "t1", "f1", "receiver", "s1", Files),
    Ask("preview", "t1", "f1", "receiver", "none", Files),
    Ask("burnFinalize", "t1", "f1", "receiver", "none", {}),
    Ask("download", "t1", "f1", "sender", "none", Files),
    Ask("download", "t2", "f1", "querySender", "none", {}),
    Ask("cancel", "t1", "f1", "sender", "none", {}) }

(* Receivers that send no claimant token.                                  *)
TokenlessProfiles ==
  { Ask("download", "none", f, "receiver", "none", Files) : f \in Fingers }

RequestSymmetry == Permutations(Requests)
================================================================================
