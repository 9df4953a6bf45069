------------------------------ MODULE TransferDoc ------------------------------
(***************************************************************************)
(* The MongoDB document of one transfer (models/Transfer.js) and the pure  *)
(* predicates that every handler evaluates on it (utils/helpers.js).       *)
(*                                                                         *)
(* "none" stands for every falsy value a token or an owner can have: absent*)
(* null or the empty string, which the code never tells apart.  The clock  *)
(* is abstracted: `expired` is expiresAt < now, and lastActive says        *)
(* whether burnLastActiveAt is unset, recent, or older than the cut-off    *)
(* BURN_IDLE_FINALIZE_MS of the cleanup job.                               *)
(***************************************************************************)

DeletionReasons == {"none", "expired", "manual", "burn"}

(* A newly created transfer; burn is burnAfterDownload.                    *)
NewTransfer(burn) ==
  [ burn           |-> burn,
    isDeleted      |-> FALSE,
    deletionReason |-> "none",
    cancelledAt    |-> FALSE,
    burnFinalizedAt|-> FALSE,
    claimantToken  |-> "none",
    burnClaimOwner |-> "none",
    lastActive     |-> "never",
    secrets        |-> TRUE,       \* ownershipToken, passwordHash, qrDataUri
    downloadCount  |-> 0,
    sessions       |-> {} ]

IsClaimed(d) == d.claimantToken # "none" \/ d.burnClaimOwner # "none"

(* Who sends a request: the token in x-claimant-token or the query, the    *)
(* fingerprint of address and user agent, and how the request proves to    *)
(* come from the sender: ownership token in a header or the body, in the   *)
(* query string only, or not at all.                                       *)
Roles == {"sender", "querySender", "receiver"}

IsBurnClaimOwner(d, q) ==
  /\ IsClaimed(d)
  /\ IF d.claimantToken # "none" THEN d.claimantToken = q.token
                             ELSE d.burnClaimOwner = q.finger

(* A document without a stored token lets everybody through.               *)
ValidateOwnershipToken(d, q) == ~d.secrets \/ q.role = "sender"

IsOwnerViaQuery(d, q) ==
  ValidateOwnershipToken(d, q) \/ q.role = "querySender"

(* The deletion every terminal path writes, without its own marks: the     *)
(* heavy and secret payloads are unset together with isDeleted.            *)
MarkDeleted(d) == [d EXCEPT !.isDeleted = TRUE, !.secrets = FALSE]
================================================================================
