------------------------------- MODULE ClaimOnce -------------------------------
(***************************************************************************)
(* What burn-after-download promises of its files, with no word about      *)
(* requests, snapshots or the database: a transfer is claimed by at most   *)
(* one owner while it is open, downloads are only ever handed to that      *)
(* owner, and once closed it is never claimed again.  A preview claims     *)
(* nothing: it is shown to the owner and to whoever asked for it while the *)
(* transfer was open and nobody had claimed it, and to nobody else.  A     *)
(* stream that has begun may still be completed after the transfer is      *)
(* closed, a preview also after somebody else has claimed it.              *)
(***************************************************************************)
CONSTANT Tokens

VARIABLES
  owner,   \* who claimed the transfer
  served,  \* who was handed a download
  asked,   \* who asked for a preview when that was allowed
  shown,   \* who was shown one
  closed

vars == <<owner, served, asked, shown, closed>>

TypeOK ==
  /\ owner \in Tokens \cup {"none"}
  /\ served \subseteq Tokens
  /\ asked \subseteq Tokens
  /\ shown \subseteq Tokens
  /\ closed \in BOOLEAN

Init ==
  /\ owner = "none"
  /\ served = {}
  /\ asked = {}
  /\ shown = {}
  /\ closed = FALSE

Claim(t) ==
  /\ ~closed
  /\ owner = "none"
  /\ owner' = t
  /\ UNCHANGED <<served, asked, shown, closed>>

Serve(t) ==
  /\ owner = t
  /\ served' = served \cup {t}
  /\ UNCHANGED <<owner, asked, shown, closed>>

Ask(t) ==
  /\ ~closed
  /\ owner \in {"none", t}
  /\ asked' = asked \cup {t}
  /\ UNCHANGED <<owner, served, shown, closed>>

Show(t) ==
  /\ t \in asked
  /\ shown' = shown \cup {t}
  /\ UNCHANGED <<owner, served, asked, closed>>

Close ==
  /\ ~closed
  /\ closed' = TRUE
  /\ UNCHANGED <<owner, served, asked, shown>>

Next ==
  \/ \E t \in Tokens : Claim(t) \/ Serve(t) \/ Ask(t) \/ Show(t)
  \/ Close

Spec == Init /\ [][Next]_vars
================================================================================
