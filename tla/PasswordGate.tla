------------------------------ MODULE PasswordGate -----------------------------
(***************************************************************************)
(* The password of a protected transfer: verify-password                   *)
(* (routes/transfer.js) and getPasswordErrorResponse (routes/download.js). *)
(* Both check passwordAttempts on the document they have read, compare     *)
(* with bcrypt and then count a wrong answer or reset the counter.         *)
(***************************************************************************)
EXTENDS Naturals, FiniteSets

CONSTANTS
  Guessers,          \* requests that may be in flight at once
  MaxAttempts,       \* five
  MaxResets          \* bound of the instance

ASSUME PasswordAssumption ==
  IsFiniteSet(Guessers) /\ MaxAttempts \in Nat \ {0} /\ MaxResets \in Nat

VARIABLES
  attempts,    \* passwordAttempts of the document
  copyOf,      \* the attempts a guesser has read, in a set of at most one
  wrongSince,  \* history: wrong answers given since the last reset
  resets       \* history

passwordVars == <<attempts, copyOf, wrongSince, resets>>

PasswordInit ==
  /\ attempts = 0
  /\ copyOf = [g \in Guessers |-> {}]
  /\ wrongSince = 0 /\ resets = 0

(* The check and the start of bcrypt.compare.  The owner and the claimant  *)
(* of a download, and a request without a password, do not get here.       *)
MutantMayGuess == TRUE
MayGuess == attempts < MaxAttempts
Guess(g) ==
  /\ copyOf[g] = {} /\ MayGuess
  /\ copyOf' = [copyOf EXCEPT ![g] = {attempts}]
  /\ UNCHANGED <<attempts, wrongSince, resets>>

Compared(g) == copyOf' = [copyOf EXCEPT ![g] = {}]

(* $inc is atomic: the comment speaks of two devices and a lost update.    *)
MutantIncremented(seen) == seen + 1
Incremented(seen) == attempts + 1
Wrong(g) ==
  /\ \E seen \in copyOf[g] : attempts' = Incremented(seen)
  /\ wrongSince' = wrongSince + 1
  /\ Compared(g)
  /\ UNCHANGED resets

(* Only a request that has read failures resets them.                      *)
Right(g) ==
  /\ \E seen \in copyOf[g] :
       IF seen > 0
       THEN /\ attempts' = 0 /\ wrongSince' = 0
            /\ resets < MaxResets /\ resets' = resets + 1
       ELSE UNCHANGED <<attempts, wrongSince, resets>>
  /\ Compared(g)

(* A database error after the comparison: next(error), nothing is written. *)
WriteFails(g) ==
  /\ copyOf[g] # {}
  /\ Compared(g)
  /\ UNCHANGED <<attempts, wrongSince, resets>>

PasswordNext ==
  \E g \in Guessers : Guess(g) \/ Wrong(g) \/ Right(g) \/ WriteFails(g)

PasswordSpec == PasswordInit /\ [][PasswordNext]_passwordVars

--------------------------------------------------------------------------------
(* Every variable keeps its shape.                                         *)
PasswordTypeOK ==
  /\ attempts \in Nat /\ wrongSince \in Nat /\ resets \in Nat
  /\ copyOf \in [Guessers -> SUBSET (0..(MaxAttempts - 1))]
  /\ \A g \in Guessers : Cardinality(copyOf[g]) <= 1

InFlight == {g \in Guessers : copyOf[g] # {}}

(* The limit of five is checked on a copy: guesses already in flight when  *)
(* it is reached are still answered, and nothing else is.  No wrong answer *)
(* is lost from the counter, and those in flight are the only excess.      *)
GuessesAreBounded ==
  /\ attempts = wrongSince
  /\ attempts + Cardinality(InFlight) <= MaxAttempts - 1 + Cardinality(Guessers)
================================================================================
