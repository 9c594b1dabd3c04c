----------------------------- MODULE MCSubmission -----------------------------
(* Submission under names of its own, for TLC and for EmailMoves_proofs,   *)
(* which extends this module beside EmailCreates.                          *)
EXTENDS IdRedirect, TLC

CONSTANTS Draft, Sender, Absent, MaxPlace, Faults, MaxFaults

VARIABLES post, used, routes, sending, status,
          origin, sends, doomed, missed, faults

Outbox == INSTANCE Submission WITH
    Handler <- Sender, None <- Absent,
    store <- post, redirects <- routes, call <- sending, issued <- origin

ASSUME OutboxConstants == Outbox!SubmissionAssumption

outboxVars == <<post, used, routes, sending, status,
                origin, sends, doomed, missed, faults>>

OutboxSpec == Outbox!Init /\ [][Outbox!Next]_outboxVars

\* A draft is only gone when SMTP accepted it or a client destroyed it,
\* whatever moves, fails or restarts meanwhile.
GoneIfSent == Outbox!GoneIfSent

\* A client that only submits again what was not reported as sent does not
\* send a draft twice, unless SMTP's answer or the bridge's is lost or a
\* request is malformed.
SentOnce == Outbox!SentOnce

\* Drafts are interchangeable, and so are handlers.
Symmetry == Permutations(Draft) \cup Permutations(Sender)
=============================================================================
