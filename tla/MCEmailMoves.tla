---------------------------- MODULE MCEmailMoves ----------------------------
(* Instances of EmailMoves, with creates, for TLC. *)
EXTENDS EmailCreates, TLC

\* Messages, mailboxes and handlers are interchangeable.
Symmetry ==
    Permutations(Message) \cup Permutations(Mailbox) \cup Permutations(Handler)
=============================================================================
