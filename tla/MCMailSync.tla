------------------------------ MODULE MCMailSync ------------------------------
(* Instances of MailSync for TLC. *)
EXTENDS MailSync

FirstMailboxes == {MailboxesFirst}
FirstQuery == {QueryFirst}
=============================================================================
