---------------------------- MODULE MCMailboxNames ----------------------------
(* MailboxNames under a name of its own, for TLC and for MailSync_proofs,  *)
(* which extends this module beside MailSync.                              *)
EXTENDS IdRedirect, TLC

CONSTANTS Root, Segment, Name, First, Handler, Reuse, MaxAsks, MaxFaults,
    one, other, below   \* three segments

VARIABLES folder, owner, born, table, task, held, doomed, asked, faults

Names == INSTANCE MailboxNames

ASSUME NamesConstants == Names!NameAssumption

namesVars == <<folder, owner, born, table, task, held, doomed, asked, faults>>

NamesSpec == Names!Init /\ [][Names!Next]_namesVars

\* Mailbox/set deletes no mailbox but those a client asked to destroy,
\* whichever renames take names from under it.
NoneLost == Names!NoneLost

\* An id a client holds leads Mailbox/get and Mailbox/set to the mailbox it
\* was given for, or to none, whatever is lost, fails or restarts.
RightMailbox == Names!RightMailbox

\* While nothing fails and no name is used twice, the id a top-level mailbox
\* had at first leads to it through every rename, by whichever of its ids.
Reachable == Names!Reachable

Symmetry == Permutations(Handler)
Top(S) == {Root} \X S
Flat == Top(Segment)
Nested == Top({one, other}) \cup ({one, other} \X {below})
OneBox == {<<Root, one>>}
Family == {<<Root, one>>, <<one, below>>}
=============================================================================
