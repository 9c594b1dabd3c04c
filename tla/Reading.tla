------------------------------- MODULE Reading -------------------------------
(***************************************************************************)
(* What a client reads: a query's answer (EmailQuery), the parts of a      *)
(* message (EmailParts) and what it uploaded itself (BlobCache).  The      *)
(* three have no state in common, and one of them takes its steps in each  *)
(* behaviour.                                                              *)
(***************************************************************************)
EXTENDS Integers, Sequences, FiniteSets

CONSTANTS Absent   \* no mailbox, message, answer, limit
CONSTANTS NativeKey, FetchedKey, Cases        \* of EmailQuery
CONSTANTS Mime, Others                        \* of EmailParts
CONSTANTS Size, MaxTotal, Ttl, Late, MaxBlobs  \* of BlobCache

VARIABLES mail, asked, answer                         \* of EmailQuery
VARIABLES box, email, got                             \* of EmailParts
VARIABLES entries, total, now, granted, count, reply  \* of BlobCache

Queries == INSTANCE EmailQuery WITH None <- Absent
Parts   == INSTANCE EmailParts WITH None <- Absent
Blobs   == INSTANCE BlobCache

ASSUME ReadingConstants ==
    Queries!QueryAssumption /\ Parts!MimeAssumption /\ Blobs!BlobAssumption

queryVars == <<mail, asked, answer>>
partVars  == <<box, email, got>>
blobVars  == <<entries, total, now, granted, count, reply>>

-----------------------------------------------------------------------------
\* A component that takes no steps.
QueryRests == mail = << >> /\ asked = Absent /\ answer = [ok |-> FALSE]
PartsRest  == box = [uv |-> 1, message |-> Absent] /\ email = Absent /\ got = Absent
BlobsRest ==
    /\ entries = << >> /\ total = 0 /\ now = 0 /\ granted = << >> /\ count = 0
    /\ reply = [to |-> "rest"]

ReadInit ==
    \/ Queries!Init /\ PartsRest /\ BlobsRest
    \/ Parts!Init /\ QueryRests /\ BlobsRest
    \/ Blobs!Init /\ QueryRests /\ PartsRest

ReadNext ==
    \/ asked # Absent /\ Queries!Next /\ UNCHANGED <<partVars, blobVars>>
    \/ Parts!Next /\ UNCHANGED <<queryVars, blobVars>>
    \/ reply.to # "rest" /\ Blobs!Next /\ UNCHANGED <<queryVars, partVars>>

ReadSpec == ReadInit /\ [][ReadNext]_<<queryVars, partVars, blobVars>>
-----------------------------------------------------------------------------
\* An answer has what the filter matches, and nothing else (email.py:382).
Trusted == asked # Absent => Queries!Trusted

\* It is in the order the client asked for (email.py:536).
Ordered == asked # Absent => Queries!Ordered

\* A download is the part of the message that was asked for (email_map.py:6).
RightPart == Parts!RightPart

\* A light Email has the parts of the full one (email_map.py:532).
SameView == Parts!SameView

\* A blob is kept until it expires, and refused for those only that have not
\* expired (blob_cache.py:9).
Staged == Blobs!Staged
=============================================================================
