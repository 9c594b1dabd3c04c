------------------------------ MODULE EmailParts ------------------------------
(***************************************************************************)
(* Email/get and /download: the parts of a message are numbered by a walk  *)
(* over its MIME tree, and a blobId names a part by its number.  Email/get *)
(* walks the whole message as Python's parser sees it, or, when no text is *)
(* asked for, the BODYSTRUCTURE that the IMAP server reports; /download    *)
(* always walks the whole message.                                         *)
(*                                                                         *)
(* A message is the sequence of its parts, itself first.  A part is a      *)
(* type, whether its disposition is attachment, whether its text can be    *)
(* decoded, and the places of its parts, which come later.                 *)
(***************************************************************************)
EXTENDS Integers, Sequences, Functions

CONSTANTS None,
    Mime,      \* the messages a client looks at
    Others      \* and those that take their place

VARIABLES
    box,    \* the mailbox: its UIDVALIDITY and the message at the UID asked for
    email,  \* the Email a client got last
    got     \* what it downloaded

partVars == <<box, email, got>>

Text == {"plain", "html"}

\* Every message/* part is a container to Python's parser: "rfc822" a forwarded
\* message, "message" any other one (the notification of a read receipt, the
\* status of a bounce, a feedback report, a partial or a global message).
\* BODYSTRUCTURE is followed into the first only.
IsMultipart(part)   == part.type \in {"multipart", "rfc822", "message"}
IsNativeMulti(node) == node.type \in {"multipart", "rfc822"}

\* Every part but the message is in one other, once; a leaf has none.
IsMessage(msg) ==
    /\ msg \in Seq(Range(msg)) \ {<< >>}
    /\ \A i \in DOMAIN msg :
           /\ msg[i].parts \in Seq((i + 1)..Len(msg))
           /\ IsMultipart(msg[i]) \/ msg[i].parts = << >>
    /\ \A j \in DOMAIN msg \ {1} :
         \E i \in DOMAIN msg : \E k \in DOMAIN msg[i].parts : msg[i].parts[k] = j
    /\ \A i, j \in DOMAIN msg :
         \A k \in DOMAIN msg[i].parts, l \in DOMAIN msg[j].parts :
             msg[i].parts[k] = msg[j].parts[l] => i = j /\ k = l

MimeAssumption == \A msg \in Mime \cup Others : IsMessage(msg)

Init ==
    /\ box \in [uv : {1}, message : Mime]
    /\ email = None /\ got = None

-----------------------------------------------------------------------------
\* From the whole message: a leaf's partId is its place in the sequence.
Leaf(msg, i) ==
    [at |-> i, type |-> msg[i].type, attached |-> msg[i].attached,
     readable |-> msg[i].readable]

\* A walk has the parts that it has still to come to, in order.
Started == [todo |-> <<1>>, leaves |-> << >>, nodes |-> {}]

Walked(msg, walk) ==
    LET i == Head(walk.todo)
    IN  IF IsMultipart(msg[i])
          THEN [walk EXCEPT !.todo = msg[i].parts \o Tail(@)]
          ELSE [walk EXCEPT !.todo = Tail(@), !.leaves = Append(@, Leaf(msg, i))]

IterLeafParts(msg) ==
    LET walk[k \in 0..Len(msg)] ==
            IF k = 0 THEN Started
            ELSE IF walk[k - 1].todo = << >> THEN walk[k - 1]
            ELSE Walked(msg, walk[k - 1])
    IN  walk[Len(msg)].leaves

Node(msg, i, id) == [at |-> i, type |-> msg[i].type, partId |-> id]

BuildBodyStructure(msg, leaves) ==
    {Node(msg, i, IF IsMultipart(msg[i]) THEN None
                  ELSE CHOOSE k \in DOMAIN leaves : leaves[k].at = i) : i \in DOMAIN msg}

IsBody(leaf, type) == leaf.type = type /\ ~leaf.attached

\* The number of the first, 0 if there is none.
First(S) == IF S = {} THEN 0 ELSE CHOOSE k \in S : \A l \in S : k <= l

FirstReadable(leaves, type) ==
    First({k \in DOMAIN leaves : IsBody(leaves[k], type) /\ leaves[k].readable})

\* What cannot be decoded is an attachment, unless a body came before it.
ClassifyLeaves(leaves) ==
    LET Undecoded(i) ==
            \E type \in Text :
                LET first == FirstReadable(leaves, type)
                IN  IsBody(leaves[i], type) /\ (first = 0 \/ i < first)
    IN  [plain |-> FirstReadable(leaves, "plain"), html |-> FirstReadable(leaves, "html"),
         attachments |-> {i \in DOMAIN leaves :
             leaves[i].attached \/ leaves[i].type \notin Text \/ Undecoded(i)}]

\* Each body stands in for the other.
View(bodies, structure) ==
    [textBody    |-> IF bodies.plain # 0 THEN bodies.plain ELSE bodies.html,
     htmlBody    |-> IF bodies.html # 0 THEN bodies.html ELSE bodies.plain,
     attachments |-> bodies.attachments,
     structure   |-> structure]

BuildJmapEmail(msg) ==
    LET leaves == IterLeafParts(msg)
    IN  View(ClassifyLeaves(leaves), BuildBodyStructure(msg, leaves))

-----------------------------------------------------------------------------
\* From BODYSTRUCTURE: one walk counts the leaves and builds the nodes.
Counted(msg, i, walk) ==
    [todo   |-> Tail(walk.todo),
     leaves |-> Append(walk.leaves, Leaf(msg, i)),
     nodes  |-> walk.nodes \cup {Node(msg, i, Len(walk.leaves) + 1)}]

\* Mutant: a forwarded message gets a partId of its own.
EnteredCounted(msg, i, walk) ==
    [todo   |-> msg[i].parts \o Tail(walk.todo),
     leaves |-> IF msg[i].type = "rfc822" THEN Append(walk.leaves, Leaf(msg, i))
                ELSE walk.leaves,
     nodes  |-> walk.nodes \cup
                {Node(msg, i, IF msg[i].type = "rfc822" THEN Len(walk.leaves) + 1 ELSE None)}]

Entered(msg, i, walk) ==
    [walk EXCEPT !.todo = msg[i].parts \o Tail(@), !.nodes = @ \cup {Node(msg, i, None)}]

WalkedNative(msg, walk) ==
    LET i == Head(walk.todo)
    IN  IF IsNativeMulti(msg[i]) THEN Entered(msg, i, walk) ELSE Counted(msg, i, walk)

WalkNative(msg) ==
    LET walk[k \in 0..Len(msg)] ==
            IF k = 0 THEN Started
            ELSE IF walk[k - 1].todo = << >> THEN walk[k - 1]
            ELSE WalkedNative(msg, walk[k - 1])
    IN  walk[Len(msg)]

FirstNative(leaves, type) == First({k \in DOMAIN leaves : IsBody(leaves[k], type)})

\* Mutant: a text marked as attachment is taken for the body.
ClassifyInline(leaves) ==
    LET Inline(type) == First({k \in DOMAIN leaves : leaves[k].type = type})
    IN  [plain |-> Inline("plain"), html |-> Inline("html"),
         attachments |-> {i \in DOMAIN leaves : leaves[i].type \notin Text}]

ClassifyNativeLeaves(leaves) ==
    [plain |-> FirstNative(leaves, "plain"), html |-> FirstNative(leaves, "html"),
     attachments |-> {i \in DOMAIN leaves :
         leaves[i].attached \/ leaves[i].type \notin Text}]

BuildHeadersOnly(msg) ==
    LET walk == WalkNative(msg)
    IN  View(ClassifyNativeLeaves(walk.leaves), walk.nodes)

-----------------------------------------------------------------------------
\* Email/get, light unless the client asks for text.
Get(light) ==
    /\ email = None /\ box.message # None
    /\ email' = [uv |-> box.uv, of |-> box.message, light |-> light,
                 view |-> IF light THEN BuildHeadersOnly(box.message)
                                   ELSE BuildJmapEmail(box.message)]
    /\ UNCHANGED <<box, got>>

Whole == -1   \* the part index of Email.blobId

\* The part with this number, or the message as it is.
ExtractBlobPart(msg, index) ==
    LET leaves == IterLeafParts(msg)
    IN  IF index = Whole THEN [raw |-> TRUE, at |-> 1]
        ELSE IF index \in DOMAIN leaves
          THEN [raw |-> FALSE, at |-> leaves[index].at]
        ELSE None

\* What the blobId's mailbox has at its UID; None is notFound.
Serve(uv, index) ==
    IF box.message = None \/ box.uv # uv THEN None
    ELSE [uv |-> box.uv, part |-> ExtractBlobPart(box.message, index)]

\* The client asks for the whole message or for a leaf of bodyStructure.
Download(asked, index) ==
    /\ email # None /\ got = None
    /\ got' = [asked |-> asked, there |-> box.message # None /\ box.uv = email.uv,
               answer |-> Serve(email.uv, index)]
    /\ UNCHANGED <<box, email>>

Downloads ==
    \/ Download([raw |-> TRUE, at |-> 1], Whole)
    \/ \E node \in email.view.structure :
           /\ node.partId # None
           /\ Download([raw |-> FALSE, at |-> node.at], node.partId)

\* The message is expunged, or its mailbox deleted and created again.
Vanish ==
    /\ got = None /\ box.message # None /\ box.uv = 1
    /\ box' \in [uv : {1}, message : {None}] \cup [uv : {2}, message : Others]
    /\ UNCHANGED <<email, got>>

Next == \/ \E light \in BOOLEAN : Get(light)
        \/ (email # None /\ Downloads)
        \/ Vanish

Spec == Init /\ [][Next]_partVars
-----------------------------------------------------------------------------
\* It has a message/* part that only the walk of the whole message enters.
HasOpaque(msg) == \E i \in DOMAIN msg : msg[i].type = "message"

AnyPart ==
    got # None =>
        \/ got.answer = [uv |-> email.uv, part |-> got.asked]
        \/ got.answer = None /\ ~got.there

\* email_map.py:6: "a blobId minted from any of them (textBody, an attachment,
\* a bodyStructure leaf) refers to the same physical MIME part".  What is
\* downloaded for a part is that part of that message, however the Email that
\* named it was built and whatever became of the mailbox since; it is found as
\* long as the message is.  Of the BODYSTRUCTURE of a message with a message/*
\* part other than message/rfc822 AnyPart does not hold.
RightPart == (got # None /\ email.light /\ HasOpaque(email.of)) \/ AnyPart

Readable(msg) == \A i \in DOMAIN msg : msg[i].readable

\* email_map.py:532: BODYSTRUCTURE is turned into bodies and attachments
\* "mirroring `_classify_leaves`".  An Email has the same structure, partIds,
\* bodies and attachments whether a client asked for text with it or not, if
\* its text can be decoded and it has no message/* part but message/rfc822.
SameView ==
    email # None /\ Readable(email.of) /\ ~HasOpaque(email.of) =>
        email.view = BuildJmapEmail(email.of)

-----------------------------------------------------------------------------
(***************************************************************************)
(* What the docs claim and the code does not do.                           *)
(***************************************************************************)
\* email_map.py:171: apart from the first plain and the first html text
\* "everything else ... is an attachment".  Later ones are neither body nor
\* attachment.
NothingHidden ==
    email # None =>
        \A node \in email.view.structure :
            node.partId # None =>
                node.partId \in {email.view.textBody, email.view.htmlBody}
                                    \cup email.view.attachments
=============================================================================
