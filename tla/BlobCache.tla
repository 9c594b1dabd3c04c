------------------------------ MODULE BlobCache ------------------------------
(***************************************************************************)
(* blob_cache.py: uploaded bytes are kept in memory until they expire, up  *)
(* to a total size, for a later Email/import, attachment or download.      *)
(* Entries that have expired are dropped by the next put() or get(), of    *)
(* any blob and account.  A blob is its number; no two have the same.      *)
(***************************************************************************)
EXTENDS Integers, FiniteSets, Functions

CONSTANTS Size,     \* of uploads, at most MAX_UPLOAD_BYTES
    MaxTotal,       \* max_total_bytes
    Ttl,            \* ttl_seconds
    Late, MaxBlobs  \* bounds: the last time, blobs ever uploaded

BlobAssumption == Size \subseteq Nat /\ MaxTotal \in Nat /\ Ttl \in Nat

VARIABLES
    entries,  \* _entries
    total,    \* _total_bytes
    now,      \* time.monotonic()
    granted,  \* history: the uploads that were answered, since the last restart
    count,    \* history: how many were ever
    reply     \* the last request's answer

blobVars == <<entries, total, now, granted, count, reply>>

Init ==
    /\ entries = << >> /\ total = 0
    /\ now = 0 /\ granted = << >> /\ count = 0
    /\ reply = [to |-> "nobody"]

\* The bytes of the blobs in S, each a blob and a place in it.
Bytes(S, of) == UNION {{b} \X (1..of[b].size) : b \in S}

Sizes(S, of) == Cardinality(Bytes(S, of))

Put(blobs, b, entry) ==
    [c \in DOMAIN blobs \cup {b} |-> IF c = b THEN entry ELSE blobs[c]]

Expired == {b \in DOMAIN entries : entries[b].until <= now}

\* Mutant: what is dropped stays in the account.
SweptUncounted == [entries |-> Restrict(entries, DOMAIN entries \ Expired), total |-> total]

Swept == [entries |-> Restrict(entries, DOMAIN entries \ Expired),
          total   |-> total - Sizes(Expired, entries)]

\* put(): a MemoryError becomes serverUnavailable.
Upload(size) ==
    LET fits  == Swept.total + size <= MaxTotal
        entry == [size |-> size, until |-> now + Ttl]
    IN  /\ count < MaxBlobs
        /\ entries' = IF fits THEN Put(Swept.entries, count + 1, entry) ELSE Swept.entries
        /\ total'   = IF fits THEN Swept.total + size ELSE Swept.total
        /\ granted' = IF fits THEN Put(granted, count + 1, entry) ELSE granted
        /\ count'   = IF fits THEN count + 1 ELSE count
        /\ reply' = [to |-> "upload", size |-> size, accepted |-> fits]
        /\ UNCHANGED now

\* get(), for a download, an import or an attachment.
Read(b) ==
    /\ entries' = Swept.entries
    /\ total' = Swept.total
    /\ reply' = [to |-> "read", blob |-> b, found |-> b \in DOMAIN Swept.entries]
    /\ UNCHANGED <<now, granted, count>>

Tick ==
    /\ now < Late
    /\ now' = now + 1
    /\ reply' = [to |-> "nobody"]
    /\ UNCHANGED <<entries, total, granted, count>>

\* The bridge is restarted.
Restart ==
    /\ entries' = << >> /\ total' = 0 /\ granted' = << >>
    /\ reply' = [to |-> "nobody"]
    /\ UNCHANGED <<now, count>>

Next ==
    \/ \E size \in Size : Upload(size)
    \/ \E b \in 1..count : Read(b)
    \/ Tick \/ Restart

Spec == Init /\ [][Next]_blobVars
-----------------------------------------------------------------------------
InForce == {b \in DOMAIN granted : now < granted[b].until}

\* blob_cache.py:9: "a short TTL, and a total-size cap, so a restart or a slow
\* client simply means "upload again"".  A blob is found exactly as long as it
\* has not expired, and an upload is refused exactly when those that have not
\* leave no room for it, in whatever order blobs come, expire and are swept.
Staged ==
    /\ reply.to = "read" => (reply.found <=> reply.blob \in InForce)
    /\ reply.to = "upload" =>
         LET kept == IF reply.accepted THEN InForce \ {count} ELSE InForce
         IN  reply.accepted <=> Sizes(kept, granted) + reply.size <= MaxTotal
=============================================================================
