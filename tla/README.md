# TLA+ models of jmap-bridge

jmap-bridge is a stateless JMAP server in front of ordinary mail, calendar and
contact servers: it answers JMAP method calls by talking IMAP, SMTP, CalDAV
and CardDAV with the caller's own credentials. It is one asyncio process. What
makes it hard is not the translation of one call: it is that every call is a
sequence of `await`s between which other requests run, that the servers change
under it, that its few shared structures (the connection pool, the id
redirects, the push watchers) are in memory and touched by every request, and
that JMAP promises things (stable ids, states from which no change is missed)
that IMAP and WebDAV do not have.

This directory models those parts. TLC checks each module on small instances;
TLAPS proves the most important invariants for all values of the constants.

Paths in this file are relative to `src/jmap_bridge/` of the repository.

## 1. Inventory

| Component | State it keeps | Operations | What is hard, and what makes it correct |
|---|---|---|---|
| Connection pool, `pool.py` | `_idle` and `_open_count` per account, one shared condition, the sweep task | `checkout` (acquire, body, release), `_sweep_loop`, `start`, `stop` | every `await` of many tasks; cancellation at any of them; a counter that must match the connections; wakeups that must not be lost. Exclusive, quiescent, own-password connections, at most `max_per_user`, everybody served |
| Parallel sweeps, `context.py` | the handlers' and chunks' connections | `imap_parallel_map` | hold-and-wait on a bounded pool; `gather` that leaves siblings running. Sweeps end |
| Dispatch, `dispatch.py`, `context.py` | results by tag, created ids, the request's cached sweep | `dispatch_request`, result references, creation ids, `invalidate_cache` | a cache inside a batch that changes what is cached; calls that fail in the middle. No state older than the batch's own changes |
| Push, `push.py` | a watcher per account, its subscribers, queues and last cursors | subscribe, unsubscribe, `_run`, `handle_events` | streams come and go while the task is in a thread; reconnects; ping timeouts. No change lost, one poller, no state told backwards |
| Id redirects, `id_redirect.py` | a bounded dict old id -> new id per account | `record`, `resolve` | eviction, chains, cycles. An id leads to its own object or nowhere |
| Email/set, `types/email.py`, `backends/imap/client.py` | on the server | updates (keywords, moves), destroys, creates and imports | a move is COPY, STORE, EXPUNGE with others between, a create APPEND, a search, COPYs and a FETCH. No message lost, no id leads to another message, what is answered created is there |
| Email/query, `types/email.py` | none | filters, mailbox choice, sort, pages | filters that IMAP cannot express in part. The answer is what the filter means |
| Message parts and download, `backends/imap/email_map.py`, `upload.py` | none: a blobId names mailbox, UID and part number | Email/get from the message or from BODYSTRUCTURE, `/download` | three walks over a MIME tree, two of them over what the IMAP server says of it, must number it alike; the message may go between. A blobId leads to its part of its message |
| Threads, `types/thread.py` | none: a threadId is derived from a message's headers, or its place | Thread/get | many searches in parallel while mailboxes change, whose SELECTs become a state. A message is with its thread and no other |
| Blob cache and upload, `blob_cache.py`, `upload.py` | `_entries`, `_total_bytes` | `put`, `get`, the sweep of what expired | a total that must follow what is dropped. A blob is there until it expires |
| Mail state, `types/email.py`, `types/mailbox.py`, `backends/imap/modseq_state.py` | none: the state string is the vector of the mailboxes' cursors | the sweep, Email/changes, Mailbox/changes, Email/get | mailboxes change between the commands of one answer; UIDVALIDITY changes; servers without CONDSTORE or QRESYNC. A client that follows the states has every message |
| Mailboxes, `types/mailbox.py`, `backends/imap/mailbox_map.py` | on the server | Mailbox/get, query, set, changes | ids are names; renames, names used again, children. An id never leads to another mailbox |
| Submission, `types/submission.py`, `backends/smtp/client.py` | on the servers | EmailSubmission/set | fetch, send, patch and destroy with others between; a lost answer. Nothing disappears unsent, nothing is sent twice |
| Events and cards, `types/calendar_event.py`, `types/contact_card.py`, `backends/caldav/client.py`, `backends/carddav/client.py` | on the servers | update, move, destroy, create, query, changes; patches of a recurring event's occurrences | a move is PUT and DELETE; `If-Match` or none; an occurrence is an exclusion, a component of its own, or what the rule makes of the master. No event lost, edits kept, ids lead to it, occurrences are as patched |
| Calendars, address books and their sync state, `types/calendar.py`, `types/address_book.py`, `backends/*dav/sync_state.py` | none: the state string is the vector of the collections' names and sync-tokens | get, changes, set; the state that event and card get and query answer with | a listing is one WebDAV request per collection, or two, between which collections change; failures of them are swallowed. A client that follows the states has every collection, under its name |
| Identities, session and errors, configuration, other conversions, deployment | see section 7 | | |

How they interact: one HTTP request is `dispatch_request` with one
`RequestContext`; each method's handler runs in turn and checks connections out
of the pool, alone or through `imap_parallel_map`, each blocking IMAP command in
a worker thread. Handlers of different requests interleave at every `await`.
They share the pool, the redirects of the account, the blob cache, and of
course the servers. A push watcher has a connection of its own outside the pool
and shares nothing with requests but the cursors' definition.

The hazards this gives rise to are listed one by one, at their lines, in
`PROJECT.json`, each with the properties that would catch it.

## 2. Modules

Each component's module declares constants with named assumptions, `VARIABLES`,
one action per step from one `await` to the next, `Spec`, for the larger ones `TypeOK`, and its
properties. `MC*` modules extend it with the constants' values for TLC
and, where no liveness is checked, symmetry sets; `*_proofs` modules extend it with
TLAPS proofs. Operators named
in a comment as mutants are plausible bugs of the code, kept next to the
definition they distort: each property is known to fail with one of them.

| Module | Models | Correspondence |
|---|---|---|
| `ConnectionPool` | `pool.py` for one account | a critical section of the condition is one action, since none of them awaits anything else: `Checkout`/`Retry` are `_acquire` up to its `await`, `Connected`, `ConnectFailed` and their cancelled forms what follows `connect`, `ReturnOk`, `BodyFailed`, `BodyCancelled`, `GiveUp`, `Logout` the end of `checkout`; `StartCommand`/`EndCommand` are a thread that cancellation does not stop; `Sweep`, `SweepDone`, `Start`, `Stop` the rest. `pc`, `held`, `pw` are a task's locals, `entry` and `age` are `_idle`, `open` is `_open_count`, `leaked` is the part of it that no connection accounts for |
| `BoundedLease` | what the pool promises | abstract specification: grant, provide, release |
| `ParallelSweep` | `imap_parallel_map` over a `BoundedLease` | `Open`, `ListOnly`, `Fork` the handler; `OpenChunk`, `ChunkDone`, `ChunkFails`, `ChunkCancelled` the tasks of `gather`; `Join`, `JoinRaises`, `Cancelled` its three ends |
| `RequestBatch` | `dispatch_request` | one action per call's begin, per step of a handler that reads or changes the mail, and per way to end. The mail is the number of its changes, so "a state is older than" is `<` |
| `PushWatcher` | `push.py` for one account | a `PollStep` is the watcher's step between two awaits, `StreamStep` a stream's subscription, delivery or end, and a ping that falls due as a payload arrives is part of the delivery; the locals of a poll are cleared when it ends |
| `IdRedirect` | `id_redirect.py` | `Record`, `Resolve` on a sequence of entries; a library of `EmailMoves`, `EventStore`, `MailboxNames`, `Submission` |
| `EmailMoves` | `_apply_email_update`, `_destroy_one_email` | the redirect is resolved in a step of its own; FETCH/SELECT, COPY, STORE and EXPUNGE are further ones, with failures and restarts between |
| `EmailCreates` | `_append_message_and_build_email` and its callers, beside `EmailMoves` | APPEND, the search of a server without UIDPLUS, each COPY and the FETCH are steps of `making`, a create's locals; a message imported twice is one message with two places |
| `EmailParts` | `build_jmap_email`, `build_jmap_email_headers_only` and `extract_blob_part` of one message | a message is the sequence of its parts, each with the places of those in it; a walk keeps the parts it has still to come to, and `Walked`, `WalkedNative` are its steps. `Get`, `Download` and what becomes of the message between are the actions. A part is known by its place, so that two numberings can be compared |
| `Threads` | Thread/get | SELECT, SEARCH and FETCH of each mailbox, each lookup of a message without references, or its failure, and the sweep for the state are steps |
| `BlobCache` | `BlobCache` and its users | `put`, `get` with their sweep, the clock and a restart; the size of some blobs is the number of their bytes |
| `Occurrences` | `recurrenceOverrides` in CalendarEvent/set | the three forms of a patch and other clients' edits, on the calendar object (`cal`) and on the abstract event (`shown`) at once |
| `EmailQuery` | filters, mailbox choice, sort and pages of Email/query | a filter is the sequence of its nodes, the root first. `Matches` is the reference definition, straight from the filter's structure; `TranslateFilter` is the search the bridge sends, each criterion as the set of messages the server finds by it; `ApplySort` is held against `Precedes` |
| `Reading` | `EmailQuery`, `EmailParts` and `BlobCache` side by side | instances of the three, with one state of rest for each; `Absent` is the `None` of all |
| `MailSync` | sweep, Email/changes, Email/get and a client's mirror | one step per mailbox and IMAP command of a batch; `box` is the server, `call` the batch in progress, `token` and `mirror` the client. The history variable `since` says of each mailbox of the mirror from which mod-sequence on its mail was reported: Email/changes leaves out what was in a mailbox that is new to it |
| `DavState` | Calendar and AddressBook get, changes and set, and the state of event and card get and query | one step per WebDAV request; `Plan` is the order in which a method reads, `call` the listing in progress, `mirror`, `cursor` and `view` what a client keeps of the answers. A listing reads its collections in any order, the code in the server's |
| `EventStore` | an event's or a card's updates, moves and destroys | one step per WebDAV request, which fails, or is refused and goes unnoticed (`DeleteRefused`); `kind` tells CalDAV, with If-Match, from CardDAV |
| `MailboxNames` | Mailbox/set by id | creation, RENAME with the mailboxes below, DELETE and the record of the redirect as steps |
| `Submission` | EmailSubmission/set | FETCH, SMTP, patch and destroy of each create as steps |

Compositions: `ParallelSweep` runs over `BoundedLease`, which `ConnectionPool`
is shown to implement; the four modules of objects that move include the redirect table by
`EXTENDS IdRedirect`, so that its eviction and cycle guard are part of every
step that records or resolves; `EmailCreates` extends `EmailMoves`, so that creates interleave with
every step of moves and destroys, and both place messages by the same operator.

`Reading`, `MCEventStore` and `MCRequestBatch` only put components that share no state side by
side, so that one run explores each: in a behaviour one takes its steps and the others rest.
`MCRequestBatch`, `MCSubmission` and `MCMailboxNames` are `INSTANCE`s of their components under
names of their own, with their initial states, steps and properties unchanged, so that one
module of proofs can extend them beside another component whose names they would clash with.

Some abstractions that matter:

- A pool key's idle list is a set. `_acquire` pops the first entry with the right
  password, the model any: it has more behaviours than the code.
- A message's location is mailbox and UID; in `Submission`, where only the order
  matters, the number of a place. Texts are the set of edits they contain.
- A mailbox's cursor in `MailSync` is what `_sweep` reads of STATUS and SEARCH:
  UIDVALIDITY, UIDNEXT, HIGHESTMODSEQ and the UIDs. `server` is what kind of
  server it is: HIGHESTMODSEQ is 0 on `"plain"`, and does not count EXPUNGE on
  `"condstore"`.
- In `EmailParts`, whether a text can be decoded is a field of its part; a disposition is
  attachment or not. In `Threads` a message is its ids and references. In `Occurrences` an
  occurrence's key is its natural start, a number, and its title stands for every
  property that is copied from the master; an exclusion is an entry that says nothing else.
- `EmailCreates` keeps no keywords, and a create's bytes are the message.
- SMTP accepts, refuses, or accepts and loses the answer; a handler that
  changes mail or events may stop after any of its commands, by an error, a
  cancellation or a restart.

The external definitions of the map (an IMAP server's assignment of UIDs and
mod-sequences, the SMTP server's answers, asyncio's scheduling) are modelled from how
the code uses them.

## 3. Runs

Every `pass` run explores its instance completely. Every bound is a constant.
A run checks the properties of one module, or of those its MC module puts together. Type
invariants are not among them: that of `ConnectionPool`, `ParallelSweep`, `PushWatcher`,
`EmailMoves`, `MailSync` and `DavState` is a theorem, and so is what the proofs about `EventStore`,
`RequestBatch`, `Submission` and `MailboxNames` need of types; the rest of their `TypeOK` was
checked on the runs' instances. Runs with liveness
properties take `FairSpec`, whose safety is that of `Spec`, and no symmetry.

| Run | Instance | Shows |
|---|---|---|
| `pool` | 3 tasks, 2 connections, 2 passwords, cap 2, eviction of every idle connection a sweep finds aged | exclusive, quiescent, own-password connections; `_open_count` exact up to `leaked`; cap; no lost wakeup; implements `BoundedLease`; every waiter is served if arrivals stop |
| `sweep` | 2 requests, 4 workers, cap 4, at most 2 mailboxes | only active tasks hold connections; somebody can proceed; sweeps end |
| `push` | 2 streams, 2 watchers, 2 mailboxes, 2 changes (`MaxChanges` 3: the first state is 1) | one poller, nothing between two polls skipped, states in order, a subscriber is told the last state |
| `emails` | 2 messages, 2 mailboxes, 2 handlers that move, destroy or create, 3 UIDs, 2 redirects | no message lost, ids faithful, what is answered created is in every mailbox asked for |
| `query` | filters of 2 levels over 3 terms and mailboxes against 8 kinds of mail in 2 mailboxes; and 3 messages of any values, at most 2 sort keys, pages. MIME trees of 3 levels over 6 kinds of leaves, with forwarded messages, and other `message/*` parts (a read receipt's, a bounce's, attached or not, at the root, before another part, in one another). 5 uploads of 2 sizes, room for 3, a life of 2 of 5 ticks | the answer is what the filter means, in the order asked for; a blobId leads to its part, a light Email has the parts of the full one; blobs live until they expire and no longer take room then |
| `sync` | 2 mailboxes that come and go, a message in each, 3 changes, servers that count EXPUNGE in HIGHESTMODSEQ and servers that do not | a client whose state string is the present one has every mailbox and, but for what was in a new mailbox before its Email/changes, every message as it is; a client that keeps asking ends up with all of them |
| `dav` | calendars or address books at 2 hrefs, 2 names, 3 changes, a failed call, a swallowed failure | whatever the next changes will not name is right at the client; a query of cards is as its state says; a client that keeps asking has the collections when they stop changing |
| `events` | an event or a card, 3 calendars, 2 handlers, 3 requests, 1 fault. A recurring event with 2 occurrences, 3 times, 2 titles, 4 edits | it is not lost; its first id goes on leading to it; occurrences are what the last patches made of them |
| `boxes` | a mailbox with one below, 3 segments, 2 handlers, 4 requests, 1 fault, names used once | no mailbox lost, no id leads to another, top-level ids lead to theirs through every rename |
| `batch` | 3 calls, 3 changes, 2 tags, 2 creation ids, sets that fail in the middle. Threads of 5 kinds of messages in 2 mailboxes with 2 UIDs each, 2 changes by others | no state is older than changes of sets that were answered; each creation id leads to the record last created under it; messages are with their threads, in an answer that is as its state |
| `send` | 2 drafts, 2 handlers, 4 places, 1 fault (malformed request, lost answer or restart) | a draft disappears only if sent or destroyed by a client; nothing is sent twice without a fault |
| `boxes_reused` | 1 mailbox, names used again | violation, section 4 |

Why the bounds are enough for the cases that matter. Pool: with two slots and
three tasks one waits while another connects and a third returns or logs out;
two passwords give rotation while idle and in use. A connect ends only when one
of the two connection identities is free, so a logout never overlaps with a
full pool here; that case was explored with three connections and `Spec`, and
the proofs have no such bound. Sweeps: four workers let a failed
sweep's leftover chunk coexist with the next team and with another request's. Push:
two watcher objects are an old one whose logout is still in a thread and its
successor; two changes let a mailbox change between the SELECTs of one poll and
once more. Mail: three UIDs allow a move and a concurrent second one, or a create with a
copy whose message a destroy takes away in between; the
two redirects hold a chain of two moves, and with these UIDs none is evicted. With one redirect
evictions happen: the run was explored so too, and the proofs have no such bound. Parts: three levels are a forwarded
message in a multipart in a message, with leaves before and after it, and two texts of which the
first cannot be decoded. Threads: two changes take a message out of a mailbox
still to be searched into one that was. Blobs: five uploads fill the cache, expire and fill it again.
Occurrences: four edits are an exclusion, a change, its reset, and one of the whole map. Sync: three changes are an
arrival, a flag and an expunge, or a mailbox dropped, created again and filled,
between any of a batch's commands. Collections: three changes are a creation, a
rename or an edit, and a deletion, each between any two requests of the listing for
changes and of the one for get; the second href is there to be listed while the
first one changes. Events, mailboxes and submissions: two
handlers and three or four requests have a move overtaken by another one, with
a failure between any two requests to the server.

Fifteen properties hold only under conditions, on what is asked or what happened, which are part of
the property and recorded in the state, or on the constants: `Trusted` for filters that one SEARCH can
express (`Expressible`: at most one `inMailbox`, no blank condition below an operator) and `Ordered` for sort keys
the bridge fetches; `SameView` for messages without
`message/*` parts other than `message/rfc822` and with texts that can be decoded, `RightPart` for the former unless the
whole message was parsed; `Created` if no two messages have the same Message-Id (`Versions`); `Occurs` if the master's title does not change
once a component has it (`LateEdits`) and no entry has `excluded` beside other properties
(`Mixed`); `Grouped` for mailboxes without a colon in their names (`Colon`), and, as `AsOfState`, but for messages
whose lookup could not select their mailbox (`unread`); `Resolvable` while updates do not
overlap (`overlapped`) and nothing failed; `Reachable` without failures, for
top-level mailboxes whose names are used once; `Remembered` until a set fails
as a whole (`aborted`); `MirrorComplete` and `EventuallyComplete` but for the mail of a mailbox new to Email/changes
(`since`); `SentOnce` without faults; `NothingMissed` while no
failed read of a name or sync-token was swallowed (`unread`), and if renames never
go back to an earlier name (`Forward`, of the constant). What happens without the
condition is in section 4.

## 4. Where the code and what is said of it differ

The run `boxes_reused` is expected to end in a violation of a statement the
repository makes; `PROJECT.json` quotes it. A redirect is followed although its old
name has a mailbox again: destroying the new mailbox by the id its create
answered deletes the renamed one, and `NoneLost` fails.

The modules state further claims of the repository that the code does not keep.
They are not among the runs; each is found violated by checking the property
with the constants named here (the rest as in the module's `.cfg`, with `Spec`; those of
`Occurrences` as in `MCEventStore.cfg`; those of `EmailQuery`, `EmailParts`, `RequestBatch`, `Threads`, `Submission` and
`MailboxNames` in a module that extends their MC module and names them, as `Queries!Exact`, `Parts!AnyPart` or
`Names!AllReachable`).

| Property | Instance | What the code does |
|---|---|---|
| `ConnectionPool!SlotAlwaysReleased` | any | a cancelled connect keeps its slot (`pool.py:185`) |
| `ConnectionPool!ServerSideCap` | 3 connections | a slot is free before its connection has logged out (`pool.py:123`) |
| `ConnectionPool!OneThreadPerConnection` | any | logout runs while a cancelled command's thread still uses the connection (`pool.py:126`) |
| `ConnectionPool!AcquireBounded`, under `ClockSpec` | 2 tasks, 1 connection, cap 1, `AcquireTimeout` 2 | every wakeup restarts the acquire timeout (`pool.py:173`) |
| `ParallelSweep!LeavesOneFree` | 1 request, 3 workers | a failed sweep's other chunk still holds a connection (`context.py:147`) |
| `ParallelSweep!SweepsDontStarve` | 4 requests | four sweeps fill a pool of four and wait for each other (`context.py:142`) |
| `PushWatcher!WatcherSurvives` | any | an error of LIST ends the watcher's task for good (`push.py:123`) |
| `EmailMoves!OldIdsResolve` | 1 message, 3 redirects | the location between two moves has no redirect (`types/email.py:1093`) |
| `EmailCreates!Created`, under `CreateSpec` | `Versions = {x1, x2}` | without UIDPLUS the new message is the last with its Message-Id, which may be one that arrived since (`types/email.py:817`) |
| `EmailCreates!NothingLeft`, under `CreateSpec` | no symmetry | a COPY or FETCH that fails after the APPEND is answered notCreated, and the message stays (`types/email.py:840`) |
| `EmailParts!AnyPart` | any; shortest with `Mime <- Reports` | Python's parser makes a container of every `message/*` part (the notification of a read receipt, a bounce's status, a feedback report, a partial message), the walk of the BODYSTRUCTURE of `message/rfc822` only. For such a part of a light Email a client is served the text inside it; a bounce's status has several parts inside, so later numbers differ. The light and the full Email differ with each (`backends/imap/email_map.py:154`, 243, 567) |
| `EmailParts!NothingHidden` | any | a second inline text is neither body nor attachment (`backends/imap/email_map.py:171`) |
| `Threads!Grouped` | `Colon = {m1}` | a message without references in a mailbox with a colon in its name is not in its own thread (`types/thread.py:165`) |
| `Threads!AlwaysGrouped` | any | the ImapError of a lookup's SELECT is caught, and the message answered notFound as if it were gone (`types/thread.py:129`) |
| `Threads!AlwaysAsOfState` | any | without a search, the sweep for the state comes after the lookups (`types/thread.py:198`) |
| `EmailQuery!Exact` | `Cases <- BlankCases`, `ScopeCases` | criteria-less conditions and further `inMailbox` are dropped under OR and NOT (`types/email.py:473`, 366) |
| `EmailQuery!InOrder` | a key (`from`, say) that is not in `FetchedKey` | from, to and cc do not sort without the server's SORT (`types/email.py:527`) |
| `MailSync!MirrorComplete` | `Servers = {"plain"}` | without CONDSTORE nothing ever changes (`types/mailbox.py:127`) |
| `MailSync!MirrorComplete` | `Boots <- FirstQuery`, 1 mailbox, `Servers = {"qresync"}` | Email/query searches first and computes its state afterwards: a message delivered in between is in neither (`types/email.py:688`) |
| `MailSync!NewMailboxesToo` | 1 mailbox, `MaxChanges = 2` | the mail that is in a new mailbox when Email/changes first sees it is never reported (`types/email.py:747`) |
| `MailSync!NoPhantom` | 1 mailbox, 5 changes | a message reported after the sweep and expunged is not reported destroyed (`types/email.py:763`) |
| `DavState!MembersCurrent` | `MaxChanges = 2` | a get of members, and a query of events, reads its state last, so it may be newer than what it answers (`types/calendar_event.py:176`, 209) |
| `DavState!AllQueried` | `MaxChanges = 2` | a query of cards lists the address books, then reads the state: a book created in between is in the state and not in the answer (`types/contact_card.py:206`) |
| `DavState!NamesCurrent` | `MaxChanges = 2` | a name or a sync-token that could not be read is none, and nothing says so (`backends/caldav/client.py:92`) |
| `DavState!NothingMissed` | `Renames <- BothWays`, `MaxChanges = 4` | a collection renamed between changes and get, and back before the next changes, keeps the name in between at the client (`backends/caldav/sync_state.py:84`) |
| `Occurrences!Occurs` | `LateEdits = TRUE` | a component keeps the title it was made with, a change of the master's title then shows it as the occurrence's own (`backends/caldav/event_map.py:33` says so) |
| `Occurrences!Occurs` | `Mixed = TRUE` | `excluded` beside other keys is ignored, so `…/excluded: true` does not delete an occurrence that was changed before (`backends/caldav/event_map.py:647`) |
| `Occurrences!ExtrasSurvive` | any | a patch of one entry writes all components anew, without what the bridge does not convert (`backends/caldav/event_map.py:24`, 633) |
| `EventStore!AllResolvable` | `Moves <- Anywhere`, or 1 handler | a move there and back leaves the wrong redirect; a redirect is recorded for the id asked for only (`id_redirect.py:33`, `types/calendar_event.py:341`) |
| `EventStore!EditsKept` | 1 calendar, 2 handlers | the etag is read after the text, so another edit is overwritten (`backends/caldav/client.py:186`) |
| `MailboxNames!AllReachable` | any, or `Reuse = TRUE` | renamed with its parent, or renamed back, a mailbox is not found (`types/mailbox.py:379`, `id_redirect.py:33`) |
| `RequestBatch!FreshAfterErrors`, `AlwaysRemembered` | any | a set that fails in the middle leaves the cached sweep, and forgets what it created (`dispatch.py:265`, 272) |
| `RequestBatch!SameCallReferences` | 2 creation ids | a reference to a record of the same call is refused (`dispatch.py:258`) |
| `Submission!FailedUnsent` | any | a bad mailbox id in a patch fails the call after it sent (`types/submission.py:133`) |
| `Submission!NoneMissed` | any | submission does not follow redirects (`types/submission.py:29`) |

## 5. Fairness

Safety properties assume none. For liveness:

- `ServedIfArrivalsStop` (run `pool`): weak fairness of a woken task's retry, of the end of a connect
  attempt, of a command's end (sockets have timeouts) and of logout, and strong
  fairness of a body's end: a body issues finitely many commands and can end
  whenever none is running. Nothing is assumed of the sweep, of timeouts or of
  cancellation: the wakeups alone must do. Since the condition is not a queue
  that newcomers respect, and a leaked slot is not returned, the property is
  conditional on both.
- `SweepsComplete` (run `sweep`): LIST and the commands of chunks end, `gather`
  returns, and a task that waits takes a connection that stays free (what
  `ServedIfArrivalsStop` shows).
- `EventuallyTold` (run `push`): the loop runs the watcher's task when its sleep
  or thread is done, and a stream sends what is in its queue. That the server
  stays reachable is the property's hypothesis.
- `EventuallyComplete` (run `sync`): handlers go on running and the client goes on
  asking.
- `Converges` (run `dav`): a call's next request is answered, and an idle client
  asks again. Nothing is assumed of changes: they are finitely many.

## 6. Proofs

All are for arbitrary constants within the modules' named assumptions.

| Module | Theorems | Inductive invariant and argument |
|---|---|---|
| `ConnectionPool_proofs` | `TypeCorrect`, `Exclusive`, `PooledQuiescent`, `NoMaskedRotation`, `CountIsExact`, `Bounded`, `WakeupsSuffice`, `Implementation` | `TypeOK /\ Ownership /\ Slots`. `Ownership` says of each connection in which of the states idle, held, closing it is, with which password, and that one at rest runs nothing: the checked invariants say only parts of it and are not inductive apart. `Slots` equates the count with the tasks that hold slots, the idle connections and the leaks; its steps need cardinality lemmas. `Implementation` maps the tasks that hold a slot to `granted` and those in their body to `lease`: each action is a grant, a provide, a release or a stutter |
| `ConnectionPool_proofs`, of `Reading` | `AnswersAreExact`, `AnswersAreInOrder`, `PartsAreServed`, `ViewsAreTheSame`, `BlobsAreKept` | For every mail and filter, however deep, every sort, every MIME tree. A filter's three walks are shown to be functions of its nodes (`FindIs`, `GroupIs`, `MatchIs`); `Right` says of a node that, below it, the mailbox found and the search sent are together what the filter means, and by induction from the leaves to the root it holds of all (`RightStep`, `HitIsMatch`): the nodes below two conditions of an operator are apart (`SiblingsApart`), so at most one of them names the mailbox. One pass of the sort is stable (`SortByIs`), so that passes from the last key to the first sort by all (`ApplySortIs`). After k steps a walk over a MIME tree has come to k parts, each once, or is over (`Reached`); so both walks number all leaves, in the same order if no part is one that the BODYSTRUCTURE's walk does not enter (`WalksAgree`). `PartsInv` adds that an Email is a view of the message it was made of, and that what is at its UID is that message as long as the UIDVALIDITY is. `StagedInv`: the cache holds what was granted but for expired blobs, and `_total_bytes` is the size of what it holds |
| `ParallelSweep_proofs` | `SweepTypes`, `NoneKept`, `NoHoldAndWait`, `SweepsLease`; of `RequestBatch`, `SweepsAreFresh`, `CreationIdsLead`; of `Threads`, `ThreadsAreWhole`, `ThreadsAreAsTheirState` | `TypeOK /\ HoldersAreActive /\ Within`. `NoHoldAndWait` assumes `Cardinality(Request) < MaxPerUser`: if every request were blocked, only the handlers would hold connections, fewer than the pool has. Four requests and a cap of four show that the assumption is needed. `SweepsLease` says that handlers and chunks, cancelled and orphaned ones too, take connections and give them back only as `BoundedLease` allows, which `ConnectionPool` implements. For batches, `BatchIInv == Versions /\ Fresh /\ WillRemember`: a sweep the request keeps covers the last change that a successful set of the request answered for, and so does every answered state; what a `/set` in progress has made is what the creation ids will lead to once it ends. For threads, assuming that no mailbox has a colon in its name (`NoColons`; section 4), `ThreadsIInv`: a mailbox whose UIDNEXT is still that of its SELECT has at most as many messages as were counted then (`Counted`), so one that is as its status says has not changed since, for it cannot lose a message and come back. Of such a mailbox, and of each message that stayed, each step of the search finds and lists all that mention a root (`Searched`), which are all of a thread asked for, and nothing is listed with a thread not its own (`Listed`); what is left after the search is still to be looked up, or its lookup failed (`Sorted`) |
| `PushWatcher_proofs` | `WatcherTypes`, `OnePoller`, `NothingSkipped`, `NoStepBack` | `TypeOK /\ OnlyRegisteredWatches /\ InSync`. For `NoStepBack`, an action property, `OrderIInv`: what a stream was told, the payloads in its queue, what the watcher knows, what its poll has read and the mailboxes' own cursors follow each other in this order |
| `IdRedirect_proofs` | `ResolveStays`, `RecordKeepsTable` | about the operators: resolving never leaves a set of ids closed under the redirects, recording keeps one entry per id and the bound. Lemmas say what `Record` leaves while there is room (`RecordsEntryOf`, from the pigeonhole principle), that a chain is the least set that follows the redirects (`ChainWithin`, `ChainCloses`), has one end (`OneEnd`), has an end if no id is redirected to twice (`ChainEnds`), and which redirects keep it (`ChainKept`) or prolong it (`RecordLeads`). The theorems about objects that move rest on these |
| `EmailMoves_proofs` | `MovesTypes`, `NoMessageLost`, `IdsAreFaithful`, and with creates `NoMessageLostByCreates`, `IdsStayFaithful`, `CreatedIsThere`; of `Submission`, `DraftsSurvive`, `NothingSentTwice` | `TypeOK /\ Sound /\ SafeCopy`. `Survives` alone is not inductive: the one copy left may be about to be flagged. `SafeCopy` says that an undestroyed message has a copy that no handler is about to flag or expunge; `Sound` that ids, redirects and calls speak of one message. A create only adds messages at places nobody has yet (`NewCopyStep`, which deliveries rest on too), so the invariant holds beside creates. For `Created`, `HonestCreates` says of each create which of its mailboxes already have their copy, unless the message was gone by then, which its FETCH will find; it needs that what a place was given never changes (`Persist`) and that no two messages have the same Message-Id. For submissions, `SendIInv`: ids and redirects speak of one draft (`Placed`, `Led`), a handler past SMTP has sent its draft (`Sendings`), and while nothing fails a draft that was sent is reported so or is one handler's, who will report it (`DoneSent`, `SentDone`): without the last, a second send is one step away from a state where `SentOnce` holds |
| `MailSync_proofs` | `TypeCorrect`, `MirrorIsComplete`; of `MailboxNames`, `NoMailboxLost`, `IdsLeadRight`, `FirstIdsReach` | `TypeOK /\ Filled`: what each phase of a batch must already have read. `MirrorIsComplete` assumes that the client begins with Mailbox/query (`Boots \subseteq {MailboxesFirst}`) and that servers count changes (`"plain" \notin Servers`), and section 4 shows that both are needed. `MirrorIInv` adds to it that sweeps are not ahead of the server and that every message or change not yet at the client is newer than the cursor it holds, or is on the batch's list of what is still to fetch; and that a mailbox of the state string of which the client has no copies is gone, since the search after the first sweep met all others. `NoMailboxLost` and `IdsLeadRight` assume that no name is used twice (`~Reuse`; `boxes_reused` shows why): `NamesIInv` says that every redirect, held id and handler speaks of one mailbox, the last that had the name. `FirstIdsReach` also assumes room for a redirect of every name clients use (`Roomy`; the table holds 5000). `ReachIInv`: no name is redirected to twice, a redirected name is nobody's, and from each first id there is a way, of recorded redirects and of those handlers are about to record, that ends at the mailbox (`Ways`). A record may cut off the part of a way between the id asked for and the name it resolved to; no other way passes there, for a redirect into it would be a second one to the same name |
| `DavState_proofs` | `StateTypes`, `WhatIsNotNamedIsRight`, `CardsAreCurrent` | `TypeOK /\ Past /\ Followed /\ Pending /\ StateFirst /\ Shown /\ Unnamed`. Names and tokens only grow, so what is equal to what there is now was right all the time since it was read. `Past`: nothing read is ahead of the server. `Followed`: the client's names are not older than its cursors, for which `Pending` says that the get after a changes names all that changed and reads it later. Only what is said of names assumes `Forward` |
| `EventStore_proofs` | `EventSurvives`, `EventResolvable`; of `Occurrences`, `OccurrencesOccur` | `TypeOK /\ Onward /\ Survives /\ CopyAhead`, assuming that moves lead forward (`Forward`). A handler about to delete has a copy ahead, in a calendar later than the one it deletes from; without `Forward`, two opposite moves may delete each other's copy. `EventResolvable` assumes `Forward` and room for a redirect per calendar (`Roomy`): `ResolveIInv` says that, as long as requests have not overlapped and nothing has failed, at most one handler works and the chain of the first id climbs to the calendar the event is in, or to the one a handler is about to leave; what that handler has resolved still holds. `OccurrencesOccur` assumes `~Mixed` and `~LateEdits`, which section 4 shows are needed: what is stored, filled up with what is natural for an occurrence, is what its last patch made of it, and a patch of the whole map, of an entry or of a property commutes with that |

The modules of a client's reads are recursive on data: filters, MIME trees, lists of sort keys.
The library's induction theorems take an operator as parameter, which the provers cannot
instantiate, so `Induction` is stated of a set and proved from the pigeonhole principle
(`FS_Injection`): were k the number a property fails of, then "one less" would be an
injection of the numbers up to k of which it fails into themselves, but k is nobody's
image, and such an injection of a finite set cannot be. `InductionDown` and `Least` follow from it, and so does
`RecursionDown`, `RecursionUp`: a function defined by what it has at later places, or at the one before, exists, so that
the `CHOOSE` it is defined by finds it. Filters and messages are sequences of nodes whose
children come later, so induction on places is induction on trees; what makes a sequence a
filter or a message (`IsFilter`, `IsMessage`) is the assumption `ReadingConstants`, which TLC evaluates. The proofs about `Reading`
stand in the module of those about `ConnectionPool`, whose connections the reads use; the two
have no variable in common.

Where a property is stated for constants that satisfy an assumption, the run's instance
satisfies it too.

Only model-checked:

- liveness, which is out of the prover's reach: `ServedIfArrivalsStop`, `SweepsComplete`,
  `EventuallyTold`, `EventuallyComplete`, `Converges`.

Every safety invariant and action property of the passing runs is a theorem.

## 7. Not modelled

| Part | Why |
|---|---|
| Creates of events and cards, filters of their queries | a create is a change of its collection's token in `DavState`; CalendarEvent/changes and ContactCard/changes always refuse |
| Discovery of collections (`principal`, home sets), hrefs of WebDAV | fixed per server; a listing starts at its PROPFIND |
| The `newState` of Calendar/set and AddressBook/set | the `oldState` they answer is null, so the client of `DavState` takes its states from get and changes alone |
| Mailbox counts, roles, Mailbox/query | pure reads |
| Identities, session, errors, routing | constant answers and formatting |
| How the members of a collection are listed | a PROPFIND and a REPORT of cards are one read of `DavState`, as of the first: the state was read before either, so what the client gets is no older than it |
| Statuses that a WebDAV library turns into no exception | `delete_card` does not look at the DELETE's (`backends/carddav/client.py:330`), so a move goes on when it is refused (`DeleteRefused`); a refused destroy, which leaves the card as a failed one does, is answered as done |
| MIME that the IMAP server and Python's parser split differently for other reasons | broken or encoded multiparts: `EmailParts` has one tree for both, and the walks differ in what they enter |
| The `newState` of a set that follows a sweep in its batch | `RequestBatch` lets it be the cached sweep of before the set's changes, as it is (`types/email.py:1171`). `Fresh` is about the answers of later calls; an older state makes a client ask for more |
| Configuration and authentication | parsing; their outcome, the account and password, is an input of the pool |
| Keywords of creates, and the `\Seen` flag that a FETCH of RFC822 may set | no property modelled so far tells them apart |
| Other conversions: headers, participants, alerts, vCards (and patches of parts of their properties, `emails/k1`, which are ignored) | data without state |
| Deployment | containers and sample configuration |

## 8. Plan

Done, in this order: pool and lease, sweeps, push, redirects with moves of mail, mail
state, events and cards, mailbox names, request batches, submissions, queries,
calendars and address books, creates, message parts, threads, blobs, occurrences.

To model next:

1. `ConnectionPool` composed with `ParallelSweep`: whether the restarting acquire
   timeout lets four sweeps block each other for ever.
2. The patches of participants and alerts, in the manner of `Occurrences`.
3. Mailbox/query and the counts and roles of Mailbox/get.

To prove next: `TypeOK` of `EventStore` beyond what its theorems need.
