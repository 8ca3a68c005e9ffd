# Clewwiki: specifications, model checks and proofs

Clewwiki is a wiki in which people and AI agents write the same pages. Its central
promise is that no writer loses another's work: a page is written only under a
*claim* (a lease with a deadline), and people who edit together in a browser share
one *room*, which holds one claim for all of them.

This directory specifies the parts of the system on which that promise rests in
TLA+, checks them with TLC on small instances and proves the main results with
TLAPS for every instance. Paths below are relative to `src/`.

## 1. Inventory

`lib/` is `apps/web/src/lib/`.

| Component | State | Operations | What makes it correct | Here |
|---|---|---|---|---|
| Claims (`lib/claims/service.ts`, `ttl.ts`, sweep in `instrumentation.ts`) | `claims`, `claim_notes` rows | acquire, renew, release, force, note, lazy expiry, sweep, the check before a write | overlapping leases exclude each other; the base hash is current; notes live and die with the claim; a lapsed lease ends; ended is final | `ClaimProtocol`, `PageLease` |
| Page store (`lib/pages/service.ts`) | `pages`, `page_revisions` rows | create, update, move, move between spaces, delete a subtree, restore, pair | no lost update; no lease on a deleted page; a delete spares other people's leases; the tree stays a tree, its paths agree with its parents, pairs are mutual | `ClaimProtocol` (write, delete, restore under claims), `PageTree` (the tree) |
| Live sessions (`lib/collab/rooms.ts`, the route, `components/editor/collab/provider.ts`) | a map of rooms in one process, `page_collab_states`, every browser's document | join, leave, seed, update, save, idle pause, resume, reset, persist, close, restart | a session never undoes an outsider's write; the document is built once and by somebody; unsaved stays unsaved | `CollabRoom` |
| Reviews (`lib/reviews/service.ts`) | `page_reviews` | accept, revert | a decision is about the version the reviewer saw; a revert takes nothing newer along | `Review` |
| Imports (`lib/imports/service.ts`, `packages/import/src/tree.ts`) | `imports`, items | place, stage, edit, apply, cancel, delete, purge | every node has one place; no page is made twice; pages land where the reviewer put them | `ImportApply` |
| Discussions (`lib/discussions/service.ts`) | `discussions`, messages, decision pages | open, post, resolve, expire, delete | a thread is closed once; a decision by a person has a page and is never put down to the sweep | `Discussion` |
| Files (`lib/files/service.ts`, `sweep.ts`, `lib/imports/files.ts`, `packages/files`) | file and version rows, `file_blobs`, blobs outside the database | upload, restore, stage, carry over, delete, two sweeps | the bytes of every version are there; the quota holds; neighbours differ | `FileStore` |
| Members (`lib/members/service.ts`, `setup.ts`) | accounts, memberships, invitations | set up, invite, revoke, accept, change a role, remove | one administrator is always left; one person joins by a link; one founder | `Members` |
| Rate limits, audit sampling (`lib/rate-limit.ts`, `audit-sampler.ts`) | tables in memory | consume, sample, prune | forgetting an entry changes no decision and loses no count that is due | `Limits` |
| Spaces (`lib/spaces/service.ts`) | rows | designate a page, archive, restrict | a space designates a page of its own | `PageTree` (designation); the rest is read on each request |
| Presence, comments, mentions, inbox, anchors | derived rows, a table in memory | read and write of one row each | - | not modelled |
| Development streams and releases, repository mirror, skills, trackers, images, exports, sheets (`lib/dev`, `lib/repo`, ...) | rows of their own | see PROJECT.json | - | not modelled |
| Parsers and diff (`packages/content`, `packages/import`) | none | pure text functions | - | paths and placement as operators; the rest is data, not control |
| Sign-in, tokens, OIDC, REST, MCP server, web interface | sessions of a library | translate requests to services | - | not modelled: no protocol of their own |

**How they interact.** Everything meets in the `pages` row. `acquireClaim` locks it
(`select ... for update`), `runUpdatePage` locks it and then the claim's row,
`deletePage` locks the root of a subtree and then updates all of it. A room calls
`acquireClaim`, `releaseClaim` and `updatePage` like any agent, under the identity
`collab:<pageId>`; a revert does the same under the reviewer's. The sweep timer and
the room timers act on their own. Browsers talk to their room by `POST` and hear of
it by server-sent events. An import creates its pages through `createPage`, a resolved
discussion writes its decision page through `createPage` or `updatePage`, and files
are staged by imports and carried to pages: each of these is several transactions,
with other requests, or the end of the process, between them. The bytes of files are
outside the database, and accounts belong to the authentication library: no
transaction covers either, and the order of the steps is all there is.

**What is hard.** (1) Several transactions at READ COMMITTED between their row locks:
what was read before a lock is waited for may be stale after. (2) One process, many
handlers: everything read before an `await` may be stale after. (3) Clocks: leases
lapse while a request waits. (4) Death of the process or its connection between two
steps. (5) Streams that drop and come back with an old document. PROJECT.json lists
each hazard at its line.

## 2. Modules

| Module | Models | Extends / composes |
|---|---|---|
| `PageLease` | what claims promise: grant, end, write, delete, restore, each in one step, no clock, no locks | - |
| `ClaimProtocol` | the transactions that implement it | INSTANCEs `PageLease` under a refinement mapping |
| `ClaimProtocol_proofs` | inductive invariant, five safety theorems, `EndedIsFinal`, the refinement | `ClaimProtocol`, TLAPS |
| `MCClaims` | the page tree and symmetry of the small instances | `ClaimProtocol` |
| `CollabRoom` | one page's room, its browsers, its persisted row, the outsider | - |
| `CollabRoom_proofs` | its inductive invariant, three safety theorems | `CollabRoom`, TLAPS |
| `MCRoom` | symmetry of the small instances | `CollabRoom` |
| `FileStore` | the bytes of files, the rows that count them, the two sweeps | - |
| `FileStore_proofs` | its inductive invariants, five safety theorems | `FileStore`, TLAPS |
| `PageTree` | the tree of pages, pairs, designated pages | - |
| `PageTree_proofs` | its invariants for all interleavings and for requests in sequence, five safety theorems | `PageTree`, TLAPS |
| `Discussion` | threads, their deadline, their decision pages | - |
| `ImportApply` | placement, review and application of an import | - |
| `ImportApply_proofs` | placement for every list of nodes, its inductive invariants, three safety theorems | `ImportApply`, TLAPS |
| `Review` | accept and revert of what agents wrote | - |
| `Members` | setup, invitations, roles, removal | - |
| `Members_proofs` | its inductive invariants, four safety theorems | `Members`, TLAPS |
| `Limits` | the token bucket and the audit sampler | - |
| `Services_proofs` | an inductive invariant each, ten safety theorems | `Discussion`, `Review`, `Limits`, TLAPS |
| `MCServices` | the seven modules before, one of them chosen at the start of a behaviour | all seven |

### ClaimProtocol

`page`, `claim` and `note` are the tables; `now` is the application's clock; a member
of `Slot` is a request in flight, and `txn[t]` is its transaction. A transaction is
split exactly where another one can come between: after `new Date()` and before its
row lock (`Begin`), after it has locked and read what another request may still change,
and before it waits for another lock:

| Request | Steps |
|---|---|
| `acquireClaim` | `Begin`, `AcquireLock` (the page), `AcquireExpire` (waits for the claims that have lapsed on it), then `AcquireInsert`, or `AcquireHeartbeat` (waits for the claim) |
| `updatePage` | `WriteLock` (the page), then `WritePage` or `WriteRefused` (waits for the claim) |
| `deletePage` | `DeleteLock` (the root, reads the leases), `DeletePages` (waits for every row of the subtree), `DeleteCommit` (waits for the counterparts and unlinks them, ends the claims) |
| `restorePage` | `RestoreLock` (the page), `RestoreParent` (waits for the parent), `RestoreCommit` (waits for the rows removed with the page) |

Requests that lock one row, decide and commit are one step (`RenewClaim`, `ReleaseClaim`,
`PostNote`, the sweep). `Held` are the page rows a request has locked: the page it is about,
and `also`, what it has locked since. `PageFree` and `ClaimFree` are the row locks. Nothing a
transaction writes is visible before it commits: the claims an acquire is about to
expire wait in `txn[t].lapsed` and the rows a delete is removing in `txn[t].also`, and both
are lost if the request is refused or dies.

Deletes go down from a root and then to its counterparts, restores go up to a parent and
then down, so two of them can wait for each other. Such a ring is one of page rows, because
nobody who holds a claim's row waits for a page's. PostgreSQL looks for rings among those
who wait and rolls one request back: `WantsRows` is what a request waits for, `InRing` that it
is in a ring, `Victim` that it is chosen.

Abstractions, all of data or of detail that no property sees: section ids and hashes
are model values; `Subtree` is fixed (no moves while claims run); a restore may always be
refused, because the checks that its paths are free and its parent has not moved are about
paths, which are `PageTree`'s; pages have the counterparts of `FirstLink` until a delete undoes
them; the audit log, labels, presence and revisions are left out; the deletion timestamp is a
tick of the clock; any hash may be written, also the one the page has.

Abstractions of locking: a statement that locks several rows waits until all of them are
free and takes them at once (the order of rows inside one statement is the query plan's), and
`DeleteCommit` waits for the counterparts and the claims at once, which hides no ring since nobody
who holds a claim waits for a page. Moves and `linkPages`, which also lock one page after another,
are not in this module.

### CollabRoom

`room` holds every room object ever made and `live` the one in the server's map, so
a handler that goes on with an object that has left the map is visible. `req[t]` is a
handler between two awaits; `browser` is the provider's state in every tab; `row` is
`page_collab_states`; `claim` is the active claim on the page, held by the session or
by the outsider. Acquiring a claim is a step of its own (`AcquireClaim`), between the
code before it and the code that acts on the answer (`Greet`, `Apply`, `Held`,
`SaveHeld`, `HoldMismatch`). The write of a save is a step of its own too (`SaveWrites`),
between the decision whether the save covers the document and the code that notes
the result (`Saved`). Other database calls take effect with the code before or after
their await.

A Yjs document is the set of builds and edits in it, and merging is union: that is
what a CRDT guarantees, and two builds of one text remain two. A page is the set of
marks written into it since the start, and the set stands for its content hash.

`claim` may end at any moment (`ClaimEnds`): the model does not depend on `CollabRoom`
renewing in time, so what holds here holds for every outage. The claim service used
is the one `ClaimProtocol` shows to implement `PageLease`: one holder at a time, and a
base that is current.

A room that is live without a claim (its clock is just giving it back) refuses a save, as the
code does, and a late update sets the persist timer of a room that has left the map.

Left out: cursors, participants and names, sizes and limits (`MAX_ROOMS`,
`MAX_CLIENTS_PER_ROOM`, `MAX_STATE_BYTES`), saves of title or summary alone, typing while
offline, a stream replaced under the same client id, and two pages at once (rooms
share nothing but the limit). A room no handler can reach any more is wiped from the
model, which merges states that behave alike. `resetRoom` deletes the row without
awaiting; the model does it at once.

### FileStore

A content is kept once and has a row in `file_blobs`. `task[w]` is a request, or a
sweep, between two calls of the database or the store. What keeps bytes and rows in
step is an order: a writer locks the row (`Touch`) before it writes the bytes
(`Write`), a sweep locks the row (`SweepLock`, `OrphanClaim`) before it removes them
(`RemoveBytes`). The rows appear with the commit and the bytes at once, so
`AbortFile` leaves bytes behind, which is what the orphan sweep is for. `NameFree`,
`QuotaFree` and `RowFree` are the three locks. `unpaid` remembers contents whose row
`attachImportedFile` made for bytes that were gone: it does not look at the quota,
and such a row counts although nothing was admitted.

### PageTree

A page has its place twice, as a parent and as a path. A request reads and locks in
one step and writes in the next; row locks, the foreign key of the parent and the
unique index of live paths are guards. `overlapped` remembers whether two requests
have ever been under way at once: with two at once a parent read without a lock may
move, and the two records of a page's place come apart, so `KeptInStep` and
`SpacesApart` are stated for requests that came one after another, and `PairsMutual` for
all of them. `Sequential` is how many requests come alone before others may overlap.
`SetHome` looks the designated page up without a lock, as the code does.

### Discussion

A thread's deadline is `due`. `expireDiscussions` selects, then updates thread after
thread where it still is open (`SweepClose`), then selects what was resolved, and commits
(`SweepCommit`). Resolving is three transactions (`ResolveBegin`, `ResolveWrite`,
`ResolveMark`), the last of which has no condition on the status. A decision page that
is deleted, or moved to another space, is no longer there for the next resolution
(`DeleteDecision`).

### ImportApply

`PlaceNodes` is `orderForPlacement` and `placeNodes` of `packages/import/src/tree.ts`
over lists of nodes with arbitrary parents: missing, itself, in a ring. The order is a step
per node: next comes the least child of the latest node that still has one (`NextNode`),
which is the depth-first walk of the code; `Lost` is what no root leads to. A node is numbered
until nobody has its path. After `MaxAttempts` numbers (500 in the code) it gets a number made
from its source id (`Spread`), and, as in `tree.ts:107-110`, whether that path is taken is not looked
at. Names that themselves end in a number, and the cutting of long names that makes room for
one, are left out. A list of no nodes is not staged.

`createImport` is `CreateImport`, `StageRead` (place the nodes and compare them with the live
pages), `StageInsert` (the items), `StageDone` (the status, whatever it has become meanwhile) or
`StageFailed`. A reviewer edits items, decision and path in one edit or either of them; people create
and delete pages; and each apply is a process of its own: it checks, draws its page ids, and
writes an item per step. `repathed` are the nodes the reviewer has moved.

### Review

`revisions` is the page's history, `decided` its `page_reviews`. A revert is five steps, with
claims and writes of others between them. `viewed` is the newest version any reviewer has
looked at.

### Members

Accounts are the library's, so account, membership and claimed invitation are three
writes. `clerk[w]` is a request between two of them; `UndoAccount` and `Release` are the
code's own undoing, and `Release` also follows a sign-up whose address could not be marked
verified, which leaves the account. `robbed` remembers that an undo has deleted the account of
somebody who had become a member by another link meanwhile: the code deletes the
account without looking. Roles below administrator are one role.

### Limits

One key each. Beside the bucket stands one that is never pruned, and beside the sampler
what it has left unwritten, so that `SameDecision` and `BurstsCounted` can compare.

### MCServices

The seven services share no state, so a behaviour of all of them is an interleaving of
behaviours of each, and an invariant about one of them holds if it holds of that one
alone. `part` is chosen at the start and only that service moves.

## 3. Runs

Deadlock is not checked in any run: clocks, versions, claims and rooms are bounded, so
every instance stops in the end.

| Run | Instance | Shows |
|---|---|---|
| `claims_page` | 1 page with a section, 2 actors who may be administrators, 2 claims of 2 ticks, 2 hashes, 2 requests in flight, 3 ticks, versions to 2, requests may die | `TypeOK`, `Exclusion`, `LeaseBaseCurrent`, `NotesFollowClaims`, `EndedIsFinal` |
| `claims_subtree` | a page and its child, which are counterparts, the same with claims of 1 tick, 1 tick and 1 hash | `NoClaimOnDeletedPage`, and `Leases`: the protocol implements `PageLease` |
| `claims_liveness` | the same two pages, 1 actor who is no administrator, 2 claims, 2 requests, no writes, nobody dies, `FairSpec` | `LapsedEnds`, `LockHoldersFinish` |
| `claims_delete_race` | the same two pages, 2 actors, no administrators | violates `DeleteSparesOthers` |
| `rooms_restarts` | 2 browsers, 1 edit, 1 outside write, 2 rooms in succession, 1 handler at a time, 3 claim ids | `TypeOK`, `OutsideWritesSurvive` |
| `rooms_joins` | 2 browsers, no edits, 1 outside write, 1 room, 2 handlers in flight | `SomebodyBuilds` |
| `rooms_stale_document` | as `rooms_restarts`, browsers come back with their document | violates `OutsideWritesSurvive` |
| `rooms_built_twice` | 1 room, 2 handlers, nobody types | violates `BuiltOnce` |
| `rooms_unsaved` | 1 room, 2 handlers, 1 edit | violates `UnsavedIsDirty` |
| `services` | each of the seven services, two requests in flight; the bounds are below | 26 invariants |
| `pages_cycle` | `PageTree`: 3 pages, 1 space, paths of 3 names, 2 requests that may overlap at once | violates `NoCycle` |
| `imports_moved` | `ImportApply`, as in `services` | violates `LandsWhereReviewed` |

What `services` shows, service by service:

| Service | Instance | Invariants |
|---|---|---|
| `FileStore` | 2 contents, a quota of one, 1 name, 3 versions | `FilesTypeOK`; `BytesThere`: no version or staged import ever misses its bytes; `RowThere`: nor its row; `QuotaKept`; `VersionsDiffer` |
| `PageTree` | 3 pages of which one is yet to be made, 2 spaces, paths of 2 names, 3 requests of which the first 2 come alone | `TreeTypeOK`; `PairsMutual`; `KeptInStep`: path and parent agree; `SpacesApart`: neither pairs nor designations span spaces |
| `Discussion` | 1 thread, 2 messages, 2 decision pages | `ThreadTypeOK`; `ClosedOnce`; `PersonWroteIt`; `DecisionWritten` |
| `ImportApply` | every list of up to 3 nodes placed, and 4 nodes of one name, with 2 numbers to try, so that they run out; a page with one below it reviewed, edited once and applied twice | `ImportTypeOK`; `PlacedWell`; `CreatedOnce` |
| `Review` | 2 reviewers, 2 bodies, 4 revisions | `ReviewTypeOK`; `RevertSparesBodies`; `UnseenStaysPending` |
| `Members` | 2 people, 2 invitations | `MembersTypeOK`; `LastAdmin`; `OneAccountPerLink`; `FoundedOnce` |
| `Limits` | 2 tokens, windows of 3 ticks | `LimitsTypeOK`; `SameDecision`; `BurstsCounted` |

**Why these bounds are enough to be interesting.** Every hazard of the claim service is a
race of two requests over at most two claims, one of which has lapsed: two slots and two
claims reach all of them. In `claims_page` a lease is two ticks long and the clock has three, so
a renewal moves a deadline forward, a lease lapses while a request waits, and one that was
extended lapses again. Leases of different lengths side by side take the run beyond a few
minutes; the theorems are for all lengths. Sections matter only against
the whole page, so one is enough. Making every actor an administrator only adds
behaviours; where it would hide something (`claims_delete_race`, liveness) nobody is one.
Liveness is checked without symmetry and without a bound on the length of a behaviour, which
takes more room: one actor asks for everything, two claims make the sweep and the requests
contend for claim rows, and two pages that are parent and child and counterparts make the rings.
Writes are left out of that run: a write waits for a claim's row with a page locked, as a
heartbeat does, and commits with it, so it adds nothing to wait for that is not there already.
Two actors, or writes, take more than a few minutes.
In the rooms, one outside write and one edit tell old text from new, and a second room
is what a stale document or a stale row needs. With two handlers *and* two rooms *and*
edits the state space outgrows a run of a few minutes, so handlers that interleave are
explored in one room (`rooms_joins` and the two violations) and successive rooms with
one handler at a time, against an environment that may act between any two of its
steps. What no run explores, several handlers and several rooms at once, the theorem
`OutsideWritesAlwaysSurvive` covers for any number of both.

In the services every hazard is a race of two requests, or of one and what happens in its
pauses, so two requests are enough; two contents tell a version from its neighbour and
fill a quota of one; three pages make a subtree and a place beside it; a third revision is
what a stale revert needs, and a fourth follows it. A fixed list of two nodes is reviewed
and applied, because an edit multiplies by every place a node may have.

**Fairness.** `FairSpec` asks strong fairness of every step of a request that holds a lock
(`Proceed(t)`) and of the sweep, and weak fairness of `Victim(t)`: a ring of requests that wait for each
other lasts, and PostgreSQL looks for rings after `deadlock_timeout`. Without the last,
`LockHoldersFinish` fails: the rings are real. PostgreSQL queues those who wait for a row lock in order, so a lock that is
freed again and again reaches everyone who waits: that is strong, not weak, fairness of
the step that needs it. The sweep is a timer that keeps firing, and its update waits in
the same queue. Nothing is assumed of requests being *made*. In this run requests
do not die (`Faults = FALSE`): a dead connection frees its locks, which only helps.

### Findings

1. **A delete can end somebody's live lease** (`claims_delete_race`, `lib/pages/service.ts:1474`).
   The leases of the subtree are read under a lock of the root alone; a claim on a page
   below can commit between that read and the update.
2. **A browser can seed a new room with the old text** (`rooms_stale_document`,
   `provider.ts:215`). After a restart, or when the last stream drops, an agent may
   write the page before the browser's stream is back. The new room starts from the new
   version, takes the browser's document of the old one as its content, and the next
   save passes the base check and undoes the agent's write.
3. **The document can be built twice** (`rooms_built_twice`, `lib/collab/rooms.ts:558`).
   Who may seed is checked before the claim is awaited and not after.
4. **An edit can be marked saved that is not** (`rooms_unsaved`, `lib/collab/rooms.ts:705`).
   Whether a save covers the document is decided before its awaits and acted on after.

5. **Two moves can make a ring of pages** (`pages_cycle`, `lib/pages/service.ts:1020`).
   Each looks at its new parent without a lock, and finds it nowhere below. In the run `/b` moves
   below `/a/b` while `/a` moves below `/b`: the ring goes through the page `/a/b` between them. Two
   pages that move directly below each other do not make one: the foreign key locks the parent's
   row, which the other move holds, so both wait and the database refuses one.
6. **An imported page does not land where its reviewer moved it** (`imports_moved`,
   `lib/imports/service.ts:625`). The page planned for the item's parent node decides, and
   the reviewed path gives the last name only.

`OutsideWritesSurvive` *passes* in `rooms_restarts` with `Reconnect = FALSE`, where a
browser whose stream drops has been loaded again: that is the part of the promise the
base hash, the reset and the base of the persisted row do keep, and finding 2 is
the one way round it that the model has.

### Met while modelling

What the code does that its comments or its schema do not say, without a run of its own:

- *Claims.* A renewal takes its time before it waits for the claim's row. So a lease a delete has
  seen past its deadline can be extended by a renewal that came in time, and is then ended by
  that delete, also on the page the delete names (TLC, one page, 10 steps): a second way to finding 1.
- *Tree.* A page created or moved below a parent that moves or is deleted meanwhile keeps a path
  out of step with its parent, though `schema.ts:480-484` says that the two are "kept in step inside one
  transaction": each is written in one, and what it was computed from may have changed before. `updatePage` does not look at how deep a move takes the
  pages below. Changing a page's kind through `updatePage` can pair two pages of one kind.
- *Reviews.* A revert compares hashes of bodies, so a write of the title alone is taken
  along. A revert that lands after another reviewer's accept undoes what was accepted. Its
  review row has the space the page was in when it was read.
- *Discussions.* A sweep can close a thread somebody has just posted to, or delete one
  just resolved again: it looks at the status again, not at the deadline. Two resolutions at
  once make two decision pages; one of a thread deleted meanwhile leaves its page.
- *Imports.* Cancel and apply overwrite each other's status; a process that dies leaves the
  import running. Two edits at once can give two items one path, and two applies after an
  edit of a parent can make a child twice, which is why `CreatedOnce` asks for
  `repathed = {}`. Nodes in a ring are placed and then fail one by one; but with a decision to
  overwrite and three applies the pages of an earlier apply stand in for missing parents, and
  a node of a ring can be made twice (TLC, 17 steps). `CreatedOnceAlways` excludes rings. Of more than
  500 nodes of one name below one parent two may be placed on one path (an import may have 5,000);
  `schema.ts:893` says of a path "unique within the import", and no index sees to it.
- *Members.* Two invitations at once leave two live links. The undo of a failed acceptance
  deletes the account also when it has meanwhile joined by another link (`robbed`). A
  process that dies between sign-up and membership leaves an account without one, and so does an
  acceptance, or a setup, that cannot mark the address verified: it hands the invitation back, and
  the account stays.
- *Files.* `attachImportedFile` makes rows without looking at the quota (`unpaid`).
- *Limits.* Both counters use the wall clock, which may run back.

## 4. Proofs

`ClaimProtocol_proofs` proves, for every set of actors, pages, sections, claims and requests
in flight, every page tree and every clock, with and without faults:

- `TypeCorrect`, `MutualExclusion`, `NoLostUpdate`, `NotesLiveWithClaims`, `NoOrphanedClaims`:
  the five safety invariants, from `Invariant`;
- `EndsOnce`: the action property `EndedIsFinal`;
- `Implements`: `Spec => Leases`, the refinement of `PageLease`.

The only assumption is `ConstantsAssumption` of `ClaimProtocol`: administrators are actors,
a page is in its own subtree, leases are at least a tick long, and `None` and `Whole` are not
confused with data.

**The inductive invariant.** `Exclusion` is not inductive: an insert is safe only because
of what its transaction read a step earlier. `IInv` adds `Committing`, what a request may
rely on while it holds its locks:

- `LocksExclusive`: no two requests hold one page's lock;
- `SeenIsCurrent`: the page row is still what the request read, and live, or deleted for a restore. This is what
  makes the base hash of an inserted claim, and the version of a write, right;
- `LapsedAreHeld`: the claims an acquire is about to expire are still active, and no other
  request is about to expire them. This keeps an ended claim from ending again;
- `TakingIsSafe`: the id about to be inserted is unused and reserved, and every active
  claim that overlaps it is among those its own commit expires. `Exclusion` follows at the
  insert.

`IInv` is proved initial and inductive with one lemma per action (`RenewIInv`, `InsertIInv`,
...). `LettingGo` and `EndingIInv` carry the parts shared by all steps that end claims.
The refinement reuses `IInv`: each step of the protocol is a step of `PageLease` or a
stutter, and only commits are not stutters.

### CollabRoom_proofs

For any number of browsers, edits, outside writes, rooms, handlers and claims. The
assumption is `RoomAssumption`: `None` is no room, browser or claim, and what is typed in the
session is not an outside write.

- `RoomTypeCorrect` (`TypeOK`), from `Typed`, which ties each step of a handler to what it
  then carries: past its load a request has a room, a reset has a reply.
- `SomebodyBuildsAlways` (`SomebodyBuilds`), from `Made` and `Seats`. `Made` says that whatever
  refers to a room refers to one that was made, so a new room is nobody's before it is
  live. `Seats` says who sits in the live room: every client reads it or is on its way in,
  every reader is a client, and a browser joins once at a time and reads nothing while it
  does. So the job of building is never left with a client that has gone.
- `OutsideWritesAlwaysSurvive` (`OutsideWritesSurvive`), for `Reconnect = FALSE`; with
  `Reconnect` finding 2 refutes it. `Texts` says that a document, wherever it is (a room, the
  row, a request, a browser of the live room), was built from texts with the same outside
  writes as the text its room or row is based on. A save is then sound by the base hash:
  the page still is what the base says, and what is written has its outside writes.

### FileStore_proofs

For every set of contents, names and requests, and any quota and number of versions:
`FilesTypes`, `NothingReferredToIsGone` (`BytesThere`), `NothingReferredToIsAnOrphan`
(`RowThere`), `NeighboursDiffer` (`VersionsDiffer`) and, if there are finitely many contents,
`QuotaHolds` (`QuotaKept`). The assumption is `FileStoreAssumption`: the bounds are naturals.

`StoreHolds` proves `StoreInv`, which adds to the two properties what a request knows
while it holds a row's lock: no other has it (`LocksApart`); what it is about to add is
in the store (`ReadyIsThere`); what a sweep is about to remove is referred to by nobody
(`SweptIsFree`). The last needs the first: a writer that would refer to a content has its row. `NamesInv`
adds that one request at a time has a name and that what it adds differs from the latest
version, unless the file is gone by then; `QuotaInv` that one request at a time is between
its look at the quota and its commit, and that there is still room for it.

### Members_proofs

`MembersTypes`, `NeverWithoutAnAdmin` (`LastAdmin`), `OneFounder` (`FoundedOnce`) and
`OneJoinsByALink` (`OneAccountPerLink`), for every set of people, invitations and requests. The assumption is
`MembersAssumption`: `"none"` is nobody. `RolesHold` adds that one request at a time is
changing or removing a member and that, as long as it is, somebody else stays an
administrator, and that one is setting up; `LinksHold` that an invitation somebody has
claimed, joined by or is about to join by has been accepted, and by one of them only.

### PageTree_proofs

For any pages, spaces, names, depth and number of requests, and any first pages that are a
tree in one space (`TreeAssumption`, `FirstAssumption`):

- under any interleaving, `TreeTypes` and `PairsArePairs` (`PairsMutual`). `TreeHolds` proves
  `TreeInv`, which adds that a page that is there has a name and a space and that a page being
  created is not there yet and is created by one request only: otherwise an insert could
  replace a page that others are paired with.
- as long as requests come one after another, `TreeStaysInStep` (`KeptInStep`) and
  `SpacesStayApart` (`SpacesApart`), and `NoRingOneByOne`: no page is below itself by its parents,
  the deleted ones included, so that finding 5 needs two requests at once. `OneByOneHolds`
  proves `OneByOne`.

`KeptInStep` is not inductive. A restore brings back pages with the parents they had, so
`Shape` says of deleted pages too that all that one delete removed is still the tree it was
(`GroupsIn`): each of them is right below a page removed with it, or all others are below it.
A request writes what it found a step before, so `Fits` says that is still so, which holds
because no other request is under way. The heart is `SubtreesAreParents`: where paths are
unique and every parent is right above, the pages that a prefix finds are those the parents
lead to. So a move takes children along with their parents, a delete removes no parent
without its children, and a restore, `RestoreShape`, leaves nobody behind whose parent comes back.
The lemmas about paths (`BelowByOne`, `RebasedIs`, `RebasedAbove`) come first. `NoRingOneByOne` adds
`ParentsOutlive`: the parent of a deleted page is live, or was deleted later, or with it and
right above. In a ring the live pages, or else those deleted last, would each be right below
another of them, and one of them has the shortest path.

### ImportApply_proofs

For any titles, appliers, number of nodes and edits and any limit of depth of two or more
(`ImportAssumption`).

`StagedPlaces` is about the algorithm alone: for *every* list of nodes, and whatever `MaxAttempts` and
`Spread` are, `PlaceNodes` gives each node one place within the limit, under its parent's path unless
the limit cuts it or its parents go in a circle. Two nodes have one path only if that path
is `Crowded`, that is if all `MaxAttempts` numbers are taken for its name and place by nodes of
the list; with no more nodes than numbers every path is its own. It goes by the least number of steps at which
it would fail. `OrderWell` shows that the order is a permutation (nothing twice, and as many
as there are nodes) in which a node with a root comes after its parent, because `Lost` is the
largest set closed under parents; `NumberLeft` that of more numbers than there are nodes
placed one is free.

- `ImportTypeCorrect` (`ImportTypeOK`) and `PlacementAlwaysWell` (`PlacedWell`), from `ImportTyped` and
  `PlacesOK`: the items stand where they were placed until one is given another path.
- `CreatedOnceAlways` (`CreatedOnce`), from `InPlace`: as long as nothing has been moved, the
  items an apply goes by are those of the import, a page of the import has the path of its
  item, and a planned page is a new one or was at that path before. So the parent's page, when it is there,
  is at the parent's path, `createPage` is asked for the item's path, and the page of an
  earlier apply is already in the way. The hypothesis `NoRings` says that no list that is
  reviewed has parents in a circle; section 3 tells what happens with one.

### Services_proofs: Discussion

`ThreadTypes`, `SweepsCloseOnce` (`ClosedOnce`), `SweepsSpareDecisions` (`PersonWroteIt`) and
`DecisionsAreWritten` (`DecisionWritten`), for any threads, decision pages and requests. `ThreadsHold`
proves `ThreadInv`: a sweep that has closed a thread and not committed holds its row, alone,
and the thread is still open; a thread that is open was never closed and has no decision
page; a request that is to mark a thread has written the page it will name. The
assumption is `DiscussionAssumption`.

### Services_proofs: Review

`ReviewTypes`, `RevertsTakeNothingNewer` (`RevertSparesBodies`) and `NothingUnseenIsDecided`
(`UnseenStaysPending`), for any reviewers, bodies and number of revisions. `ReviewsHold`
proves `ReviewInv`: every revision spares what is newer, what a reviewer is looking at and
what has been decided is no newer than `viewed`, and a baseline is older than the version
looked at. A revert keeps it because its claim started from the body that was looked at and
is still the page's when it writes; an acceptance because it ends at the version looked at.
That a baseline is older than what is reverted uses the least element
of a set of naturals, from the well-founded induction of the library. The assumption is
`ReviewAssumption`.

### Services_proofs: Limits

`LimitsTypes`, `ForgettingChangesNothing` (`SameDecision`) and `CountsReachTheNextRow`
(`BurstsCounted`), for any capacity, window and number of events (`LimitsAssumption`: they are
positive). A bucket acts by its level alone, ticks and requests turn equal levels into equal
levels, and a bucket idle for a window is full: pruning is a no-op on levels. `EntryOK`
carries the sampler: an entry that is there agrees with what was left out, one that is gone
has been idle for two windows.

**Only model-checked.** Liveness (`LapsedEnds`, `LockHoldersFinish`), which is beyond the
prover. What the six violations refute has no theorem either, of course.

## 5. Not modelled, and what could follow

Not modelled: the order of siblings and generated names of pages; space membership and
visibility, which are data read on each request; comments, mentions, inbox, anchors and
presence, whose operations write one row each and rely on nothing a step earlier;
development streams, the repository mirror, skills, trackers, images, exports and sheets,
which keep rows of their own beside the pages; parsing,
diffing and rendering, which are pure functions of unbounded text; REST, the MCP server and
the web interface, which translate requests; sign-in, tokens and OIDC, which belong to a
library.

Liveness of the session is not stated: every connected browser becomes ready, and a room
nobody is in gives its claim back. Two hazards of PROJECT.json wait for it.
