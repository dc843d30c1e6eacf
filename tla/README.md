# Redbox: specifications

TLA+ specifications of the core of Redbox (`apps/backend`, `apps/frontend`),
model-checked with TLC and, where noted, proved with TLAPS. Every definition
is a translation of source code; `PROJECT.json` maps it to its lines.

## The system

A NestJS backend (`apps/backend/src`) and a separate admin backend, built from
the same sources, share MariaDB (Prisma), Redis and an S3 store (MinIO). The
React frontend (`apps/frontend`) encrypts and decrypts in the browser and
downloads through a service worker. There are no unit tests in the repository.

| Component | State | Operations | Interacts with | Module |
|---|---|---|---|---|
| Uploads and files (`files/`) | Redis: `upload:meta`, `upload:s3`, `upload:active`, init lock, chunk lock; S3 multipart uploads and objects; `File` rows | initialise, chunk, finalise, cancel, delete, expiry cron, stale-upload sweep | sessions (master key), accounts (purge), rate limits | `Uploads` |
| Accounts (`users/`, `admin/users/`) | `User.status`, `UserRestriction`, `UserDeletionRequest`, `sessionKey` | request/cancel deletion, reactivate, suspend, restrict, ban, the crons that process deletions and expired restrictions | sessions (`sessionKey` rotation), uploads, mail and shelves (content deletion) | `Accounts` |
| Sessions (`auth/`) | `User.sessionKey`, Redis `masterkey:<user>`, tokens | login, refresh, logout, recover, change password | invites, accounts | `Accounts` |
| Sessions of administrators (`admin/auth/`, `admin/strategy/`) | `AdminUser.sessionKey`, `passwordHash`, tokens, the log of logins | login, refresh, logout, change password | every request of an administrator | `AdminAuth` |
| Invites (`users/`, `admin/invites/`), registration (`components/RegisterForm.tsx`) | `InviteCode`, `User.issuedCodes`, `User`; the form | generate, create, change, delete, redeem | accounts | `Accounts`, `Registration` |
| Mail (`mail/`, `admin/mails/`) | `Mail` rows and S3 objects, admin message deliveries | inbound, send, delete; admin send and recall | accounts | `Mail` |
| Mailbox page (`pages/MailPage.tsx`) | the list it shows; the event stream | load, switch folder, mark, move, delete | mail | `MailPage` |
| Rate limits (`common/rate-limit/`) | Redis counters and stream slots | consume, assert, clear; acquire and release a stream | nearly all controllers | `Limits` |
| Notifications | `SystemNotification` rows, in-process subjects, Redis channel, SSE | publish, list, stream, show, put away | frontend hooks | `Notices` |
| Bins, links | rows | create up to a limit, delete, expire, resolve | accounts, reports | `Shelves` |
| Blog | `BlogPost` rows, markdown in S3, audit log | create, update, publish, withdraw, delete | – | `Blog` |
| Reports (`reports/`, `admin/reports/`) | reports of contents and of bugs, attachments in S3, audit log | report, delete the content, ban, archive, reopen | shelves, uploads, accounts | `Reports` |
| Chunked upload in the browser (`components/upload/UploadFormPanel.tsx`, `services/FileService.ts`) | the upload in progress | init, chunks in order, complete, cancel on error or when the page goes | uploads | `UploadClient` |
| Sealing and opening (`FileService.ts`, `StreamingDownloadService.ts`) | chunks, frames, sizes | seal, cut a response into frames, open | uploads, download | `Transfer` |
| Download page (`components/download/DownloadCard.tsx`) | stage, metadata, password, destination | load, unlock, download, cancel, leave | files, service worker | `DownloadPage` |
| Download worker (`public/__redbox_download/sw.js`, `services/ServiceWorkerDownloadService.ts`) | sessions, waiting requests and active downloads of the worker; a stream and a message port per page | offer, request, start, write, complete, cancel, time out | download page | `Download` |
| API client (`api/apiClient.ts`, `context/AuthContext.tsx`) | tokens in `localStorage`, one renewal in flight per tab | request, renew, retry, log in and out | sessions | `Tabs` |
| Admin dashboard (`admin/dashboard/`) | storage snapshots | counts, growth, histories | all rows, read-only | `Dashboard` |
| Audit log, server logs, other pages | – | read-only | – | – |

What makes it hard: every handler gives up control at each `await`, over three
stores that share no transaction; clients disconnect and retry; the processes
restart; crons and handlers judge state they read earlier; locks in Redis
expire under their holders.

What makes each part correct:

- Uploads: a row has a whole object and an object has a row; the quota holds;
  one active upload per user; nothing a failure leaves behind stays for good.
- Accounts: the status agrees with the restrictions and requests it follows
  from; only an administrator ends what an administrator has begun; bans end and
  deletions happen.
- Sessions: a token is good for the password it was obtained with, a refresh
  token once; a restricted account has no master key; an administrator's session goes
  back to a login with his present password.
- Invites, registration: a code lets in as many as were granted; a user issues
  two; the log says of a code what it is; an account can be recovered with a phrase
  its owner has noted.
- Mail: a recall reaches every copy; rows and objects agree; the quota holds but
  for what arrives at once; a deleted user has no mail.
- Rate limits: nobody is admitted beyond the limit, nobody is refused for good, a
  slot comes back.
- Notifications, event streams: what a view shows agrees with the store in the
  end, whatever was lost on the way.
- Bins, links: the limit holds but for requests side by side; what has expired is
  gone, and a deleted account keeps nothing.
- Blog: a post has one object of the size its row says; the log says who brought a
  post where it is.
- Reports: whoever takes content away, for a report or for none, or bans is in the
  log; a report of a bug has its attachments and one that fails leaves none, but for
  what an answer that is lost makes of them.
- Download: a stream answers one request, a file that is cut short is not taken
  for complete, slots come back, and the page says what is true of its download.
- API client: no tab loses the session for the others but by what cannot be told.
- Dashboard: figures of one answer that count the same rows agree.

## Modules

### Uploads: the upload lifecycle

`Uploads.tla` follows one user, as every key and row does. Its variables are
the Redis keys (`meta`, `index`, `active`, `initLock`, `chunkLock`), S3
(`multipart`, `object`), the database (`rows`, `userRow`: the row lock
`SELECT ... FOR UPDATE` takes), the handlers (`req`), the sweep and the ids
handed out. A handler is a record with a program counter; there is one action
per await of `initializeUpload`, `handleChunk` (with
`UploadChunkConcurrencyGuard`), `finalizeUpload`, `cancelUpload`,
`deleteFileInternal`, of the admin's `deleteUserFiles`, `clearUserData` and
`deleteUserDataAndMarkDeleted`, and of `cleanupStaleMultipartUploads`. `Raise`
is every catch and finally block, `Continue` what follows a cleanup call;
`CallAbort`, `CallDelMeta`, ... are the calls those blocks share.

Abstractions:

- `uploadId`, `storageKey` and `s3UploadId` are created together and are one
  value, the upload. An ETag is the handler that sent the part. Names, passwords,
  expiry dates and the file key are left out.
- Times are one bit, "touched during the last hour" (`Age`). A Redis entry can
  expire only when it is not recent; a handler takes less than an hour (`Quiet`).
- Reads no other store can be changed between, for their only use, are one
  step: SMEMBERS with its length test, MGET with the SREM of dead members, the
  index entry with the metadata it points to.
- The master key check only rejects requests before they have an effect.
- A client knows an upload id only after `initializeUpload` has answered.

S3 is external and modelled from how the code uses it: aborting or completing
an upload S3 no longer has is an error; a part that arrives during an abort may
be kept, and `ListMultipartUploads` then still shows the upload; completing
needs every listed part with its ETag.

Runs (all bounds are in the `.cfg` files; two handlers are enough for every
hazard listed, each of which is a race of two actors):

| Run | Instance | Shows |
|---|---|---|
| `uploads_main` | `MCUploadsLoads`, two loads in one state space: 2 one-chunk uploads of which one fits the quota, no faults and no deletions; 1 two-chunk upload, all operations, S3 errors, disconnects, an init lock that ends under its holder. 2 handlers | `OneActiveUpload`, `QuotaRespected`, `StoresAgree`, `WholeObjects`, `NoStuckSlot`, `ChunksKept` |
| `uploads_reclaim` | 1 upload, a crash, lost answers, fairness | `Reclaimed` (`StaleReclaimed` and `SlotFreed`, which includes the init lock) |

The first upload decides which load a behaviour is (`OneLoad`). S3 errors leave
objects behind and disconnects let handlers of chunks overlap, so the second half of
`StoresAgree`, and `ChunksKept`, speak of the load without faults only.

Three more configurations of `MCUploads` end in a counterexample and are kept
for reference: `uploads_purge_race` (a purge leaves the object of a file finalised
meanwhile), `uploads_late_part` (the late part of a cancelled upload is not
aborted once more), `uploads_lock_expiry` (two active uploads when an
initialisation outlives its lock). The property each refutes is in `MCUploads.tla`
with the comment of the source it comes from. `DeleteRemovesObject` of
`Uploads.tla` fails too, with `Ops` `{"delete"}` and `Faults` `{"s3"}`: a file is
deleted although S3 refused to delete its object.

In `uploads_main` a chunk is 2 and the quota 3: the file of size 3 has a full chunk
and a shorter last one and fills the quota, two of size 2 exceed it. Handlers and uploads are
symmetric and the safety runs use it; the liveness run does not. `MaxCrashes`
bounds restarts: a crash can come at any point, and after it the stores hold
what any sequence of earlier steps has left.

Fairness (`FairSpec`): a handler that has started runs on (the event loop and
the clients' time-outs see to it), the cron job runs, time passes for every
upload even if requests keep touching it again and again (`SF Age`), and
metadata and the init lock, having a TTL, expire. Clients are under no
obligation to send anything.

What the properties do not hold for, and the runs leave out on purpose:
`NoStuckSlot` fails with a Redis error or a crash between the abort in S3 and
the deletion in Redis (`SlotFreed` says that it ends, a day later);
`NoDanglingRow` (the first half of `StoresAgree`) fails when Redis fails after the commit of the row, because the
catch block then deletes the object; `NoOrphanObject` (the second) fails with a crash
between completion and commit.

### UploadsProofs: what is proved

For any number of uploads and handlers and any sizes and limits:

| Theorem | States | Under which faults |
|---|---|---|
| `TypeCorrect` | `TypeOK` | any, any number of crashes |
| `RowLockHolds` | `RowLockInv` | any |
| `QuotaHolds` | `QuotaRespected` | any |
| `ObjectsAreWhole` | `WholeObjects` | any |
| `OneUploadIsActive` | `OneActiveUpload` | any but "slow" |
| `AcceptedChunksStay` | `KeepsChunks` on every step, so `ChunksKept` | any but "disconnect" |
| `RowsHaveObjects` | `NoDanglingRow` | "s3", "slow", "disconnect" (`Calm`) |
| `RowsAndObjectsAgree` | `StoresAgree` and `NoOrphanObject` | "slow", "disconnect"; no closing of accounts (`Orderly`) |
| `DeadUploadsAreCleared` | `NoStuckSlot` | "s3", "db", "slow", "disconnect" (`Answered`) |

Each fault left out does break the property, by a way the code leaves open: a
holder of the init lock that outlives its 120 s is joined by a second one
("slow"); a chunk whose client goes away loses its lock while its handler goes on
("disconnect"); after the commit a Redis error makes `finalizeUpload`
delete the object of its row, as does a commit whose answer is lost, and a database
error or a crash between the two halves of a deletion leaves the row ("redis",
"reply", "db", crashes); S3 refusing a deletion leaves the object, and closing an
account removes rows committed after their objects were listed ("s3", `purge`). A Redis
error or a crash between the abort in S3 and the deletion in Redis leaves the
slot taken until the sweep or the end of the metadata. In
`uploads_main` the load of u2 and u3 has them as guards (`NoFault`, `NoDeletion`).

The arguments:

- `QuotaRespected` is not inductive, since a commit adds a row by a sum read
  earlier. `RowLockInv` carries it: the transaction that holds the row lock is
  the only one between its SUM and its commit, and rows can only have gone since.
  To know which handler is in a transaction one must know where exceptions
  and cleanup calls take it, so `IInv` also has `TypeInv`, which says
  what a program counter implies of the rest of a handler (`Shaped`).
  Steps are `Outside` a transaction, end one (`Ends`) or are those of the sweep and
  the clocks (`Elsewhere`); each kind keeps `IInv` by one lemma.
- `IdsInv`: an id has a multipart upload, metadata, an object or a row only after
  its `initializeUpload`, of which there is one, and every other handler works
  on an id that was answered. It makes `CreateMultipart` harmless to whatever exists.
- `ScriptsInv`: what is left of a cleanup script is a tail of one of seven lists,
  and which one follows from where the handler is.
- `WholeInv`: a finalisation has the ETags of as many parts as the file has chunks,
  since `FinalizeStart` counts them in the metadata it passes on.
- `SlotInv`: whoever is past `iLock` holds the init lock, at most one upload
  is active, and what the holder has read of the active set still covers it
  (`Room`): others only remove from it.
- `ChunkInv`: a handler of a chunk holds its request lock, and between its two
  refreshes the metadata, while there is any, is what it has read.
- `RowsInv`: an upload is completed once; from then on it belongs to one
  finalisation (`Between`), then to its row, then to deletions, so none of the three
  meets another. `OrphanInv` adds who still owes an object a row or its deletion,
  and that rows are removed after their objects.
- `PastInv`: evictions and purges deal with uploads whose `initializeUpload` is past
  the steps they could disturb. `StartedInv`: what `initializeUpload` created is
  still there and too fresh for the sweep, unless a purge is about to delete it.
  `ClearInv`: an upload in the active set is `Clearing`, some handler being on its way to
  remove it, or `Settled`: S3 can abort it, it is indexed, and nobody is going to
  write metadata back after its removal. `NoStuckSlot` is the first half for the uploads
  S3 no longer has.

The assumptions are those of `Uploads`: sizes and limits are naturals, and `Total`,
the SQL SUM, is 0 on no row, grows by a row's size and is monotone.

### Accounts: status, sessions and invite codes of one account

`Accounts.tla` follows one account over three services that share its rows:
`auth.service.ts` with `internal-auth.service.ts` and `jwt.strategy.ts`,
`users.service.ts` and `admin-users.service.ts`. Variables: the `User` row
(`user`: status, session key, password), the unresolved `UserRestriction` rows
(`open`), the `UserDeletionRequest` rows (`request`), the `InviteCode` rows
(`code`) with `User.issuedCodes`, `masterkey:<userId>` in Redis (`masterKey`),
the token pairs and reactivation tokens clients hold (`tokens`, `tickets`), and
the handlers (`task`). `Arrive` starts a handler with its first read, `Sweep`
one of the two hourly crons with the list it reads, `Proceed` has one action
per later await. `Asserted` is `assertUserCanLogin`, which every login path
calls and which may itself lift a ban (`Reactivate`) or finish a deletion
(`Finalize`); `after` is the place such a call returns to.

Abstractions:

- A transaction is one step. The transactions of this code contain writes and
  no reads: they lock the `User` row and the index ranges of the rows they
  close until they commit, so two that overlap are serialised by MariaDB or one
  is rolled back, which `Fail` covers. What was judged before the transaction is
  in the handler's record, and may be stale.
- A password is its hash and the master key wrapped with it: both are written
  by the same statement. A token is the session key in it; the password and the
  `by` of a token, and the `stale` of a handler, are remembered for the
  properties alone and no guard reads them.
- Expiry is one bit of a ban, of a request ("due") or, for tokens and the
  master key, an action.
- An account exists from the start. Of registration only its effect on the code
  that is redeemed is part of this module; see `Registration`. Refused requests without effect are left out.
- The files, mails, bins and links removed when an account is deleted are not
  part of this module; see `Uploads`, `Mail` and `Shelves`.

| Run | Instance | Shows |
|---|---|---|
| `accounts_status` | 2 handlers that may fail or die at any await, 2 requests, logins, deletion, cancellation, administrators, sweeps | `StatusJustified`, `StandingHolds` |
| `accounts_requests` | `MCAccountsLoads`, two loads in one state space: 2 passwords, 3 session keys, all session operations; 3 codes, administrators, registrations | `LoginBindsPassword`, `RefreshOnce`, `CodesCounted` |
| `accounts_live` | liveness, 1 request, bans, both sweeps | `DueDeletionHappens`, `ExpiredBanLifted` |
| `accounts_cancelled_deleted` | a counterexample is expected | a cancelled request is processed |

Further configurations of `MCAccounts` that end in a counterexample, kept for
reference: `accounts_refresh_survives` (a refresh that overlaps a password change
keeps the old session alive), `accounts_masterkey_lock` (a master key stored for
a locked account; with `RotationDropsMasterKey` and `refreshToken` in their
places, a rotation that keeps it), `accounts_deleted_again` (a deleted account
gets another status), `accounts_code_races` (under `tlc -continue`: one code for
two registrations, a third code, a usable code of a locked account).

Bounds. Every hazard listed for this module is a race of two handlers, and any
number of handlers may follow each other, since a handler that has finished is
idle again. `randomUUID` never repeats, so a session key is drawn from those
nobody holds (`Unused`); when all `Keys` are held, rotations wait until a token
has expired, which removes behaviours but none of the interleavings of two
handlers, which hold two keys besides the current one. `MaxRequests` bounds the deletion
requests of an account's whole life (`RoomToRequest` guards the call; two, so
that two may be open at once), `Codes` the codes; three are the
limit and its overrun. Handlers and all session keys but the first are
symmetric; the liveness runs use no symmetry. The loads of `accounts_requests` are
told apart by the password the account has (`OneLoad`); in that of the codes the
owner logs in when no session is left and nothing else goes on. `accounts_status`
leaves internal logins, which are logins without a token, to `accounts_live`.

Fairness (`LiveSpec`): a handler that has started runs on (`WF Proceed`), tokens
expire, and the two crons run hourly, which gives them a turn again and again
however busy the process is (`SF`). Clients and administrators are under no
obligation.

What `StandingHolds` says and does not: nobody but an administrator ends a lock,
an unexpired ban or a deletion *unless the status has changed since the handler
started*. Handlers that were overtaken do end them: `accounts_deleted_again` and
`accounts_cancelled_deleted` show two of the cases.

### AccountsProofs: what is proved

For any number of handlers, keys, passwords, codes and requests, with or
without failures:

- `TypeCorrect`: `Spec => []TypeOK`;
- `StatusAlwaysJustified`: `Spec => []StatusJustified`;
- `LoginBinds`: `Spec => []LoginBindsPassword`;
- `RefreshWinsOnce`: `Spec => []RefreshOnce`;
- `InviteOverrunBounded`, `CodesAlwaysCounted`: `InviteOverrun`, `CodesCounted`;
- `StandingKept`: `Spec => StandingHolds`, the action property.

None of them but the type invariant is inductive. What a handler does next
rests on what it has read, so `IInv` describes every handler (`Good`): which
of its fields mean something at its place in the code (`Shaped`); that the
session key it read, as long as it is the stored one, belongs to the password
it checked (`Bound`), without which `LoginBindsPassword` says nothing about the
login that is about to sign; and that what it knows of the account's status is
still true unless it is marked as overtaken (`Informed`), which is what makes a
deletion, a reactivation or a ban it commits agree with the rows. `RowsOK` and
`HeldOK` do the same for rows and for the tokens clients hold, and `CountOK`
counts the handlers between the count of codes and the creation of one, by
which the limit can be overrun. The steps are sorted by what they write:
those that touch only the handler, Redis or tokens (`LocalStep`), those that
rotate the session key (`KeyStep`), those that change the status (`StatusStep`),
those that write codes (`CodeStep`) and the clocks (`TimePasses`); one lemma per
kind shows that the handlers that did not move are still `Good`. The only
assumptions are those of `Accounts` on its constants.

### Mail: mailboxes and one internal mail

`Mail.tla` is `mail.service.ts` where it stores and deletes mails,
`admin-mails.service.ts` and the part of `admin-users.service.ts` that deletes a
user's mails. Variables: the objects in S3, the `Mail` rows, the `InternalMail`
row with its attachment row (`message`), its `InternalMailDelivery` rows, the
users deleted (`gone`) and the handlers (`task`). `Arrive` starts a handler,
`Proceed` has one action per later await; a loop over `deleteMailRecordById`
(`FindMail`, `EraseMail`, `DropMail`) belongs to six operations, `AfterLoop`
says where it leads in each. `Thrown` sends an exception to the catch block of
`sendMail` that catches it; `Tolerant` deletions in S3 leave the object and go
on.

Abstractions:

- One internal mail per behaviour, sent to one user or to all, with or without
  an attachment; its recipients in any order. An external mail has one
  attachment. All sizes are one, so `Quota` counts mails.
- A mail is the id and the storage keys drawn for it. Read, archive and spam
  flags, folders, blocked senders, encryption, event streams, audit rows and
  read-only queries are left out.
- `Faults` says what may happen, each once: an error of any store at any call,
  the death of a handler's process at any await.
- `overlapped`, `abandoned` and `strays` are for the properties: no guard reads
  them.

| Run | Instance | Shows |
|---|---|---|
| `mail` | `MCMailLoads`, two loads in one state space: "internal", 2 users, 3 mails, 2 handlers, one error and one crash anywhere; "inbox", the same without errors, with mails that arrive and an account that is closed | `CopiesRecallable`, `RecallComplete`, `MailsWhole` (rows and objects agree), `OverrunBounded` |

`mail_deleted_user` (a mail that arrives during the final deletion is stored for
the deleted user) and `mail_recall_overlap` (a recall that begins during the
delivery leaves the later copies, and cannot be repeated) end in a
counterexample and are kept for reference.

Bounds. Two users are a recipient before and one after any failure or recall;
three mails are the two copies and an external one, or three that compete for a
quota of one. Ids are used again once nothing refers to them (`Fresh`). A third
handler would add overtakings of three, which no listed hazard is.
`mail` does not check for deadlock: all users may be closed and then
nothing arrives. A crash, and an error in the outer catch block of `sendMail`,
do leave copies no recall finds: `CopiesRecallable` says so.

### MailProofs: what is proved

For any users, mails and handlers, with errors and crashes anywhere:

- `TypeCorrect`: `Spec => []TypeOK`;
- `CopiesAreRecallable`: `Spec => []CopiesRecallable`;
- `RecallsAreComplete`: `Spec => []RecallComplete`;
- `OverrunIsBounded`: `Spec => []OverrunBounded`;
- `MailsAreWhole`: `Spec => []MailsWhole`, which speaks of the behaviours in which
  nothing has failed yet; the exceptions the code throws by itself are in them.

None of them is inductive. `MailInv` says where each handler can be (`Placed`: an
operation stays within its own awaits, and the locals it uses there are set), that
there is one sender of the one message and that it is at work while the message is
not told of (`OneMessage`, `DeliveredStored`), and then three things about the
handlers under way. `CopiesFound`: a copy without a delivery row is in the hands of
the sender that is about to record it, or on the list its catch block is about to
undo, or the sender has given up as `CopiesRecallable` allows. `RecallKnows`: the
list of a recall contains every delivery whose copy still stands, apart from those it
has been through, so that the mark it sets at the end is true. `RoomCounted`: mails
in a box beyond its quota are at most those that handlers counted side by side
(`External`, `Arriving`, `Pending`). There is one lemma per await, over
the kinds of step a handler can take (`GotoStep`, `FinishStep`, `ThrowStep`,
`BeginStep`, `DropStep`). `MailAssumption` only keeps the value `None` apart from
users, mails and rows.

`MailsWhole` needs a second one beside it, `WholeInv`. Of the mails (`MailsFound`):
whoever is storing one is alone with it until its row is there (`Alone`, from the
fresh UUID), and whoever is past a deletion in S3 has left nothing there (`Erased`),
a purge only of its own user's mails. Of the message (`MessageFound`): in each of its states
somebody answers for the shared attachment, its sender, the row, or a
deletion that has marked the row. The case that is not obvious is a `sendMail` whose
recipient deletes his copy meanwhile: its first catch block drops the message before
the second deletes the attachment, and the second gets there because it finds no
copy left to fail on (`Fits`). `MailsStep`, `DropMails` and `QuietMessage` are the
lemmas for the kinds of step.

### Download: a download through the service worker

`Download.tla` is `sw.js`, the page's side of it in
`ServiceWorkerDownloadService.ts`, and `startDownload` of `DownloadCard.tsx`.
Variables: the pages, their TransformStreams, the messages to the worker
(`posted`, in order per page, as `postMessage` delivers them), the worker's
reply on the port, the worker's maps `sessions` and `activeDownloads`, the
`waitUntil` promises (`lifetime`), and the browser's requests (`fetch`; the
worker's `fetchWaiters` are those that wait). Every handler of the worker is one
action, as it runs without an await; `Claim` and `Expire` are `claimSession` and
`expireSession`, which three handlers call. The browser is external: it
repeats a request (`Tries`), reads, ends a download when the stream ends or
fails, lets the user stop it, and may stop the worker at any time.

Abstractions:

- A chunk is one unit and written when the one before it has been read: a
  TransformStream has a queue of one. Fetching and decrypting are the choice
  whether to `Write` or to `Abort`.
- `destination.close` is one step: closing the writer needs no read, so no
  other task of the page comes between it and the completion message.
- Timers fire at any time while they are set, except that an active download
  with a beating page does not time out (`ActiveTimeout`: 5 minutes against a
  heartbeat every 15 seconds). A page frozen by the browser for longer is not
  modelled.
- Whether anybody learns that a tab or the worker has died is left open.

| Run | Instance | Shows |
|---|---|---|
| `download_worker` | 2 downloads of 2 chunks, 2 requests each, all limits 1 | `OneResponse`, `NoTruncatedFile` |
| `download_live` | 2 downloads of 1 chunk, one request each, fairness | `SlotReturned`, `RequestAnswered`, `EndReachesOther` (a failure reaches the browser, its cancellation the page) |

Bounds. The limits of the worker (4, 8, 4) are 1, so that two downloads reach
each of them; a second request of the same link is one that finds the stream
taken, and two chunks make a file that can be cut short. Neither run checks for
deadlock: a system in which every download has ended has nothing left to do.

Fairness (`LiveSpec`): messages, replies and requests arrive, timers fire, and a
response whose stream has ended is noticed by the browser. Neither the page nor
the browser has to go on: a user may leave a download alone, a server may stall.

### DownloadProofs: what is proved

For any number of downloads and requests, any length of the files and any
limits: `TypeCorrect` (`TypeOK`), `OneResponseOnly` (`OneResponse`),
`SavedIsWhole` (`NoTruncatedFile`), `WorkerKeptAlive` (`KeptAlive`) and
`LimitsHold` (`LimitsKept`), each as `Spec => []P`.

None of the five but the type is inductive. That a stream has one response needs
to know that a stream whose session is still in the map has none, and that it
cannot be put there again: the offer is the first message of its page and
arrives once (`Telling`). That the worker is kept alive needs to know that a page
cancels only when it has failed and reports completion only when it is complete,
since both messages let the worker go while a response may still be streaming.
`Good(d)` says this of one download and mentions no other, so that `Frame` reduces
every step but `WorkerStops` to the download it concerns.

The limits are the exception, as they count downloads. `LimitsInv` adds that the
three maps are finite, which `Downloads` itself need not be; `OfferGrows` and
`FetchGrows` show that these two handlers add one element at most and only below
the limit they have looked at, all other lemmas that nothing is added. Without
the second look at the limit in the fetch handler, `FetchGrows` fails. The only
assumptions are those of `Download` on its constants.

### Streams: rate limits and notices

`Limits.tla` is `rate-limit.service.ts` and its guard, one action per command on
Redis: INCR and EXPIRE of a request that passes its rules one after the other
(`Incr`, `Expire`), the look at a counter before a password is compared and what
follows it (`StartGuess`, `Compare`, `ClearAttempts`), the slots of an event
stream, which are taken in order, given back when one is refused (`Decr`) and when
the client leaves (`Leave`, `ReleaseKey`, `DeleteKey`). `Kill` ends the handlers that
are between two commands, while Redis keeps its keys, which the requests after the
restart meet; `KeyExpires` is the end of a
TTL. A key's counter and whether it has a TTL are all of it that is kept; `past`
is for the properties and read by no guard.

What a limit promises is `Window.tla`: while a window is open it lets in `Max` at
most, and it ends by itself. The counters implement it (`WindowsKept`, in
`MCStreams`, by the instances `OfRoute` and `OfAddress` with what was counted as
`used`), except for a counter whose deadline was lost to a kill between INCR and
EXPIRE, which the specification names as its one exception: such a window never
ends, and once it is full everybody is refused.

`Notices.tla` is a system notification from `createNotification` to the tabs that
show it: the committed row, the event that is handed to the streams of the same
process and published for the others (`Emit`, `Deliver`), the snapshot a stream
begins with, the lists a tab loads, and `useSystemNotifications.ts` with its merge,
its reconnects and what its user puts away. An event may never be sent, be refused
by Redis, arrive at a process that has lost its connection, or go down with its
stream; messages arrive in any order. `Board.tla` is the promise: a board shows
current notices that its reader has not put away, takes nothing else from what it
shows, and everything that stays current reaches who stays signed in. `BoardKept`
and `NoticeArrives` say that `Notices` implements it by a refinement mapping
(`Promise`): what has been lost on the way is made good by the periodic load.

| Run | Instance | Shows |
|---|---|---|
| `streams` | counters: 2 requests with 2 rules, 2 guesses and 3 streams of 2 users behind one address, in the combinations that share a counter, one kill; notices: 1 notice, 2 tabs, 2 processes, one broken stream or failed load | `SlotsAccounted`, `WindowsKept`, `SlotsReturn`, `BoardKept`, `NoticeArrives` |

Bounds. Limits are 1 and 2, so that two requests reach each; `MCLoads` lists which
of them run together. One notice is enough, since lists are merged notice by
notice, and two tabs share what is put away. A second break is like the first: the
tab loads and waits either way.

Fairness: handlers that have begun run on, keys with a TTL expire; the interval of
`useSystemNotifications` fires while the tab is signed in, a load that does not
fail is answered, what has been sent arrives and timers fire. No event has to
arrive. `SlotsReturn` and the end of a window rest on the first two,
`NoticeArrives` on the others.

### StreamsProofs: what is proved

- `SlotsHold`: `LimitsSpec => []SlotsAccounted`;
- `WindowsHold`: `LimitsSpec => Counter(k)!WindowSafety` for every key `k` that is a
  window: the counters implement the safety part of `Window`, step by step;
- `NoticesImplementBoard`: `NoticesSpec => BoardKept`, the refinement of `Board`.

A command on Redis changes one key and one handler, but `SlotsAccounted` speaks of
all handlers behind a key. `LimitsInv` adds where each stream stands between its keys
(`Placed`) and that a window has let in what its counter says at most
(`WindowsCounted`); the number of holders of a key then changes by the handler that
moves. After a `Kill` the keys stay with no holder: what was killed is accounted for
by `past`, until the key expires. For the refinement the invariant has to say, beside
the types, that a tab that has signed out shows nothing and has nothing under way
(`SignedOutQuiet`); each step of `Notices` then is a step of `Board` or leaves all
that `Board` mentions as it was. That windows end, slots return and notices arrive is
liveness and stays with the run.

### Content: blog, shelves, reports, registration, dashboard, administrators

Six modules that share no state with each other, except that `Reports` extends
`Shelves`. `MCContent` puts them into one run: its `scene` says which one a
behaviour is about, and nothing else changes in it.

- `Blog.tla`: `admin-blog.service.ts` over `blog.service.ts`. A request reads a
  snapshot, lets the service read the post again, writes the object, then the row,
  reads another snapshot and writes the audit log, one action each; two requests
  interleave, and a step may be refused or the server killed (`Mishap`), or the row
  of a new post be committed and the answer lost (`Unheard`): the catch then deletes
  the object of a post that exists. A text is its size; titles go with the row.
  `PostsWhole` names the three ways in which row and object come apart (`spoilt`) and
  says that there is no fourth; `PostsAudited` that the log accounts for every status.
- `Shelves.tla`: bins and links. The limit is counted (`Count`) before the row is
  written (`Create`, `Conflict` for a short code that is taken), rows are found and
  deleted in two steps (`Find`, `DeleteFound`), expire, and go with the hourly
  cleanup or with the account (`Purge`). A link's code is its row. Files are rows
  here, as far as reports need them.
- `Reports.tla`: reports of content and of bugs. `Resolve` and `File` create one;
  an admin deletes what was reported or bans its user (`Open`, `Snapshot`,
  `DeleteRow`, `Ban`, `Audit`), deletes a file of a user without a report
  (`DeleteUserFiles`, then the same `Snapshot` and `DeleteRow`, and no further entry),
  or archives and reopens the report (`Look`, `Decide`); `ClearTargets` is what the
  foreign keys do. `DeletionsAudited` compares the entries with who deleted what: a
  file has as many entries for its user as for reports and for no report together,
  the last counted by `direct`. The clearing of all data of a user is `Purge` of
  `Shelves`, which writes entries of its own kind.
  A bug report stores its attachments one by one (`PutAttachment`), creates its row
  (`FileBug`), and when S3 or the database fails (`FailBug`) deletes the objects it
  has listed (`UndoBug`). It lists an object when S3 has answered, so that a PUT
  that was performed unheard leaves an object no one deletes; and a row that was
  committed unheard (`row` is `"unheard"`) is one whose attachments the catch deletes.
  The server may be killed at any point, and S3 may refuse to delete any of them
  (what is left then is `stray`). `AttachmentsStored` says that these are the only ways
  in which a report loses an attachment or an object has no report.
- `Registration.tla`: the steps of `RegisterForm.tsx`, the recovery phrase, and
  `register` in its three awaits (`FindInvite`, `CommitUser`, `Registered`), while
  admins create, change and delete codes in two steps each. A recovery phrase is a
  number, and `noted` the phrases the visitor has on paper; a page may be reloaded
  while its registration goes on. Words and strength of passwords are left out.
- `Dashboard.tla`: the histories of `admin-dashboard.service.ts` as operators
  (buckets of a range, the cursor over rows in the order of their creation) and an
  answer that is put together from queries answered one by one while rows come and
  go. `person` holds the accounts that no query leaves out, those not DELETED. Time
  counts whole hours. `AnswersAgree` compares the cursor with a definition by whole
  days, and the figures of one answer with each other.
- `AdminAuth.tla`: `admin-auth.service.ts` with the two strategies that read its
  tokens. All sessions of an administrator share the key in his row (`account`); a
  request reads it in its guard and in its handler, one action per read and write,
  and `Exchange` alone compares and writes at once. A renewal reads the row again
  before it signs (`Reread`) and so hands out a key that a logout or a new password
  has set meanwhile: such a session goes on. `AdminSessions` names this one way
  (`late`) and says that there is no other; without it TLC shows a renewal that a
  logout overtakes. `log` and `ended` are for the property only.

| Run | Instance | Shows |
|---|---|---|
| `content` | 2 editors of 1 post, one mishap (also a committed post that is taken for refused); 1 user with 2 requests at limits of 1; 2 admins with 2 reports of one bin or one file, or none, one trouble; 2 bug reports of 2 attachments, two troubles (refusals, lost answers, kills); 2 visitors, 2 names, 2 codes of one use, 2 phrases, and 2 requests of admins; 3 accounts, 2 reports, 2 snapshots within 43 days; 2 requests of an administrator with 2 passwords, 4 keys and 2 logins | `PostsWhole`, `AuditTrue` (`PostsAudited` and `DeletionsAudited`), `ShelvesKept`, `AttachmentsStored`, `RegistrationsKept`, `AnswersAgree`, `AdminSessions` |

Bounds. Each hazard is one of two requests about one row. Two troubles let a bug
report fail and its clean-up fail as well, or both reports fail. Time jumps by 50 or 150
hours up to hour 1030, which crosses midnight, leaves a day out and passes both
the 7 and the 30 days of the charts. Visitors and names are symmetric. Nothing has
to happen, and everything may be used up, so the run does not check for deadlock.

### AdminAuthProofs: what is proved

`AdminSessionsHold`: `SpecAdminAuth => []AdminSessions`, for any number of
requests side by side, of passwords, keys and logins. `AdminSessions` is not
inductive: it says nothing of a request that is about to sign tokens. `Inv` adds
what such a request has read: the password of a login whose key is still the
row's (`LoginsHold`) and the login behind a renewal whose key is still the row's
(`RenewalsHold`), and that no key beyond those drawn is in any hand
(`KeysDrawn`), so that a new one ends everything at once. `NewKeyStep` is the
lemma for the three requests that draw a key, `JobStep` for those that only go on.

### ContentProofs: what is proved

For any requests, users, rows and limits:

- `ShelvesHold`: `ShelvesSpec => []ShelvesKept`, and `ShelvesHoldForAdmins`: the same
  under `ReportsSpec`, where admins delete rows and accounts as well;
- `AttachmentsHold`: `ReportsSpec => []AttachmentsStored`;
- `PostsStayWhole`: `BlogSpec => []PostsWhole`;
- `AuditHolds`: `BlogSpec /\ ReportsSpec => []AuditTrue` (`PostsAudited` and
  `DeletionsAudited`);
- `RegistrationsHold`: `SpecRegistration => []RegistrationsKept`;
- `AnswersDoAgree`: `DashboardSpec => []AnswersAgree`.

`ShelvesKept` allows an overrun by requests side by side and no other, so the
invariant (`ShelvesInv`) has to know that what a request counted can only have grown
by requests that counted before they could see it (`ClerksKnow`), and who took away
each row that is gone (`GoneBySomebody`). `ReportsInv` carries it through the steps of
the admins; `TasksKnow` says that what a handler will delete or enter in the log is of the kind
its operation says, and `FileTold` what the log says of one file, so that
each action is shown to change it for its own file only. `AttachmentsInv` adds that a
request which has not failed has all it has listed in S3 and has no row; `BugGoesOn`
is the lemma for its steps after the last PUT it heard of, each of which touches
objects of its own alone.
In `Blog`, `RequestsFit` says what each of the two editors holds in its hands
(object written, row not yet; row written, log not yet), `CreatorsAlone` that nobody
else can name a post that is being created, `GoneEmpty` and `ObjectsFresh` that ids of
deleted posts and keys of objects are not met again: with these, every request can
promise (`Promises`) in which way row and object will agree once it goes on.
`RegistrationInv` says what the three awaits of `register` have been told
(`RequestsTold`), that an account has redeemed a code that existed
(`AccountsHaveCodes`) and what the form holds between them (`InAtRest`).

`AnswersAgree` speaks of an answer that is complete, and each of its figures was read
at another time. `DashboardInv` says of those that were read what they say of the rows
there are now: they are off by no more than has changed since the answer was begun
(`AccountsRead`, `StorageRead`, `ReportsRead`), and records are in the order of their
time, none later than now (`Recorded`). A row that comes or goes moves every count by
at most one (`Moved`), at any time one may ask about, so that each change is paid for
by `changes`. What the cursor computes is known from `EndsAt`: it stands at c when the
records up to a time are the first c (`EndsOnce`: there is one such c). `CursorsFacts`
says so of each bucket, by `Induction` over the buckets, and `CountedByDay` that
counting by whole days comes to the same. `Induction` follows from `LeastElement`, as
in `BrowserProofs`.

### Browser: session, mailbox, upload, transfer, download page

Five modules about the code of the browser, put into one run by `MCBrowser` in the
same way; they share nothing here.

- `Tabs.tla`: `apiClient.ts` and `AuthContext.tsx` in two tabs that share
  `localStorage`. The requests of a tab share one renewal (`Renew`, `Renewed`), a
  request is retried once, and the server keeps one key per user, which a renewal
  or a logout changes (`ServeRenewal`, `Serve`). Tokens are numbers.
  `SessionKept` says when a browser that is logged in has a token it can go on
  with; what it excepts (`excuse`) includes two tabs that renew at once, where the
  loser logs both out, which the code cannot tell apart from a spent session.
- `MailPage.tla`: the list of `MailPage.tsx` against a box that changes. Lists are
  asked for by the page, by a folder and by every event (`Ask`), answered in any
  order and shown as they arrive (`Receive`); a request of the user corrects the
  list when it is answered (`Reply`). `ListTrue` says when the list is right, and
  so names the three ways in which it is not.
- `UploadClient.tla`: `handleUpload` of `UploadFormPanel.tsx`, one action per
  answer it waits for, with the file that can be dropped meanwhile, the panel that
  is left and the page that is closed. Two runs share `activeUploadIdRef`.
- `Transfer.tla`: `FileService.ts` and `StreamingDownloadService.ts` as an
  algorithm. A sealed byte is its chunk and place, a plain byte its place in the
  file; pieces of the network are of any size, and a response may be cut off or go
  on. `FileExact` says what a download is to write.
- `DownloadPage.tla`: `DownloadCard.tsx`, its stages, its password and its run
  (`Press` .. `CatchBlock`), against `getDownloadMetadata` and `downloadFile` while
  the file expires and is deleted. Every await of a run may throw, and throws once
  the signal is aborted. `Download` describes what becomes of the destination in
  the worker, `Transfer` what becomes of the bytes.

| Run | Instance | Shows |
|---|---|---|
| `browser` | 2 tabs, of which one has a single request under way, 3 pairs of tokens, one session ended elsewhere or by a logout, one outage; 2 mails, 1 request, 2 changes, 1 switch of folder, one loss; 2 uploads of 2 and 1 chunks, 2 losses; files of up to 5 bytes in chunks of 2, pieces of up to 4; 1 file, 2 refusals | `SessionKept`, `ListTrue`, `UploadsCancelled`, `FileExact`, `CardTrue` |

Bounds. Two requests of one tab share a renewal, a third would too; two tabs are
what a lost race needs. Three chunks with a short last one, in every order, and
pieces longer than a frame cover every way in which pieces and frames meet. Once
`excuse` holds `SessionKept` says nothing, and `Worthwhile` leaves those states
unexplored. The run states no fairness and does not check for deadlock.

### BrowserProofs: what is proved

One theorem for each module:

- `SessionIsKept` (`SessionKept`). Rests on `SessionInv`: while no excuse applies,
  the pair of the present key is in `localStorage` or on its way to a tab
  (`TokenKept`); a renewal is asked with the present pair, or another tab has been
  granted its own, which is the only way to be refused (`RenewalsTrue`); and an
  initial request that is repeated after a renewal is not refused again, or
  `initializeAuth` would remove the tokens that are good (`CallsTrue`). `Alone`
  holds in any case: an initial request or a login is the only request of its tab,
  so that its answer meets no renewal. For any number of tabs and of requests of a
  tab; the run has one tab of two requests and one of one.
- `ListIsTrue` (`ListTrue`). What the page shows is right because the list it
  received was: `ListFresh` says, once no event is on its way and nothing was lost,
  that the answer of the last list asked for, and the page once it has it, are the
  folder, and that a request of the user whose answer is still to come changes
  nothing of it: all it marks is marked. A change of the box goes with an event or
  leaves the page in the dark (`EmitOne`), so each action is either a `DarkStep`,
  asks for a list (`AskStep`), or changes nothing the list depends on
  (`QuietStep`); `Commit`, `Receive` and `Reply` are the three that are more.
  `IsFiniteSet(Mails)` is the theorem's assumption: `total` counts them.
- `AbandonedUploadsAreCancelled` (`UploadsCancelled`). An upload that is open is seen
  to by somebody (`Watched`): its run, the run's own cancel, or the cancel of a page
  that closes. That needs what the answer a run waits for says of the server
  (`AnswersTell`) and that the run's upload is the one in `activeUploadIdRef`
  (`RefHeld`). Assumes that `NoAttempt` is no attempt.
- `FileIsExact` (`FileExact`), for files, chunks, overheads and pieces of every size,
  in both formats. Rests on `TransferInv`: what is written is the file up to the end
  of the last chunk opened (`WrittenTo`), and, if the chunks are stored in order, the
  bytes still to come, from the frame at hand over the piece to what has not arrived,
  begin each chunk that is due where its frame begins (`Framed`). A frame that opens
  is then the chunk that is due (`OpenedIsDue`): in the second format by what was
  sealed with it, in the first by its first byte. `StoredTo` adds one chunk after the
  other; that it does what it says for any number of them follows from `LeastElement`,
  that a set of numbers which is not empty has a smallest one, and so does `Induction`
  over such a set.
- `CardIsTrue` (`CardTrue`). The stage decides what the card waits for (`MetaHeld`), whether
  a run goes on behind it (`RunShown`) and whether what it writes to is open
  (`TargetKept`); no assumption.

The bounds of the run (`MaxPairs`, `MaxChanges`, `MaxLosses`, `Refusals` and the
rest) are guards of the actions, and the theorems hold for every value of them.

## What stays with the model checker

- Liveness (`uploads_reclaim`, `accounts_live`, `download_live`, and in `streams`
  the end of a window, `SlotsReturn` and `NoticeArrives`): `WF`, `SF` and `ENABLED`
  are out of the prover's reach.

Every other property of a passing run is a theorem.

`TypeOK` of `Uploads`, `Accounts` and `Download`, `RowLockInv`, `InviteOverrun`,
`KeptAlive` and `LimitsKept` are proved and are not repeated in a run.

Where the code is known to break a promise, the property names the exception, so
that it says there is no other: `spoilt` and `lost` in `Blog`, `stray`, `cut` and a
row that is `"unheard"` in `Reports`, `late` in `Shelves`, `excuse`, `missed` and
`unwatched` in the browser's modules, `deadlineLost` in `Window`, `overlapped` and
`abandoned` in `Mail`.

## Plan

Every component with state of its own has a module, and every invariant and action
property of a passing run a theorem. Open are the hazards of `PROJECT.json` without a
property, each with its reason there.

## Not modelled

- Password hashing and encryption: only their place in the control flow, and which
  sealed chunk opens as which.
- Request validation that merely rejects, and queries that merely read: lists,
  search and sorting, the pages of a mailbox, the audit and server log views.
- Spam flags and blocked senders of the mailbox, avatars, the registration and
  probing of the service worker, runtime figures and health checks of the
  dashboard: they change a field or rows of their own, which nothing modelled
  depends on.
- Paused routes (`admin/routes/`): a list in memory which no request is checked
  against. How the address of a client is found behind a proxy (`client-ip.ts`).
- Rendering, deployment scripts and configuration.
