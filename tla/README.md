# ClipShare in TLA+

Specifications of [ClipShare](../src/README.md), a self-hosted server for short
video clips with a desktop client, and what has been checked and proved about
them. The code has no tests; nearly everything that can go wrong in it goes wrong
between two statements, and that is what the models are made of.

1. [The system](#1-the-system): its parts and what is hard about them
2. [The modules](#2-the-modules): how state and actions correspond to the code
3. [The runs](#3-the-runs): what TLC checks, within which bounds
4. [Where code and documents part](#4-where-code-and-documents-part)
5. [The proofs](#5-the-proofs)
6. [What is not modelled](#6-what-is-not-modelled)
7. [The plan](#7-the-plan)

To repeat a run: `tlc -config ClipLifecycle.cfg MCClipStore.tla` (the module of
each configuration is in the table of section 3); to repeat the proofs:
`tlapm ClipStoreProofs.tla`, and likewise for the other `*Proofs` modules.

## 1. The system

```
 desktop app                      api server (one process)              stores
 +--------------------+  HTTP     +----------------------------+        +----------+
 | React frontend     |---------->| middleware.RequireAuth     |--SQL-->| Postgres |
 |  useAuth, Editor   |  device   | handlers: auth, clip,      |        +----------+
 | Go: main.go        |  token    |           instance         |
 |  keyring, config   |  or JWT   | services                   |--S3--->+----------+
 |  media server      |           | repositories               |        | RustFS   |
 |  ffmpeg            |           +----------------------------+        +----------+
 +--------------------+                     ^
 browser of a visitor  ---- /s/:code, /s/:code/video, comments
```

Fiber gives each request a goroutine. Handlers share nothing in memory: all
interaction on the server is through rows and objects. No handler opens a
transaction, so one SQL statement, or one call of the object store, is the unit
of atomicity, and a handler that returns an error keeps whatever it had done.
The schema helps in a few places (UNIQUE, ON DELETE CASCADE, one conditional
UPDATE); everything else is check-then-act.

| Component | State it keeps | Operations | What is hard | What makes it correct |
|---|---|---|---|---|
| **Invites, users, device tokens** (`services/auth.go`, `repository/auth_bootstrap.go`, `repository/user.go`) | `invite_codes`, `users`, `device_tokens`; the token in the desktop's keyring | CreateInvite, DeleteInvite, RedeemInvite, ValidateDeviceToken, LogoutDevice, revocation with psql | RedeemInvite is five statements; two redemptions of a code, or for a name, overlap; the answer with the only copy of the token can be lost | a code buys one device at most, a withdrawn one none, every device names its invite, nobody is locked out while nothing fails |
| **Administrator bootstrap** (`cmd/api/main.go`, `services/auth.go`) | `setup_tokens`, the log | EnsureSetupToken, seedDevUser, SetupAdmin | restart between any two statements, an error at start-up that is only logged, concurrent setups | one administrator, the endpoint locks, the operator has a token in the log that works, or lost it in a way that is known |
| **Clips, quota and objects** (`handlers/clip.go`, `services/clip.go`, `services/instance.go`, `repository/clip.go`, `storage/rustfs.go`) | `clips`, two buckets, `users.storage_used_bytes`, `instance_config` | upload, finalize, update, thumbnail, delete, set the limit | two stores without a transaction, whole-row read-modify-write, check-then-act on the limit, a counter kept by deltas | a listed clip plays, bytes leak only where a call fails or two overlap, a deleted clip stays deleted, the owner's word on visibility holds, the limit and the counter are right up to what can overlap |
| **Shares and guest comments** (`services/clip.go`, `repository/share.go`, `repository/comment.go`) | `shares`, `comments`, `clips.view_count`, `clips.allow_comments`; pages open in browsers | CreateShare, DeleteShare, page, video, list and write comments, expiry | a share is validated several statements before it is counted or used, and again by the video of the page it handed out | the view limit, deactivation only for a cause, no dangling rows, disallowing comments works, a page that was handed out plays |
| **Range streaming** (`handlers/clip.go`, `storage/rustfs.go`) | none | parseRange, resolveRange, GetObjectRange | arithmetic at the edges of a file, a chunk cap, an alignment | each answer is the promised part of the file, and the chunks a player asks for make it up |
| **Administrator sessions** (`pkg/auth/jwt.go`, `pkg/auth/password.go`) | none (JWT) | AdminLogin, RequireAdmin | - | cryptography of libraries |
| **Desktop session** (`main.go`, `internal/auth/store.go`, `internal/config`, `useAuth.tsx`, `api.ts`) | keyring, config file, React state | RedeemInvite, LoginAdmin, LogoutDevice, saveSession, GetAuthStatus, the 401 interceptor | config and keyring are written one after the other; a 401 drops the session under other requests | a token goes to the server that issued it; after any failure a session is all there or not there; signing out forgets the device |
| **Desktop media server and stream proxy** (`main.go`) | media registry, stream registry, counter | ServeLocalFile, CleanupServe, ProxyVideoURL, the two HTTP handlers | registries are used from frontend calls and HTTP requests together; a counter is read and incremented outside the lock | a key leads to the video it was made for |
| **Desktop editor and upload** (`EditorPage.tsx`, `main.go`) | page state, abort flag, temporary files | choose, trim, upload, thumbnail, finalize, reset | uploads outlive the page that began them, a fallback repeats an upload | a cancelled upload stays cancelled, a file is uploaded once, no file is deleted without a clip of it, the button comes back |
| **FFmpeg wrapper and installer** (`internal/ffmpeg`) | binary and encoder caches, the installation directory | findBin, selectEncoder, Install, Trim | caches against installation, overlapping installations, a crash while a binary is copied | an installation repairs, the page does not lie about it, a trim fails only for a reason |
| **Configuration, migrations, codes, frontend pages, deployment** | files, environment | - | - | read once, stateless, or seen in the models as restarts and constraints |

`PROJECT.json` lists the components with their files and, under `hazards`, each
step of this code that is hard to test, at its line, with the properties that
watch it.

## 2. The modules

| Module | What it is |
|---|---|
| `InviteLedger` | the abstract promise of the invite system: invites run through a one-way life and pay for one device |
| `InviteRedemption` | invites, users and device tokens, statement by statement; implements `InviteLedger` |
| `AdminSetup` | start-up of the process and SetupAdmin, with restarts |
| `ClipLibrary` | the abstract promise of the library: a clip comes with its video, keeps it until its owner deletes it, and never comes back |
| `ClipStore` | the clips of one owner in both stores, the limit and the counter; implements `ClipLibrary` |
| `ShareLinks` | the abstract promise of a share link: one life, a limit of views but for overlaps, closed for a cause and for good |
| `ShareAccess` | shares, their visitors, and comments; implements `ShareLinks` |
| `RangeRequest` | the arithmetic of range requests, as operators |
| `Playback` | the video element of a clip page, the local stream proxy and the download handler; uses `RangeRequest` |
| `FfmpegInstall` | finding, installing and using FFmpeg |
| `EditorUpload` | the editor page and the uploads started on it |
| `DesktopSession` | start, login, logout and requests of the client, with what each of them stores |
| `*Proofs` | the theorems about each of the eight detailed modules |
| `MC*` | what only the model checker needs: symmetry sets, and the values of functions |

**The server.** The four modules of the server have the same form. `Workers` are the
requests the server handles at a time. `request[w]` is the handler a worker runs: `pc`
names the statement it will execute next, the other fields are the handler's local
variables as they were when they were read. An action is one SQL statement or one call
of the object store, **with the decisions the code makes on its result**: `At(w, pc)`
is its guard, and `Goto`, `Finish` lead to the next statement or answer the client.
`StartX` actions are the requests clients send. Every call that can fail may fail
(`RequestFails`: the handler returns, and what it did stays), the errors the code
ignores are ignored (`CountFails`, `DeleteObjectFails`, `StartUpFails`), and the
process may restart between any two steps (`Restart`). Variables marked *history* are
read by properties only.

Each module holds, in a section before its actions, a few *faulty variants* of
them. No specification uses these: each shows, in its original's place, that a
property notices a plausible bug.

**InviteRedemption.** `status[c]`, `redeemedBy[c]` and `expired` are the columns of an
`invite_codes` row, `accounts` the `users` rows, `devices` the `device_tokens` rows,
each named by its owner and the invite it was issued for, `keyring` the tokens some
desktop holds. LookupInvite, FindUser, CreateUser, FindDevice, MarkRedeemed,
InsertDevice are the statements of RedeemInvite in order; SaveSession is the desktop
that receives the answer. `LogoutDevice` deletes by user, after the middleware looked
the token up by hash (`ValidateDeviceToken`). The desktop tells the server first and
deletes its keyring entry afterwards (`ForgetToken`), also when the call was lost
(`LogoutLost`) or its five seconds were over (`LogoutTimesOut`). Codes and tokens are
16 and more random characters, so that model values stand for them; a hash is the
identity on them, as equality is all it is used for. `Stage(c)` maps the statements to
the ledger.

**AdminSetup.** The token a start mints is named by the number of the start
(`Tokens == 1..MaxBoots`). `server` walks through main(): `seed` in development, or
`checkAdmin`, `checkUnused`, `wipe`, `mint`, `print` of EnsureSetupToken; then it is
`serving`. `users[u]` is `"admin"` for a row with `is_admin` and a password,
`"passwordless"` for the row of seedDevUser, which AnyAdminExists does not count.
An operator uses only tokens a log has shown. `spoiled` has the tokens of requests that
consumed them and ended without the account.

**ClipStore.** `row[c]` has the columns the properties tell apart: `size`, `public`
(it stands for every column that Update writes), `thumb`, `bucket`. `objects` holds
bucket and clip, so that a row that names the wrong bucket shows. An upload is
CheckRoomFor's two statements (`ReadLimit`, `ReadUsed`), `UploadToStorage`,
`CreateClipRecord`. Finalize, update, thumbnail and delete start with GetByID
(`ReadClip`), hold the whole row in `seen`, and write it back later (`UpdateClip`). A
request sets the visibility or, as an update without the field and every thumbnail do,
leaves it as it was read (`sets`). Delete goes on with `DeleteObject`,
`DeleteThumbnail`, `DeleteRow`, `DebitStorage`. FinalizeUpload adds the size the
client sends; the desktop sends the size of the file it has uploaded, so the model
credits the size of the row. Its duration, size, dimensions and codec change only the
row in memory, as `clipRepo.Update` does not write these columns. `UpdateClip` also
accepts a `thumbnail_key`, which no client sends. `stray` has the objects of the calls
that failed or were killed between the two stores, `raced` the clips whose requests
overlapped. `SumOf` is the SUM of the limit's query, written as the number of units
under the sizes so that it can be reasoned about without a fold. `Stage(c)` and the
objects the rows lead to map the two stores to the library: the INSERT publishes, the
read of a delete dooms, `DeleteObject` loses the video, `DeleteRow` drops the clip,
and every other call is a stutter.

**ShareAccess.** ValidateShareAccess is two lookups (`GetByShareCode`,
`GetByCustomSlug`), the checks on the row found (`CheckShare`), in their order, then
`Deactivate` or `ReadClip`. A page view then counts on the clip and on the share; a
comment is inserted if the clip that was read allows it; video and list end there.
`pages` are the pages in browsers. A slug may equal another share's code.
`allow_comments` is written by requests that read the row (`StartUpdateClip`) and write
all of it back later (`UpdateClip`): with the owner's word, or with the value they read
(`sets`). Only the first kind says what the owner wants.
For `ShareLinks`, a code is `new` until its row is inserted, `gone` once the row is
deleted or the request that was to insert it has ended (`Pending`).
`IncrementShareViewCounts` (services/clip.go:490) has no caller and is not modelled.

**The desktop.** An action of these modules is one call that crosses a boundary (to
the Go side, the server, the disk, the keyring) together with what the code does
with its result before it waits again. What runs at the same time differs: pages,
installations, uploads, logouts.

**RangeRequest, Playback.** A Range header is one of its forms with its numbers;
`ParseRange`, `Capped` and `ResolveRange` are the server's functions on them,
`FetchFrom` and `Skipped` the alignment of GetObjectRange. `Stored` stands for what
the object store answers, from how rustfs.go works around it, and is external.
`page[p].pc` runs through ProxyVideoURL, whose read and increment of `streamCounter`
are separate steps (`ReadCounter`, `BumpCounter`: a data race, so that the increment
uses either value), to a video element that asks for ranges at `pos` or elsewhere
(`ReadOn`, `Seek`) and gets an `answer` (`Receive`) or none (`RequestFails`).

**FfmpegInstall.** `file` is the state of the two binaries in the installation
directory, `writer` who truncated each last; `cache` is `binCache`, `enc` is
`encCached`. `installer[i]` is a call of Install between its download, its archive
(`OpenBinary`, `CopyBinary`) and the invalidation at its end; on macOS, where each
binary has an archive of its own, it goes round twice. `job[j]` is a call of
trimVideo with its three attempts. `Place` is the answer of findBin, which holds its
lock from the search to the remembering. A copy that fails removes its file, a Close
that fails leaves it, complete or not (`CopyFails`). The page can be left and opened again
while an installation of its predecessor goes on (`OpenPage`), which is how two of them
come to overlap; its question (`FFmpegIsAvailable`) and the arrival of the answer
(`SetAvailable`) are steps of their own. Each attempt of a trim searches for the binary
again (`StartTrim`, `StreamCopy`). `Hardware` is the set of places whose FFmpeg has a
hardware encoder.

**EditorUpload.** `page` is the React state and the refs of the mounted editor page;
`task[t]` is a call of handleUpload with the values of the render it closed over, and
`here` while its page is mounted. A file is selected in the steps of handleSelectFile:
the dialog (`OpenFileDialog`, `Select`) and the call that gives it a name
(`ServeLocalFile`). When that fails the file stays selected without a name
(`ServeLocalFileFails`), and a page that was left meanwhile never learns it; the page
goes on to its upload button only with a name. `Trimmed`, `Send`, `Answer`,
`Finalize`, `Finalized`, `Navigated` are the stretches between its awaits, `Caught`
its two catch blocks. `media` is the registry ServeLocalFile and CleanupServe change
and UploadFile looks a name up in. `clip[t]` has what the server stored for the
upload, of the trimmed video and of the file itself: nothing, a draft, or a finalized
clip. The dialog has two buttons and a navigation after the first; pressed twice, they
navigate once more to the same clip, which the model merges.

**DesktopSession.** The server's URL is in the config `file`, in the process (`url`)
and in localStorage (`local.api`); the token in the `keyring`, by server, and in
`local.token`; React has `user`, `loading` and `screen`. `login` is the login or the
start that is under way, `logout[l]` a logout, `request[r]` a request that has its URL and
header. `os.WriteFile` truncates and then writes: between the two steps the file is
`"torn"`, and stays so if the process ends there. `overlap` is set once a login or a
logout begins before the last logout has ended; the page does not disable its
button, so that it can. `normalizeApiUrl` is the rewriting of localhost that the page
does and the Go side does not; TLC has one server whose address is respelled, the proofs
any function. A keyring that cannot be read is an empty token (`AuthToken`): the start
finds no session, the page attaches none, a logout tells no server. The token's presence
is read at the start of GetAuthStatus, its answer comes later.

## 3. The runs

| Run | Configuration (module) | Question | Distinct states |
|---|---|---|---|
| invite_redemption | `InviteRedemption.cfg` (MCInviteRedemption) | two codes, two names, two requests, one failure: is an invite spent once, never after it was withdrawn, and is the ledger implemented | 212 624 |
| admin_setup | `AdminSetup.cfg` (AdminSetup) | three starts in either environment, two setups, one failure: one administrator, a lock, when is the operator locked out, a restart that repairs | 56 271 |
| clip_quota | `ClipQuota.cfg` (MCClipStore) | three clips, two requests and a limit that moves: how far past it, and is the counter the sum when nothing is in progress | 1 520 915 |
| clip_lifecycle | `ClipLifecycle.cfg` (MCClipStore) | one clip, three requests of any kind, one failure: do row, object, thumbnail agree, and is the library implemented | 2 202 133 |
| share_views | `ShareViews.cfg` (MCShareAccess) | two shares, one with the other's code as its slug, two page views, one failure: limit and causes, and are the links implemented | 1 219 854 |
| share_comments | `ShareComments.cfg` (MCShareAccess) | three comments, videos and write-backs of the row while the owner withdraws things | 557 586 |
| range_playback | `Playback.cfg` (Playback) | two pages, two clips, odd headers, a failed request, a deletion: is each answer the right bytes, and does reading on reach the end | 73 248 |
| ffmpeg_install | `FfmpegInstall.cfg` (MCFfmpegInstall) | two installations, a trim, another FFmpeg, two failures or crashes: do files, caches and page agree | 3 995 070 |
| editor_upload | `EditorUpload.cfg` (MCEditorUpload) | two files, two uploads, resets and navigation at any moment, two failures: cancellation, deletion, the button | 1 895 596 |
| desktop_session | `DesktopSession.cfg` (MCDesktopSession) | two servers, two logins, two logouts, a request, one failure or end of the process | 626 486 |

Two more runs, `editor_delete_unstored` (`EditorDelete.cfg`, EditorUpload) and
`session_bounce` (`DesktopBounce.cfg`, MCDesktopSession), expect a violation
(section 4). Safety properties are invariants; `ImplementsLedger`, `ImplementsLibrary`
and `ImplementsLinks` are refinements; `RestartMints`, `PlaysToEnd`, `ButtonComesBack` and
`LogoutEnds` are liveness.

What the properties say, and why they could fail:

* `NoDoubleSpend`, `WithdrawnNeverSpent`: the checks of
  RedeemInvite are four statements old when it marks the invite; only the
  `WHERE redeemed_at IS NULL` of the UPDATE stands between. A code that expires
  *during* a redemption can still be spent, so `lapsed` has only those that
  expired while no redemption was past its check.
* `WastedOnlyByRace`: two invites for one name are both marked, then one INSERT
  fails on the UNIQUE user. The property says that this is the only waste.
* `DeviceReachable`, `DeviceAccounted`: an account has one device and cannot
  redeem again while its row exists, so a device whose token nobody holds locks
  its user out. While no call is lost this does not happen: the token is in a keyring or
  in an answer, and a logout gives it up after the row is gone. A lost answer or logout
  does lock the user out, by design, until the operator revokes the device.
* `OneAdmin`, `SetupLocks`: SetupAdmin looks for an administrator three
  statements before it inserts one, and a restart may mint a token between them.
* `OperatorHasKey`, `RestartMints`: the token is shown once and only its hash is
  kept, so that a token that is not in a log is no token. After a clean start the one of
  this start is in the log and works, or a request that consumed it still runs, or that
  request ended without the account, the one way to be locked out until the next start.
  Without failures only the name of seedDevUser's account leads there.
* `OvershootBounded`: what remains true of the limit, in spite of the race: the
  clips and the uploads admitted exceed the highest limit there was by less than
  one file per concurrent request.
* `PlayableUntilDeleted`, `NoOrphans`, `ImplementsLibrary`, `VisibilityKept`:
  the object is put before the row and removed before it, so a row has its object
  also after a crash. An object, video or thumbnail, has its row and column, or a
  request about to write them, unless a call that stored or deleted that very object
  failed or was killed (`stray`); a thumbnail may also be left by requests that overlap
  (`raced`): an upload of one stores it after the clip is gone. A
  write-back is an UPDATE by id, so it revives nothing; but the thumbnail's
  writes `is_public` as well, and keeps the owner's word only when requests for
  the clip do not overlap.
* `CounterRight`: the counter is right for a client that finalizes each upload
  once, deletes only what it finalized and does one thing at a time. Without
  these conditions it is not, and the code has nothing that would repair it.
* `ViewsBounded`, `DeactivatedForCause`: max_views is
  compared before it is incremented; a share may be viewed more often by the
  requests that overlap, but no more; and the late UPDATE that deactivates a share
  never hits one that is neither expired nor exhausted, as neither ever ends.
* `ImplementsLinks`: an UPDATE that counts or deactivates comes statements after the row
  was read; it must not reopen, revive or reset anything. A link of a request that fails
  is never made, and the deletion of a clip takes its links in one step.
* `MutedGoesQuiet`: a comment is decided on a row read a statement
  earlier. Nothing rereads the flag, but each request in flight writes at most one
  comment. The write-backs of the row cannot undo the owner's word, but for one that read
  the row before the word and writes after it (`raced`).
* `RightBytes`, `ShortAnswers`: the server asks the object store for another range
  than it promised and skips what it did not promise; the promise itself is clamped
  and capped, for an empty file, a suffix longer than the file, a start at its end.
  Two pages whose calls of ProxyVideoURL race get one key, and one of them the
  other's video; `RightBytes` says that this is the only way.
* `PlaysToEnd`: the answers leave no gap. One byte less than promised would stop
  the element where it is; so would a refusal at the last chunk.
* `InstallRepairs`: a killed or failed installation leaves part of a file, which
  findBin takes for an executable. The next installation that has the directory to
  itself leaves two whole files; one that overlaps another gives no such promise.
* `PageTruthful`, `NewBinariesPickedUp`: the page learns of FFmpeg from findBin or from
  its own installation, and findBin's cache may be filled in the middle of an
  installation from PATH. A failed copy removes a file the cache may be about; that
  is the one exception (`removed`).
* `FallbackCovers`: the encoder is chosen once in the life of the process, perhaps
  while another FFmpeg was in use or none. The fallbacks make up for that: a
  trim fails only over files that do not run or an input that cannot be read. A truncated
  file counts as one that does not run, until the next installation replaces it.
* `CancelHolds`: one flag cancels all uploads of a page and the next upload clears
  it. An upload that was cancelled before it looked stays unfinalized on each of its paths,
  unless the flag was cleared: exactly that far the flag works.
* `SafeDelete`: a source file that was deleted has a finalized clip, through
  fallbacks, lost answers and overlaps; not so if the page was reset under
  the upload (`DeletedIsStored`, section 4).
* `TwiceOnlyWhenLost`: the fallback repeats an upload; it leaves two clips only
  if the first one arrived and its answer did not. The first is then a draft that
  nothing removes.
* `ButtonComesBack`: several paths through two catch blocks and a finally block reset the
  flag that disables the button.
* `RequestsStayHome`: server and token change in several steps, in four places, and a
  request picks them up from two of these. Short of overlapping logins and logouts
  no token reaches a server that did not issue it.
* `SessionDurable`: while a user is shown and nothing is under way, the config file and the
  keyring have the same server and token as the page, although each write may fail
  and the process may end between any two. A token dropped by a 401 is excepted: the
  keyring keeps it.
* `ForgetsDevice`, `LogoutEnds`: the token the server was told of is the one
  that is deleted, and the user is gone from the page whether or not the server
  answered, the keyring obeyed and the config could be written.

**Bounds.** On the server `MaxFaults` (1; 0 in `clip_quota`) bounds failed calls and
restarts together: every property that survives one failure at any step is about
states that no second failure makes qualitatively new, as a failed request leaves no
trace but the rows; the proofs drop the bound. Two or three workers suffice for the
races: each property relates at most two requests and a third that deletes or
withdraws. One clip is enough where clips do not interact (`clip_lifecycle`: only the
limit, the counter and nothing else links two clips); `clip_quota` has one clip more
than workers so that a full library and a full set of uploads coexist. `MaxBoots` (3)
gives a token that was lost, one that was wiped and one that works. `MaxUsed` and
`MaxCount` stop requests from being *started* once a counter is high, and cut no
handler short. `MaxSize` (2) tells sizes apart. The limits {1, 2} are both less than a
full library, so that a limit is met and lowered under a request that has read it;
that it may be switched off (0) is left to the theorem, since the property says
nothing from then on. `Hardware` in `ffmpeg_install` has no place, or only the FFmpeg
found elsewhere: the choice of encoder that an installation makes stale.

On the desktop: `Chunk` 3 and `Block` 4 differ, so that a chunk begins inside a
block, and a file of 5 bytes ends in a short block and a short chunk; the
numbers {0, 4, 6} of a seek are the start, the last byte and past the end. The sizes are
small because the proofs hold for all of them. Two pages, installers, uploads
or logouts are the smallest overlap, and the properties compare two at most.
`MaxFaults` is 2 where a fallback follows a failure (a trim that fails and whose fallback
is lost, a crash of an installation and a failure of the next) and 1 for the
session, where the second login follows a failed first.

**Reductions.** Workers, and where names are alike codes, users and clips, are
symmetric; `SYMMETRY` is used with invariants, and in `invite_redemption`,
`clip_lifecycle` and `share_views` with properties of single steps, none with
liveness; in `ffmpeg_install` the two installers are symmetric. The two files of
`editor_upload` are interchangeable too; as that run checks liveness, `FirstChoice`
fixes which of them is selected first (a CONSTRAINT that leaves out whole behaviours,
each the mirror image of one that is kept). Two guards leave out
steps that change nothing any property of the run can see: a request that does not set
the visibility has no value for it, so `StartChange` fixes that field, and
`allow_comments` changes only in runs where somebody reads it. `CHECK_DEADLOCK` is off
as the bounded supply of codes, boots, clips, uploads and logins runs out and a server
without requests rests; `ffmpeg_install` keeps it on.

**Fairness.** No fairness is assumed of users, clients, operators, failures or
restarts.

* `RestartMints` assumes `WF_vars(StartUp)`: main() is a single goroutine that runs
  EnsureSetupToken to its end before it listens, so once the process is started and not
  stopped its next statement is executed. The property allows for a stop and speaks
  of the time when the failures are used up.
* `PlaysToEnd` assumes `WF_vars(GoOn(p))` for each page: the calls of ProxyVideoURL
  return, and the element, which plays, goes on asking and gets its answers. Neither
  side has a timeout, so this speaks of connections that make progress.
* `ButtonComesBack` assumes `WF_vars(Transfer(t))` for each upload: ffmpeg ends on a
  finite file, and UploadFile's client has a timeout of ten minutes (main.go:837). The
  request that finalizes has none; no fairness is assumed of it, and the
  button does not wait for it.
* `LogoutEnds` assumes `WF_vars(LogoutStep(l))` for each logout: the Go call returns, as its
  request has a timeout of five seconds (main.go:457). `WF_vars(Route)` is React,
  which renders what its state says.
* FfmpegInstall has none: the download has no timeout, and an installation may hang.

## 4. Where code and documents part

Two runs check a sentence of the repository that the code does not keep; each
gives a trace.

| Run | Sentence | What happens |
|---|---|---|
| editor_delete_unstored (`DeletedIsStored`) | EditorPage.tsx:988: "The clip is safely stored on the server." | handleDeleteSource (727) deletes the file that is selected when its button is pressed. "New Clip" during the finalize of an upload and the selection of another file put that file under the dialog of the first upload |
| session_bounce (`DroppedReachesLogin`) | api.ts:28: "Drop it and let the router bounce the user back to the login screen." | the interceptor drops the token and goes to the login screen, but React still has its user, so that AuthRoute (App.tsx:32) goes back to "/"; the requests made there have no token and are answered with 401 again |

Six more came up while the models of the server were written. They need no search,
so no run is kept for them:

* README: the setup token is "consumed the moment you create the admin account". It
  is consumed before the INSERT; when the name is taken (the seeded `dev`) it is gone
  without an administrator until the next restart.
* migration 005: the token is "persisted so it survives restarts until consumed". Every
  production start without an administrator wipes the unused token and mints another.
* auth.go:63-66: EnsureSetupToken creates a token "iff no admin exists and no unused setup
  token is already persisted", and returns the empty string when "an unused token is already
  present and still valid". Lines 81-87 wipe that token and mint another, since only its
  hash is kept and no log could show it again. The model has the rotation (`Wipe`), and
  `RestartMints` rests on it; `OperatorHasKey` asks for the token of this very start, so
  it fails for the code the comment describes.
* README: a positive storage limit "caps total `file_size_bytes` across all clips". Two
  uploads that fit alone pass CheckRoomFor together; `OvershootBounded` says how far
  that goes.
* `.env.example` offers the bucket names as settings, but the row of every upload
  names the bucket `clips`, wherever the object is (handlers/clip.go:131).
* The share page plays its video at once, but it counts the view and the video checks
  the limit again (handlers/clip.go:457): the last allowed view cannot play, and the
  request for its video deactivates the share.

Seen in the models and, as far as the repository says, intended or unnoticed:

* FFmpeg: the cache may name a directory whose file a failed copy has removed, until
  the next start; an encoder that was chosen without hardware stays for the
  process (ffmpeg.go:65).
* Editor: the button works during the upload of the fallback, and when another upload
  resets the flag, so that one file can be uploaded twice; a cancelled upload
  leaves a draft clip; the trimmed videos stay in the registry and on the disk; an
  upload that ends after its page was left navigates all the same.
* Session: a second click on "Sign out" can delete the token of the login after the
  first, or leave a config that cannot be read, with which the client no longer starts; a
  late answer of GetAuthStatus or a late 401 can overwrite what a newer login has set.

## 5. The proofs

TLAPS proves the following for all values of the constants that satisfy the ASSUMEs of the
modules: any codes, users, clips, shares, sizes and limits, any number of
concurrent requests (finite in ShareAccess and ClipStore, where they are counted) and
any number of failures and restarts.

| Module | Theorems |
|---|---|
| `InviteRedemptionProofs` | `TypeCorrect`, `AtMostOneDevicePerInvite`, `WithdrawalHolds`, `DevicesAreAccountedFor`, `OnlyRacesWaste`, `NobodyLockedOut`, `RedeemedForGood`, `RefinesLedger` |
| `AdminSetupProofs` | `TypeCorrect`, `AtMostOneAdmin`, `SetupLocksForGood`, `LogShowsTheKey` |
| `ClipStoreProofs` | `TypeCorrect`, `ClipsStayPlayable`, `NothingLeaks`, `TheOwnersWordHolds`, `TheLimitHolds`, `TheCounterIsRight`, `RefinesLibrary` |
| `ShareAccessProofs` | `TypeCorrect`, `ViewLimitHolds`, `NoneDeactivatedInError`, `NothingLeftBehind`, `DisallowingWorks`, `RefinesLinks` |
| `PlaybackProofs` | `TypeCorrect`, `AnswersAreShort`, `PagesGetTheirBytes` |
| `FfmpegInstallProofs` | `TypeCorrect`, `LoneInstallRepairs`, `PageIsRight`, `InstalledIsUsed`, `TrimFailsForAReason` |
| `EditorUploadProofs` | `TypeCorrect`, `CancelledNeverFinal`, `DeletedHasClip`, `TwoClipsMeanLoss` |
| `DesktopSessionProofs` | `TypeCorrect`, `TokensStayHome`, `SessionSurvives`, `DeviceForgotten` |

`RedeemedForGood` (an invite that was redeemed stays so), `NothingLeftBehind` (no comment
or share outlives its clip) and the type invariants of ShareAccess, Playback and
FfmpegInstall are proved and not in a run.

None of the properties is inductive; what has to be added is the reason the code is
right.

* *Invites.* `InsertOwnsInvite`: a request between the UPDATE and the INSERT owns
  its invite. The row names its user, nothing was issued for it yet, and no other
  request is at that point with the same code. The conditional UPDATE establishes
  it, as an invite that is already redeemed lets nobody through; it is what makes
  `issued[c] <= 1` survive the INSERT. `HolderMatchesStatus`, `IssuedOnlyRedeemed`,
  `DevicesIssued`, `AccountFound` and `LapsedUnspent` tie the columns together. For
  the refinement each action is matched with the ledger's step of the same effect,
  or a stutter.
* *Administrator.* `OneChance`: the permission to create the administrator is one
  thing that is handed on, from the one unused token to the one request that
  consumed it and from there to the account; the three exclude one another. A
  restart destroys the request and with it the chance; start-up mints a new one
  only without an administrator (`StartUpKnows`) and when no request runs
  (`StartUpAlone`).
* *Clips.* `UploadsAlone` (an upload's clip has no row and nobody else works on
  it) and `ChangesKnown` (any other request is for a clip that has or had a row,
  and only requests of a clip in deletion delete) make up `Base`.
  `ObjectReady`, `ThumbReady` then carry `PlayableUntilDeleted`; `ObjectGone`, that
  a delete past its first step has removed the object or failed to (`stray`), carries the
  videos of `NoOrphans`, and `Thumbnails`, the same for thumbnails under `Sole`, with the
  columns that the requests hold, its thumbnails; `Sole`,
  `Unspoken` and `WordHeld`, that a write-back holds the owner's new word or the
  last one, carry `VisibilityKept`. `RefinesLibrary` needs `Base` and `Playable` only.
  `ClipsStayPlayable`, `NothingLeaks` and `RefinesLibrary` assume
  `ConfiguredBucket = "clips"`, the default of `RUSTFS_BUCKET_CLIPS`; under another name
  no uploaded clip has its object where its row says (section 4).
* *The limit.* `OvershootBounded` counts the uploads between CheckRoomFor and their
  INSERT with the clips, so that it is kept by the INSERT, which moves a size from one
  sum to the other (`BytesMove`). Only an admission adds: there, the sum of the clips
  and the new one was below the limit that was read, which `LimitsSeen` bounds by the
  highest one, and each of the other workers holds at most one admitted file
  (`AdmissionBounded`). With no worker at all the bound would be a file below the limit,
  so `WorkersAssumption` asks for one.
* *The counter.* Between the DELETE of a row and the debit the counter is too high by
  the size of the row, which only the request remembers. `Account` says so: while the
  client is regular, the counter is `Credited`, the sum over the clips that are
  finalized, and `Owed`, the sum over the requests about to debit. `RowsHeld` says that
  the size a request holds is that of the row, which `Sole`, one request per clip, keeps
  true; so a credit, a delete and a debit each move one size from one of the three to
  another (`CreditBalances`, `DeleteBalances`, `DebitBalances`), and the floor at zero
  is never reached.
* *Sums.* Both rest on four lemmas about `SumOf`: it is a number, at most MaxSize per
  term (`SumType`), fewer terms sum up to no more (`SumFewer`), an index more adds its
  size (`SumMore`), and no term at all sums up to zero (`SumNone`). They follow from the
  theorems on cardinalities, since `SumOf` counts units.
* *Shares.* `CodesFresh`: a code about to be inserted is nowhere else.
  `CauseKnown`: a request that goes to deactivate a share knows a cause that lasts,
  since expiry never ends and a view count never falls. `ViewsBounded` is inductive
  with its count of admitted requests: a request is admitted only below the limit,
  when at most the other workers are admitted, and each increment consumes an
  admission. `MutedGoesQuiet` is alike, with `NoneLateYet` and `MutedHolds`, that the
  owner's word to allow none is in the row and in every write-back under way, unless the
  clip is raced. `RefinesLinks` rests on all of them:
  `ViewsBounded` allows each view, `CauseKnown` each closing, and `CodesFresh` tells
  a link that is gone from one whose INSERT is still to come.
* *Playback.* The arithmetic is for all natural numbers: `Resolved`, what ResolveRange
  promises, and `WholeRangeFetched`, that the aligned fetch less the skipped prefix is
  the promise. The object store answers nothing to a range that begins in the second
  half of a block, so that the lemma rests on the alignment. `Owned` says that what is
  registered under a page's key is its clip or the key is shared; as a key once read is
  never replaced, sharing lasts
  (`SharedStays`). `OwnAnswer` carries both to the answer.
* *FFmpeg.* `InstallerInv`: what a call has written is there, and whole if the call was
  alone all the time, when it is also the file's last writer. `CacheInv`: a place that
  was found is still there; nothing but a failed copy removes a file
  (a failed Close leaves it, and the call that met it has given up). `JobInv`: a trim
  reaches its last attempt only with a trouble on record.
* *Editor.* `Finals`: a final clip comes with the step that finalizes, and a cancelled
  upload will find the flag set. `OfPage`: an upload of the mounted page is of
  the selected file, or the page was reset since; so `Dialog`, that the file under the
  dialog is stored. `Attempts`: the fallback runs when the first attempt left nothing or
  its answer was lost. `SendsChosen` ties a name to the file it was made for, since
  a page may have a file without a name and goes on only with both.
* *Session.* `Shape` holds whatever overlaps: a login keeps the page loading and the
  process on its server. Without an overlap `Flow` holds: a logout is alone
  (`Alone`), and `LoginFlow`, `LogoutFlow`, `UserFlow` and `RequestFlow` say, step by
  step, which of the four copies of server and token already agree.

In each module the step is proved per action, under lemmas that say which actions
write a variable and how a request moves.

*Model-checked only:* `RestartMints`, `PlaysToEnd`, `ButtonComesBack` and
`LogoutEnds`, as liveness is out of the prover's reach. Every other property of a
passing run is a theorem.

## 6. What is not modelled

* Of the desktop: the `/media/` handler, which serves a local file and changes nothing;
  thumbnails and the preview; probing, the command lines of ffmpeg and its progress;
  TrimVideoFast and UpdateAPIURL, which no page calls; the development mode, which has
  no session. UploadFile uploads the thumbnail of a new clip itself, before it returns,
  and ignores what fails there; ClipStore has the request that arrives.
* The library, the settings and the forms of a clip page: views over the API.
* `last_seen_at`, `last_login`, lists and reads that decide nothing,
  `processed_variant_keys`, which nothing writes.
* Administrator JWTs, bcrypt and the generation of codes: computation of libraries
  on single values. Fresh codes and ids are assumed to differ.
* The text of names, comments, pages and error messages; presigned URLs,
  which the server computes for a clip without a decision of its own.
* A custom slug that equals another share's code leads to the other share
  (repository/share.go:65): ShareAccess has it, and no property forbids it.
* Versions: FFmpeg and ffprobe of two downloads of "latest" count as the same.
* Several owners: ClipStore has one. The owner check of every handler reads
  `user_id`, which never changes; the limit sums over all clips in the model too, as
  it has no other owner.
* Database isolation below the statement: each statement is taken to be atomic,
  which READ COMMITTED gives for the single-row statements of this code.

## 7. The plan

In this order, by what the behaviour is worth and what it builds on:

1. done: `InviteRedemption` with `InviteLedger`, `AdminSetup`, `ClipStore`,
   `ShareAccess` and their proofs.
2. done: `RangeRequest` and `Playback`, `FfmpegInstall`, `EditorUpload`,
   `DesktopSession` and their proofs.
3. done: `ClipLibrary`, the abstract specification of the clips, with its refinement;
   proofs of `OvershootBounded` and `CounterRight`.
4. done: `ShareLinks`, the abstract specification of the shares, with its refinement.
5. Abstract specifications of the desktop modules: an upload as its user sees it, a
   session as its server sees it.

Runs are kept few, one for each question: a new component replaces or
joins a run rather than adding one for each property.
