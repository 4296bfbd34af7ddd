# TheHive in TLA+

TheHive is a Flutter app for school clubs: students sign in, pick a school,
create and join clubs, read posts, keep club events and a personal calendar,
and sign up for volunteer events. There is no server code of its own. All
shared state is in Firebase Authentication and Cloud Firestore, and every page
of `src/lib` talks to them through the vendor's client, whose C++ core lies
under `src/ios/Pods_old/FirebaseFirestoreInternal`.

Hence the three sources of difficulty this project is about:

- **on one phone**: `async` handlers that use the navigator and the form's
  context after an `await`, while auth events rebuild the page under them;
- **between phones**: pages that read a document, compute, and write it back,
  over a client that answers from a cache, queues writes through kills and
  resends them;
- **inside the client**: streams that open, idle, break and back off under
  changes of user and of network, while listeners come and go.

Contents: [inventory](#inventory) · [modules](#modules) · [runs](#runs) ·
[bounds](#bounds) · [fairness](#fairness) · [proofs](#proofs) ·
[findings](#findings) · [abstractions](#abstractions) ·
[not modelled](#not-modelled) · [plan](#plan).

## Inventory

| Component | State | Operations | Talks to | Hard behaviour | Correct means | Where |
|---|---|---|---|---|---|---|
| Sign-in gate and forms (`auth/`, `login_page`, `register_page`) | which form or the tabs; sign-in calls under way; loading circle | login, register, Google sign-in, toggle, logout | FirebaseAuth (calls, `authStateChanges`), the navigator, `Users/{email}` | context used after an await; answer against rebuild; dismissed circle; kill mid-call | circle covers its call; an accepted registration has its document; profile loses no field | `AppShell` |
| Navigation (`my_drawer`, `side_bar_page`, `club_tile`, `choose_school`, `help_page`) | stack of routes | push, pop, replace, back | all pages | every tile pops first, some pop what they did not push | the stack is never empty | `AppShell` |
| Firestore client: local views and writes (`local/`, `model/`) | cache, write queue, overlays, what listeners were told | local write, commit, answer, refusal, snapshot, broken stream | server, all pages | answers against snapshots, resending, restart, overlays changed piece by piece | what is shown is the queue replayed over the cache; queues drain | `FirestoreClient`, `LocalDocuments` |
| Firestore client: streams (`remote/stream.cc`) | state of a stream, idleness, credentials asked for | start, open, close, stop, back off, idle | gRPC, credentials provider | late credentials of an attempt that was closed | the code's own assertions | `Stream` |
| Firestore client: listeners and online state (`core/event_manager`, `query_listener`, `remote/online_state_tracker`) | listeners, views, online state, events posted | listen, get, remove, timeout, network change | streams, executor of the app | listener against error against removal; timer against message | a get is answered, once | `Listening` |
| Firestore client: sessions (`core/firestore_client`, `sync_engine`, `remote_store`) | a mutation queue per user, pipeline, worker queue | change of user, write, handshake, answer, refusal, restart | FirebaseAuth, streams | a token or a write overtaken by a change of user | writes in order, under their author's token | `Sessions`, `Outbox` |
| Firestore client: watch targets (`remote/remote_event`, `core/view`) | targets, pending changes, resume tokens, limbo documents | watch, unwatch, aggregate, filter, resolve limbo | server, local store | messages for a target watched anew; tokens against keys; false positives | what counts as synced is true | `WatchTargets` |
| Volunteer board (`volunteer_page`, `volunteer_event_tile`) | `volunteer/{event}`, tiles with the number they were built with | create, delete, sign up | Firestore client, personal calendar | stale read-modify-write; two writes per tap; update against delete | counts accounted for, entry before decrement, no resurrection | `VolunteerBoard` |
| Clubs and membership (`create_a_club`, `club_outline`) | `club/{club}`, `Users/{me}/joinedClubs/{club}` | create, open, join | Firestore client | check, await, act | a decided join takes effect | `Clubs` |
| Club calendar (`club_calendar_page`) | `club/{club}/clubEvents/{event}` | save, delete | Firestore client | a set over what others wrote; delete by name | events reach everyone's calendar | `Clubs` |
| Personal calendar (`calendar_page`) | clubs fetched, list built | fetch, merge, sort | the two calendars' documents | fetched once, listened to for ever | lists the events of joined clubs, and only those | `Clubs` |
| Club posts (`PostStream/`) | posts, draft, clock | type, post, rebuild | Firestore client | order by clients' clocks; late arrivals | what is read keeps its order; phones agree in the end | `Posts` |
| Profile (`profile_page`, `users_page`) | — | show | Storage, Firestore | — | — | [left out](#not-modelled) |
| Legacy Google calendar, widgets, themes, platform code | | | | | | [left out](#not-modelled) |

## Modules

    FirestoreClient            the offline client and the server behind it
        FirestoreClientProofs (lemmas about View and Replay)
      LocalDocuments           the overlays it stores, what listeners are told
        VolunteerBoard         the volunteer board over both
          MCVolunteerBoard, VolunteerBoardProofs
      Clubs                    clubs, memberships, calendars over the client
        MCClubs, ClubsProofs
      Posts                    a club's announcements over the client
        MCPosts, PostsProofs
    Stream                     the state machine of the client's two streams
      Listening                listeners, gets, the online state
        MCListening, ListeningProofs
      Sessions                 users, write queues and the write stream
        MCSessions, SessionsProofs
        implements Outbox, what the client promises of writes
    WatchTargets               targets, snapshots, resume tokens, limbo
      MCWatchTargets, WatchTargetsProofs
    AppShell                   gate, forms, navigator, Users document
      MCAppShell, AppShellProofs

`FirestoreClient` is the client as the app's pages see it, for several phones
and one server; `Listening`, `Sessions` and `WatchTargets` open it up, each on
one phone, along the lines on which its classes share state.

Definitions keep the names of the functions they model; `PROJECT.json` maps
each to its lines. A definition whose comment starts with "Mutant" is a
plausible bug: put in place of the definition it mutates, it breaks a property,
which shows that the property depends on that piece of code. No specification
uses a mutant.

### FirestoreClient

`db` is the server; `cache[d]`, `queue[d]`, `sent[d]` a device. The app's
`set`, `update` and `delete` are `WriteLocally`: each call is one batch at the
end of the persistent queue (`LocalStore::WriteLocally`). `Commit` and `Refuse`
are the server taking the next write of the stream (external);
`HandleSuccessfulWrite`, `HandleRejectedWrite`, `ApplyRemoteEvent` are what the
client does with an answer, a refusal and a snapshot, and `OnWriteStreamClose`
a stream that breaks and starts over. `sent` has three fields because answers
and snapshots travel separately: how many writes the server has `applied`, how
many of those the last snapshot has `seen` (their answer must not put an old
value back into the cache), and whether it `refused` the next one. `View` is
the cache with the queue on top, what the loop over the batches computes, in
closed form (the last overwrite and the last write decide), so that it can be
proved about; `Replay` is that loop itself. `Clubs` and `Posts` take `View` for
what pages show: they queue only sets and deletes, for which a document has an
overlay exactly while a write of it is queued, the overlay is the last of these
writes, and no snapshot touches it. Where updates are queued the state of the
overlays matters, and is modelled.

### LocalDocuments

The client stores, for every document with queued writes, an overlay: one
mutation that stands for all of them, saved under the batch of the last.
`overlay[d][k]` is that mutation, what it makes of the document, and `last`, the
place of its batch in the queue. `view[d][k]` is what the listeners were last
told of k. No operation replays the queue to show a document:

- `SaveWrites` (`LocalStore::WriteLocally`) extends the overlay by the new write
  (`Written`): an update over a set is a set, an update that finds no document
  changes nothing but the batch it is filed under.
- `AcknowledgeBatch` drops the overlays filed under the batch that was answered
  (`HeadRemoved`) and recomputes none: transforms, for which the code does, are
  not used.
- `RejectBatch` drops them too and recomputes those of the refused batch's
  documents from the rest of the queue (`Recalculated`). When nothing in the
  queue has an effect on the document, `Recalculated` saves nothing, and what
  was stored stays.
- `ApplyRemoteDocuments` recomputes where a document appears or vanishes in the
  cache, and there only a patch or a missing overlay (`IsRecalculated`, the
  condition of `ComputeViews`); elsewhere the stored overlay is laid over the
  new document.
- `Tell` and `Query`: listeners hear of the documents an operation concerns, and
  of all when they begin anew.

`OverlayIsReplay` compares these stored overlays, and what listeners were told,
with `Replay`. They agree except where `IsStale` describes an overlay that the
client keeps although what it was computed from is gone; see the
[findings](#findings).

### VolunteerBoard

The board holds events of any of `Numbers`, or none, when the phones first
start. `shown[d]` holds the `numberOfPeople` field of the tiles, set by
`BuildTiles` from what the listeners were told and used, possibly much later, by
`onTap`. A tap issues the calendar entry and then the absolute number minus one.
`onTapKilled` is the process dying between the two; after it, and after
`Restart`, the listeners query anew. `Serve` is the server, `Answer` and
`Snapshot` what the client does with what it hears. `taps` is a history
variable: taps on a tile that still showed a place.

### Clubs

The phones of one user, newly installed: `Stores` is what the server may hold
then. `Tap` is an input of the user, `Fault` a kill or a broken stream; taps
stop first, so that faults meet what the taps have made. `createClub` and `saveEventToFirestore` set documents;
`joinClub` is in three steps, tap (`joinClub`), answer of the get (`JoinRead`,
from the server, from the cache, or an error without network) and the rest
(`JoinWrite`), and several may be under way. `calendar[d]` is a CalendarPage:
`getUserJoinedClubs` answers its FutureBuilder once, `BuildCalendar` runs the
builder for each value of the merged stream, which throws (state `"broken"`)
when two of its events fall on one day. The write of a volunteer tap into
the user's own collection appears here as `addEventToMyCalendar`; the board is
not repeated.

### Posts

A post is its author and its time stamp; `add()` draws an id in any order.
`Shown` is the stream of the page: sorted by stamp, newest first, equal stamps
by id. `Rebuild` is ClubOutline building a new PostsStreamPage, whose new text
controller loses the draft.

### Stream

Operators on a record, the state of a stream: `StreamStart`, `StreamStop`,
`StreamClose`, `MarkIdle`, `BackoffElapsed`. Credentials are asked for and
arrive later; `requests` holds whether those of the current attempt
(`"current"`) and of an earlier one (`"outdated"`, by `close_count_`) are due.

### Listening

`remote` is RemoteStore's watching half with the OnlineStateTracker. A get is a
listener that is told one snapshot on the executor and removes itself
(`DocumentReference::GetDocument`, ListenOnce): `AddQueryListener` on the worker
queue, `OnEvent` on the executor, `RemoveQueryListener` on the worker again,
and `muted` the AsyncEventListener. `Publish` is what SyncEngine and
EventManager do at the end of every operation. `ProcessTargetError` is a
refused target, `NetworkChange` a restart of the network.

### Sessions and Outbox

`auth` is whom FirebaseAuth holds, `user` whom SyncEngine works for; what the
one does reaches the other through `worker`, the worker queue, in order.
`remote` is RemoteStore's writing half: stream, call (its token, its handshake,
how many writes the server has applied) and pipeline. `queue` survives a kill.
`Outbox` promises each user order, no loss before an answer, and sending again
from the oldest unanswered write on; `KeepsPromise` is the refinement, with
`ahead` mapped to the call's `applied` for the current user and 0 for others.

### WatchTargets

`client` is one record for RemoteStore, WatchChangeAggregator, SyncEngine, the
view and the local store, because one message passes through all of them in one
operation: `RaiseWatchSnapshot` is the composition, in the code's order, of
`Synthesized` (a current limbo target without its document), `RenewTargets`,
`LimboReceived`, `LocalStoreApplies`, `EmitNewSnapshots` and `Cleared`. The
server numbers creations and deletions, and a resume token stands for the
numbers at its snapshot; on a resumption it sends deletions or an existence
filter with a bloom filter that may let deleted documents through. A filter
counts the documents of a snapshot; that snapshot is sent with it unless
`LateSnapshots`, when documents may change in between. `OnWatchStreamOpen`
watches the targets in any order, as `listen_targets_` is an unordered map.

### AppShell

`stack` is the navigator, `gate` what AuthPage has built at its bottom,
`calls` the sign-in futures. A call is issued (`login`, `registerUser`,
`signInWithGoogleFirebase`), answered (`Accept`, `Decline`) and continued
(`loginContinue`, `registerContinue`); `mounted` says whether the form it came
from still exists. `abandoned` records that the user dismissed a circle before
its call ended. The Submit button of CreateAClub is a push here and the write
`createClub` in `Clubs`.

## Runs

| Run | Checks | Shows | Distinct states |
|---|---|---|---|
| `volunteer` | TypeOK, CountsAccounted, EntryBeforeDecrement, OverlayIsReplay, DeletedStaysDeleted, AcknowledgeKeepsView, Converges | two phones of two users in every order of three inputs, on an empty board or one with an event; stored overlays show the replay of the queue; queues drain and tiles agree with the server once inputs stop | 557,463 |
| `shell` | TypeOK, CircleCoversForm, NeverBlank, ProfileKept, RegistrationDocumented, FormFreed | two calls racing taps, auth events, logout and kills; accepted registrations end with their document; no form waits for ever | 222,544 |
| `clubs` | TypeOK, MembersOnly, JoinTakesEffect, CalendarSettles | two phones of one user on a server with a club, an event of it and volunteer events; kills, resends and refetches; decided joins arrive; merged lists come to agree with the server, and break exactly on two events of one day | 110,311 |
| `posts` | TypeOK, PostsStay, PostsAgree | two phones with clocks of their own | 93,848 |
| `listening_gets` | TypeOK, AssertionsHold, TargetsMatch, AnsweredOnce, GetAnswered, PageShown | two gets of one document and a page, against refusals, failures, restarts, late credentials | 164,802 |
| `sessions_writes` | TypeOK, SentAsAuthor, PipelineIsPrefix, AssertionsHold, KeepsPromise, QueueDrains | two people on one phone; the client implements the outbox | 196,296 |
| `watch_targets` | TypeOK, AssertionsHold, SyncedIsTrue, ResumeIsSound, ViewConverges | a list of two documents through filters, limbo, resets, broken streams and kills | 314,013 |

What the properties say:

- **CountsAccounted**: a count, on the server or on a tile, is a number someone
  typed less at most as many places as there were taps, and no tap takes it
  below zero. Absolute writes may lose a decrement (see the findings), but a
  resent one is never counted twice.
- **EntryBeforeDecrement**: when a decrement is next in a stream, the calendar
  entry of its tap is on the server: no place is given up for a sign-up that
  was not recorded.
- **DeletedStaysDeleted**: taps on tiles of a deleted event do not bring it
  back; only a save does.
- **OverlayIsReplay**: the overlay stored for an event, which writes, answers,
  refusals and snapshots change piece by piece, shows what a replay of the whole
  queue over the cache would, and listeners were told just that; except for the
  stale overlays the client keeps.
- **AcknowledgeKeepsView**: an answer that no snapshot has overtaken changes
  nothing that listeners were told, unless the overlay was stale.
- **Converges**: with no more inputs, all queues empty and all tiles equal the
  server.
- **CircleCoversForm**: as long as no circle is dismissed, a form call is
  covered by exactly its own circle, so its final pop takes that circle. What a
  dismissed one leads to is in `shell_circle_outlives` and the findings.
- **NeverBlank**: as long as no circle is dismissed, the navigator has a route.
  With a dismissed circle it can run empty; the condition is needed.
- **ProfileKept**: as long as no circle is dismissed, no step removes the
  username or the school from the Users document, although the document is set
  without merge at the end of a registration.
- **RegistrationDocumented**: a registration that the app has heard Firebase
  accept ends, short of a kill, with its Users document: also when its own auth
  event unmounts the form first, or the circle was dismissed.
- **FormFreed**: no form waits under its circle for ever, dismissed circles or
  not.
- **MembersOnly**: a calendar fetches only clubs with a membership, on the
  server or in this phone's queue, also when answered by a cache that is
  behind.
- **JoinTakesEffect**: once the get of a join has found no membership, the
  write of one is queued, unless the app is killed before; and a queued one
  reaches the server, whatever kills and broken streams come after: for it,
  there is no exception.
- **CalendarSettles**: with no more inputs, each calendar's list is exactly the
  server's events of its clubs and the user's own, and the page is broken
  exactly if two of these fall on one day.
- **PostsStay**: no step removes a post from a screen or swaps two that are on
  it; late posts only slip in between. **PostsAgree**: in the end all phones
  show one list.
- **AssertionsHold** (three modules): the `HARD_ASSERT`s of the client, stated
  where they bite: the online timer only in Unknown, credentials find the
  stream Starting, idleness only on an unused stream; a recorded change fits
  the keys it is applied to.
- **TargetsMatch**: what is watched is what is listened to.
- **AnsweredOnce, GetAnswered, PageShown**: the caller of a get is told once,
  and is told; a page gets its first snapshot.
- **SentAsAuthor**: a write reaches the server only under its author's token.
- **PipelineIsPrefix**: answers carry no id; they are matched with the head of
  the pipeline, which therefore must be the head of the current user's queue.
- **KeepsPromise**: the refinement of `Outbox`. **QueueDrains**: a queued write
  is answered once its author stays signed in.
- **SyncedIsTrue**: a list that does not count as "from cache" is what the
  collection was at the last snapshot, unless the query has no token: after a
  filter that did not match it starts over, and on a new stream a limbo document
  may be resolved before it (`OnWatchStreamOpen`), so that the list then runs
  ahead of that snapshot.
- **ResumeIsSound**: a resume token and the keys kept with it, in memory and on
  disk, are of the same moment: the server repairs no difference it does not
  know of.
- **ViewConverges**: once nothing changes, a list comes to be the server's and
  to know it; limbo documents are all resolved, one at a time.

The remaining runs are expected to fail: each checks one statement of a comment
or a help text that the code does not keep. See [findings](#findings).

`CHECK_DEADLOCK FALSE` stands in the configurations over the client, because a
system whose inputs are used up and whose queues are empty has nothing to do.
The shell is checked for deadlock.

## Bounds

`MaxInputs` bounds what people, crashes and networks do together; all other
steps are unbounded, but finite between inputs. Symmetry is not used: all
passing runs check liveness.

- `volunteer`, 3: a save, and a tap on each of two phones (stale tiles), or, as
  the board may hold an event already, two taps or deletes and a kill or a
  broken stream. `MCNumbers` is `{-1, 1}`: a number that the guard of the
  decrement stops at once, and one that reaches zero by one tap. One event is
  enough for overlays, each of which is about one document. All its safety
  properties are proved for any bound; only Converges depends on this one.
- `clubs`: two taps (`MaxTaps`) and three inputs (`MaxInputs`), so that at least
  one kill or broken stream may come anywhere, also after the last tap. The
  three `MCStores` make the lists interesting without spending taps on it: a
  club with an event that the user has not joined; and one joined, with a
  volunteer event on the same or on another day. A calendar fetched from the
  server therefore merges two events, on one day (broken) or on two, before any
  tap; one fetched from the empty cache of a new phone has none. Two taps are an
  opening and a join or an event, two volunteer events on two phones, or one
  and a refetch. With an opening first there is one join in a behaviour, and
  one slot; two joins of one club write the same membership twice. MembersOnly
  holds for any bound, by proof. `clubs_integrate`
  has one phone, an empty server and three taps: create, open and join.
- `shell`: `MaxStack` 3 holds AuthPage, a circle or page, and what it opens; no
  continuation adds a route net of its pops, which `TypeOK` checks, since
  continuations have no guard on the stack. Two `Slots` are a call and one that
  overtakes it. The invariants hold for any bound, by proof.
- `posts`: three ids and two moments allow posts of equal stamps and a late
  post older than one already read; 1 rebuild or broken stream (a resend).
- `listening_gets`, 3 inputs (a listener, a refusal, a lost connection, a
  change of the network or of a document) on two gets and a page;
  `kMaxWatchStreamFailures` 1 as in the code. Every initial cache and server.
  Its invariants hold for any bound, by proof; the two liveness properties are
  what the bound is for.
- `sessions_writes`, 6: three writes, a change of user and back, and a kill, a
  broken stream or a new network. `kMaxPendingWrites` is 2 instead of 10, so
  that the queue outgrows the pipeline. All but QueueDrains is proved for any
  limit.
- `watch_targets`, 3, from every server state: the shortest history with a
  stale cache (a page, a deletion while it is away or the stream is broken) and
  one more disturbance. `max_concurrent_limbo_resolutions` is 1 instead of 100,
  so that one waits; `MaxLimbo` 4 target ids are never used up. `ReturnsDuringReset`
  says whether a page may leave and come back between a mismatching filter and
  the next snapshot: FALSE here, TRUE in `watch_returns`, which is the finding.
  `LateSnapshots` is FALSE in both; what happens otherwise is said under the
  proofs.

## Fairness

Weak fairness of the client's own steps (commit or refusal, answer, snapshot),
of rebuilding, of the answer to a `get`, of FirebaseAuth's answer (its calls
time out) and of continuations: a phone that runs and is online does these by
itself. No fairness is assumed of anything a person does, of kills or of broken
streams. In `VolunteerBoard` it is stated of `Serve`, `Answer`, `Snapshot` and
`BuildTiles` of each phone. In `Clubs` it is stated only of all that a phone
does by itself together (`Step`): between inputs these steps come to an end
whatever their order. Liveness thus says what happens once people pause, on phones that are
online; broken streams count as inputs, so there are finitely many.

Inside the client, `ClientFairness` of `Listening` is that of timers, of the
executor and of the worker queue, which run every operation they are given;
`ServerFairness`, that a call of gRPC is answered or fails. `SilentSpec` leaves
the latter out: a network may swallow packets, which is what the online timer
is there for. In `Sessions` a token of the current attempt arrives, the server
answers what it is sent, and backoff ends. `TokenFails`, lost connections and
kills are inputs. In `WatchTargets` fairness of `OnWatchStreamChange` is stated
on the oldest message being read (`MessageRead`), which is that step and
nothing else; no fairness of a page's coming up, nor of the online state's
turning.

## Proofs

The proof modules show, for any number of devices, users, documents, calls and
listeners, and for any bounds:

| Module | Theorem | Statement |
|---|---|---|
| VolunteerBoardProofs | TypeCorrect | Spec => []TypeOK |
| | CountsAccountedTheorem | Spec => []CountsAccounted |
| | EntryBeforeDecrementTheorem | Spec => []EntryBeforeDecrement |
| | DeletedStaysDeletedTheorem | Spec => DeletedStaysDeleted |
| | OverlayIsReplayTheorem | Spec => []OverlayIsReplay |
| | AcknowledgeKeepsViewTheorem | Spec => AcknowledgeKeepsView |
| ClubsProofs | TypeCorrect | Spec => []TypeOK |
| | MembersOnlyTheorem | Spec => []MembersOnly |
| PostsProofs | TypeCorrect | Spec => []TypeOK |
| | PostsKept | Spec => every step keeps each post on each screen, and the order of any two |
| ListeningProofs | TypeCorrect | Spec => []TypeOK |
| | AssertionsNeverFail | Spec => []AssertionsHold |
| | WatchedIsListened | Spec => []TargetsMatch |
| | ToldOnce | Spec => []AnsweredOnce |
| SessionsProofs | TypeCorrect | Spec => []TypeOK |
| | OnlyAsAuthor | Spec => []SentAsAuthor |
| | PipelineFollowsQueue | Spec => []PipelineIsPrefix |
| | AssertionsNeverFail | Spec => []AssertionsHold |
| | ImplementsOutbox | Spec => KeepsPromise |
| WatchTargetsProofs | TypeCorrect | Spec => []TypeOK |
| | AssertionsNeverFail | Spec => []AssertionsHold |
| | ResumeSound | ~ReturnsDuringReset and ~LateSnapshots, Spec => []ResumeIsSound |
| AppShellProofs | TypeCorrect | Spec => []TypeOK |
| | CircleCoversFormTheorem | Spec => []CircleCoversForm |
| | NeverBlankTheorem | Spec => []NeverBlank |
| | ProfileKeptTheorem | Spec => ProfileKept |
| | RegistrationDocumentedTheorem | Spec => RegistrationDocumented |

Each rests on an inductive invariant `IInv`, the conjunction of named parts
(and ResumeSound on `RInv`, the overlays of the board on `DInv`, on top of it),
which TLC checked on the module's run
before it was proved.

*Assumptions.* All are about constants, named in the module that declares them,
and evaluated by TLC. `BoardAssumption`: every device has an owner, events and
entries are different documents, typed numbers are integers. `ClubsAssumption`,
`PostsAssumption`: the kinds of documents differ from each other and from "no
document", what the server holds at first (`Stores`) is documents, and ids, stamps and bounds are numbers. `ListeningAssumption`,
`SessionsAssumption`: every listener has a query, a get is not a page, the
bounds are numbers and the limits of the code positive.
`WatchAssumption`: documents are finitely many, the bounds are numbers, at
least one limbo document may be resolved at a time, and the two flags are
Booleans; ResumeSound, and it alone, takes both to be FALSE (see below).
`ShellAssumption`: "no school" is not a school, and the stack bound admits a
page and a circle.

*The client.* `FirestoreClientProofs` has what the three specifications over
the client need of `View`: what it shows is the data of a queued write or the
cached document (`ViewOrigin`), what a write at the end of the queue does to it
(`ViewOfAppend`), and that it is unchanged when the head of the queue moves
into the cache (`ViewOfTail`), which is what an answer does. `ViewReplays`,
that the closed form is the replay, is an induction over the queue. It is made
of a minimal counterexample: `UpTo` says that a set of numbers that contains 0
and with each number below n the next one contains all of 0..n, and follows
from the least element of the rest.

*The board.* CountsAccounted is not inductive: a number may come out of a
cache, a queued write, an earlier set under a queued update, or a snapshot.
`CountsSound` therefore says it of every place a number can be (server, caches
and tiles; `WritesSound` of all queued writes), and a lemma about `View` shows
that what a tile shows is the data of a queued write or a cached document.
EntryBeforeDecrement rests on `EntriesFirst`: for every queued decrement, its
entry is on the server or ahead of it in the part of the queue the server has
not applied; a resend, which puts the stream back to the queue's head, only
makes that part longer, and entries on the server are never deleted.
`WritesSound` says of every queued write that entries are only ever set and
that its number is accounted for, and `RefusedIsUpdate` that only updates are
refused, which keeps `HandleRejectedWrite` from dropping an entry.

OverlayIsReplay and AcknowledgeKeepsView rest on `DInv`, which says of each
event on each phone how the overlay fits cache and queue. `OverlayOK`: without
an overlay nothing is queued for the event but void updates; one that is there
holds up to the last queued write of the event; with a set or delete in the
queue it is what the queue makes of the document, and without, the data of its
last write. `ToldOK`: listeners were told what the overlay shows, or, where it
is stale, that there is no document. The steps are
`OverlayOfWrite` (a write extends it), `OverlayOfTail` (an answer or a refusal
shortens the queue: an overlay filed under a later batch still stands for the
rest, or has just become stale), `OverlayRecalculated` and
`OverlayNotRecalculated` (a snapshot: sets, deletes and patches of documents
that stay need no new one). `ViewReplays` then takes the view to the replay.
The proof attempt is also what showed the stale overlays: without `IsStale`,
`OverlayOfTail` and `OverlayRecalculated` are false, and TLC gave the histories.
`BoardOK` has the types of everything else, so that the counts and the overlays
are two separate inductions.

*Clubs.* A calendar fetches its clubs from the view of a cache that may be
behind, so MembersOnly needs to know where a cached membership comes from:
`CacheStored` (what a cache holds is on the server), `AppliedStored` (what the
server has applied of a queue is on the server, which a kill or a resend, by
which the device forgets that it was applied, preserves), and `WritesSound`
(memberships are only ever set). `JoinsDecided` says that a join past its get
has a club, so that what it sets is a membership.

*Posts.* A post never changes: `OneValue` says that two queued writes of one id
have the same data, `ServerAgrees` and `CacheAgrees` that the server has that
data or nothing, and a cache what the server has or nothing; `AppliedStored`
and `SeenCached` that what was applied is on the server and what a snapshot has
seen is in the cache when its answer arrives. With these, every step leaves
each post on a screen as it is, and its order relative to any other.
`PostsKept` is about the order `Before`, by which `PostsStay`'s list is sorted;
that the list of `SetToSortSeq`, filtered, is then the old list is an induction
over sequences and stays with TLC.

*Listening.* AnsweredOnce is about three executors: a second event may have
been posted to a get before the first one ran. `AnsweredIsQuiet` says that a
get that has been told is muted, or erased with no event left; `ErrorIsLast`
that nothing is posted after an error, which erases the listener. AssertionsHold
and TargetsMatch are inductive together: a stream is idle only when nothing is
watched, and the online timer runs only while a stream is started.

*Sessions.* `QueuesSound` (the ids along a queue increase, and each write has
its user as author); `WorkerInOrder` (each write on the worker queue is of the
user who will be current when it is run, and the last change of user is to whom
FirebaseAuth holds); `WritesCounted` (ids made and still to be made on the
worker queue stay within the inputs); `Sound` (the pipeline is a head of the
current user's queue, an open stream has that user's token, and the server has
applied no more than was sent after a handshake); `FreshSound` (at most one
credential on the worker queue counts, and it finds the stream waiting for it).
PipelineIsPrefix and AssertionsHold follow from `Sound`, and SentAsAuthor from
its token and from the authors of the queue.
ImplementsOutbox is a step simulation: a local write, an application, an answer
and a refusal map to the steps of `Outbox` of the same user, a broken call and
a change of user to its going back to the oldest unanswered write, and every
other step to a stutter.

*WatchTargets.* A change is recorded as "Added", "Modified" or "Removed" by
the keys the target has then, and it is applied, or asserted about, later.
AssertionsHold therefore needs that nothing the server said to an earlier watch
of a target reaches a target that counts as active. `Owed` says so by counting:
along the messages on their way and then the requests not yet read there is a
non-decreasing number that grows at every answer for the target and ends at
most at its `due`; so a read answer finds `due` positive, and `due` 0 means no
answer is left. `Known` says that what the server watches and sends for a limbo
target is that target's document: ids are given out once, in order
(`KeysFollow`), which is also what makes the types inductive. `PendingSound`
(a target with changes has pending changes) shows that a snapshot clears every
change of every target that is active after it, since a target that became
active meanwhile has an answer due (`Advances`). Each step of
`RaiseWatchSnapshot` has a lemma of its own, and they compose by the transitivity
of `Advances`. When the stream breaks or the app is killed all of it starts
again from nothing due and nothing on its way (`RestartSound`).

ResumeIsSound compares a token with keys, and says nothing of the messages that
will change both; `RInv` does, and TLC checked it before it was proved. `Stored`
is the property, also for the keys on disk. `Served` says why the next snapshot
will keep it, in one of three ways:

- `Requested`: the last request for the query watches it with its token, so the
  server will start from the keys the client has.
- `Watching`: it is watched, and the messages on their way take the keys the
  query will have (`Expected`, the view's with the pending changes; or, while
  answers are due, the view's alone from the last answer on, `LeadsLater`) step
  by step (`Follow`) to the server's, and every snapshot among them finds the
  keys of its own moment (`Leads`). A filter only comes before any snapshot,
  followed by "current" and its own, and what it takes away is among the keys
  the client has (`Announced`): so a bloom filter without false positives leaves
  exactly the documents it counts, and one with some leaves more, does not match
  and resets.
- `Mismatched`: after a reset no keys are expected, and the snapshot is next;
  it renews the query without a token.

Each function of a message has its effect on `Expected` as a lemma, the
functions of a snapshot what they keep of keys and tokens, and the server's
steps that they extend `Leads` at its end. A token stays unsaved
(`ShouldPersistTargetData`) only when the snapshot changes no key, so that the
older one stands for the same keys.

The hypotheses are there because TLC refutes the theorem without them. With
`ReturnsDuringReset` it is the history of `watch_returns`. With `LateSnapshots`
the attempt to prove `Mismatched` failed on this one (one document, `MaxLimbo` 2,
four inputs): a filter does not match; a document is created before the filter's
snapshot, so that it enters the keys of that snapshot while the token is
cleared; it is deleted before the renewed watch is read; and the server, given
no token, sends no deletion of it. The document stays in a list that counts as
up to date. Whether the backend lets a change in between a filter and the
snapshot it counts is not to be seen in this repository, so it is a hypothesis
about the server and no finding. With both flags FALSE TLC finds nothing on one
document up to five inputs either.

*The shell.* `CircleCoversForm` needs `OneFormCall` (no second form call can be
issued under a circle, so that one call's continuation uncovers no other) and
`GateAtBottom` (a form's circle lands on the bare gate); `NeverBlank` needs
both, for a continuation pops only what its call has pushed. `ProfileKept` needs
`FreshProfile` (when a registration has succeeded and its document is still to
be set, no school has been saved) and `AccountKnown` (a school can only have
been saved for an account that exists, and then no registration succeeds).
`RegistrationDocumented` has a lemma, `RegisteredStays`: a call that was
accepted is changed by nothing but its continuation and a kill, since auth
events and pops only take its form away.

*Only model-checked.* All liveness (Converges, FormFreed,
JoinTakesEffect, CalendarSettles, PostsAgree, GetAnswered, PageShown,
QueueDrains, ViewConverges), which rests on fairness; PostsStay as a statement
about lists, because of the sorting; and SyncedIsTrue of `WatchTargets`. It
follows from ResumeIsSound only where the cache has no document beyond the keys
that is not in limbo, and for that the invariant would have to follow the cache,
the limbo documents and what is on its way for each of their targets, as `RInv`
does for the query.

## Findings

| Run | The code says | The code does |
|---|---|---|
| `volunteer_lost_update` | "reduce the number of people" (`volunteer_event_tile.dart:148`) | writes the tile's number less one; of two taps on tiles of one snapshot the second reduces nothing |
| `shell_circle_outlives` | "pop loading circle" (`login_page.dart:43`) | when the auth event rebuilds the gate first, the form's context is gone and the circle stays |
| `clubs_integrate` | "This will also integrate the club's calendar" (`help_page.dart:153`) | clubs are fetched once; later ones stay out, under full fairness |
| `listening_silent` | "we transition to Offline rather than waiting indefinitely" (`online_state_tracker.cc:48`) | a last listener that leaves while the stream is starting cancels the timer and keeps the stream; the next listener finds it started, and nobody sets the timer again |
| `watch_returns` | "true if the snapshot was created from cached data rather than guaranteed up-to-date server data" (`snapshot_metadata.h:43`) | a page that leaves and returns between a mismatching existence filter and the next snapshot loses the removals `ResetTarget` recorded; a deleted document stays in a list that is not "from cache" |

`listening_silent` needs a network that neither answers nor fails a call;
`watch_returns` needs two inputs between two messages of one response. Both are
in the vendored client, and rare.

More disagreements are plain on reading, need no search, and have no run; the
models follow the code:

- `login_page.dart:47` "pop loading circle": with a circle that the user has
  dismissed, the pop takes AuthPage (`loginContinue`).
- `calendar_page.dart:122` "Sort events by eventDate and eventTime": no document
  has `eventTime`; two events on one day make the build throw (`SameDay`, and
  CalendarSettles says that it does so exactly then).
- `local_documents_view.h:49` "The view is computed by applying the mutations in
  the MutationQueue to the RemoteDocumentCache.": an overlay can outlive what
  it was computed from (`IsStale`). After a phone's own set or delete is
  answered while updates of the document are still queued, the overlay remains
  a set or a delete, and when the document then appears or vanishes remotely,
  `ComputeViews` leaves it. And when a document vanishes under queued updates,
  the recomputation finds nothing to save and keeps the old patch, which is not
  shown by that snapshot but by the next query or restart. Both last until the
  server has refused the updates. `OverlayIsReplay` holds of all other
  overlays, and would fail on these without `IsStale`.
- `register_page.dart:70` "display message to user": the `pushReplacement` at
  line 75 replaces the message by the school page at once.
- `help_page.dart:71` "Changing schools requires approval": `choose_school.dart`
  line 24 changes it at once.
- `club_calendar_page.dart:144` "Delete the event from Firestore": the delete
  names the collection `events`, where no event is ever saved.
- `help_page.dart:167` "Click the plus icon to leave a club": `joinClub` shows
  "already added" and keeps the membership.

## Abstractions

- A document is one value: a count, a day, or only its being there. No decision
  of the modelled code reads another field.
- Acknowledged writes with transforms, for which `AcknowledgeBatch` recomputes
  overlays, do not occur: the app uses no transform.
- An acknowledged update of a document that is not cached leaves an "unknown
  document" in the client until the next snapshot; here it is missing until
  then. Pages show neither.
- When the server recognises a stream's token it does not apply writes again;
  `OnWriteStreamClose` is the case in which it does, the harder one.
- Over `FirestoreClient`, security rules and quotas refuse nothing; the only
  refusal is the missing document of an update. `Sessions` lets the server
  refuse any write, `Listening` any target.
- `Stream` takes Healthy with Open: they differ in whether an error invalidates
  the token, which the credentials provider does. Delays are left out. The
  server never ends a call without an error, which RemoteStore treats like one.
- In `Listening` failures are counted up to the limit the code compares them
  with, and behind the second event posted to a get more are not told apart; a
  query's result is whether there is a document.
- In `Sessions` the credentials provider asks again when the user changed while
  it waited, so that it delivers the token of the user of that moment.
- `WatchTargets` has one query without a limit and no local writes, so that the
  list is the cache. Messages arrive in order until the stream breaks; only
  resumptions bring existence filters, in the runs together with their snapshot
  (`LateSnapshots` is TRUE in no run); targets are never collected as garbage.
- `RemoveLimboTarget` takes all keys out of the queue of limbo resolutions and
  then starts others in the room that leaves. The code
  (`sync_engine.cc` 562-577, 611-624) goes key by key and starts others after
  each that was being resolved, so that a key about to be removed itself may be
  watched and unwatched in between; that pair of requests is left out.
- `AppShell` has one e-mail address, and its two writes to the Users document
  take effect at once (the same phone reads them back through its queue).
- Loading circles and messages are routes, the drawer is not: the `pop` before
  its `pushNamed` closes it.
- The search page's filter, the icons `isJoined` and `isNotified`, text fields
  and the formatting of dates and times are left out.
- An event's day is its midnight, as the date picker returns it. Volunteer
  dates are parsed from text; which day comes out is left open (any of `Days`).
- The delete of the personal calendar asks for a document id without a path in
  a collection group, which the client refuses before it sends anything: no
  state changes, and it is no action here.

## Not modelled

- `Calendar_old/`, `calender_service.dart`, `login_screen.dart`,
  `services/auth_service-Duplicatefile.dart`: no route of the app reaches them;
  with them the token half of `auth_service.dart`.
- Widgets, themes, images: no state.
- Profile: it shows the Users document and one fixed picture; the upload of a
  picture is reached by nothing (`profile_page.dart:93` is commented out).
- Platform runners, `firebase_options.dart`, pods other than the Firestore
  core: generated or third-party. Most of the repository is these; of the
  vendored code only what every page of the app depends on, the Firestore core,
  is modelled, and of that core not transactions, bundles, indexes, aggregate
  queries, limits, the memory persistence and garbage collection: the app uses
  none of them or cannot observe them.
- A refused limbo resolution: the server's removal of a limbo target with an
  error (`remote_store.cc` 273-277), upon which `SyncEngine::HandleRejectedListen`
  (349-387) makes room for the next and applies a made-up delete of the document.
  `Listening` has refused targets, of queries; `WatchTargets` has no refusals.
- Dismissed circles, beyond what FormFreed and RegistrationDocumented say of
  them: CircleCoversForm, NeverBlank and ProfileKept exclude them, because with
  them a continuation pops routes that are not its own.
- A composition of `Listening`, `Sessions` and `WatchTargets` into one client:
  they share the restart of the network and the worker queue, which each of
  them has, and its state space is out of reach.

## Plan

1. SyncedIsTrue of `WatchTargets`, on top of ResumeSound.
2. `EventDates`: what the forms' date and time checks accept, and dates
   formatted day first and parsed month first, as operators against a
   reference over bounded inputs.
3. Local writes in `WatchTargets`: limbo documents under a pending write.
