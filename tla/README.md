# Models of shophub-back in TLA+

shophub-back is the Go server of a pet shop with chat rooms and customer
service: an HTTP API on echo, tables in PostgreSQL through gorm, Redis for
on-line lists and rate limits, WebSockets for chat. This directory holds TLA+
models of its parts that keep state, the TLC runs that check them on small
instances, and proofs, checked by TLAPS, that the most important properties
hold for every instance.

To check a run: `tlc -workers 2 -config ChatHubRoom.cfg MCChatHub.tla`;
to check proofs: `tlapm ChatHubProofs.tla`. `PROJECT.json` lists the runs, the
line each definition models, the hazards and the findings.

## 1. The system

| Component | Source | State | Operations |
|---|---|---|---|
| Chat room hub | `handlers/chat_websocket_handler.go` | channels `Register`, `Unregister`, `Broadcast`, a `Send` per client; `room.Clients`; Redis hash of on-line users | `HandleWebSocket`, `readPump`, `writePump`, `ChatRoom.run` |
| Chat message store | same, `models/message.go` | `dbQueue`, table `messages` | `handleChatMessage`, `dbWorker`, `GetMessages` |
| Rate limiters | `limiter/limiter.go`, `middleware/customer_middleware.go` | a Redis hash or counter per key | `Allow`, the middleware |
| Customer sessions | `handlers/customer_handler.go` | table `customer_sessions` | `CreateOrGetSession`, `UpdateSessionStatus`, `updateCustomerServiceSession` |
| Rooms | `services/room_service.go`, `handlers/room_handler.go` | table `rooms` | create, list, enter, delete |
| Accounts and tokens | `services/auth_service.go`, `handlers/auth_handler.go` | table `users`, tokens in the clients' hands | `OAuthCallback`, `Register`, `Login`, `RefreshToken` |
| Categories | `handlers/category_handler.go` | table `pet_categories` | create, update, delete, tree |
| Routes and authentication middleware | `server/routes.go`, `middleware/` | none | the account of a token, who may call what |
| OAuth providers | `services/oauth_service.go` | none: the state parameter and the token carry it | `GetAuthURL`, `ExchangeCode`, `GetUserInfo` |
| Order messages | `kafka/` | the partition, the group's offset | `SendMessage`, `Start`, `ConsumeClaim`, `Handle`; not started by the program yet |
| Redis client, configuration, start-up, shop tables | `redis/`, `config/`, `main.go`, `models/` | none | wiring |

How they meet:

- The connections of a room and its hub share four kinds of bounded channel. The
  hub is the only reader of the room's channels and the only writer of
  `room.Clients`; the handlers and the hub meet again in the Redis hash, which
  survives the process.
- `handleChatMessage` offers each message to one queue that all rooms share,
  from which four workers insert into the table that `GetMessages` reads.
- `CreateOrGetSession` inserts a row of `rooms` for its customer;
  `DeleteRoom` deletes rows of the same table; the chat handler looks for a
  customer session for some rooms.
- `OAuthLogin` sends the state and the wanted type of account to a provider;
  `OAuthCallback` gets them back, asks the provider who it is and hands the
  answer to `FindOrCreateOAuthUser`. The tokens that come out of it are what
  `AuthMiddleware` looks accounts up by.
- The rate limit middleware stands before `Register` and `Login` and lets
  requests through when Redis fails.

What is hard: the interleavings of handlers, writers and hub with full channels;
handlers that read rows and write them back in separate statements; statements
that fail half way and errors that are ignored; a restart that loses memory but
neither Redis nor PostgreSQL; consumers that go on with a partition that is
no longer theirs; clocks read at another moment than they are used.
`PROJECT.json` lists each such hazard at its line, with the properties about it.

## 2. The modules

Each component is a module that declares its parameters as CONSTANTS, an `MC…`
module, where one is needed, gives the constants of an instance that a `.cfg` cannot express, and a
`…Proofs` module holds the theorems. A step of a model ends where the code can
be preempted with an effect on somebody else: at a channel operation, a Redis
command, an SQL statement, a socket operation. Definitions whose comment begins
with "Slip:" are no part of a specification. Each is a plausible mistake in the
definition it stands before, and putting it in that one's place makes a property
fail.

### ChatHub

One room. `pc[c]` is the position of a connection's handler goroutine, from
`"register"` in `HandleWebSocket` to the last step of the deferred function of
`readPump`; `writer[c]` is its `writePump`; `hubPc`, `hubClient` and `todo` are
`ChatRoom.run`. The channels `Register`, `Unregister` and `Broadcast` are
sequences with their capacities as constants; of `client.Send` only the number
of waiting messages is kept, because nothing depends on what they say. A message
is its kind and its sender. The environment loses peers (where `Mishaps` has
`"lost"`), sends up to `MaxFrames` frames, and, `MaxMishaps` times at most, fails a
Redis command, lets the hash expire or restarts the process. The hash expires 24 hours after the last
registration, which alone renews its TTL, whatever goes on in the room then; and
a process may start with a hash that an earlier one has left (`Init`). `stale`
is a history variable: the users about whom a Redis error, an expiry or a restart
may have made the hash wrong, until they are next written to it or taken off.

The 16 and 256 slots of the real channels are constants; the runs give them one
or two slots so that "full" happens. A wedged hub needs
`UnregisterCap` evictions and departures to be queued while the hub is in one
fan-out, which the duplicates of one slow client make possible for any capacity
if `BroadcastCap` messages wait.

### MessageStore

The path of a message from `handleChatMessage` through `dbQueue` and a worker to
the table and to `GetMessages`. A message is its sender and its number, and
`Stamp[n]` is what `time.Now` says, in the microseconds that the column keeps,
when the n-th message is received: any function, so the clock may stand still or
be set back. Stages `"offer"` and `"post"` are the points `"persist"` and `"post"`
of ChatHub. `broadcast` is the order in which messages enter `room.Broadcast`; the
capacity of that channel is left out, so a handler may post at any later time, as
it may when it waits for the hub. `HistoryOrder` is the `ORDER BY created_at` of
`GetMessages`, over all its pages; rows of equal stamps may come in any order.

### Limiters, TokenBucket, IdealBucket, FixedWindow

`Limiters` is `limiter.Manager`: one of the two strategies, chosen at the start
(the server chooses the token bucket).

`TokenBucket` is the Lua script with its lazily refilled, expiring hash, the stamp
that is taken before the script runs, the fail-open middleware and the clock.
Between the stamp and the script up to `MaxDelay` seconds pass, and other scripts
run. `rewound` is a history variable: the seconds by which scripts that came late
have set `last_time` back, which the hash will refill again. Tokens are
counted in units of 1/`Window`, so that the rate is an integer; rounding of the
`float64` rate and of Lua's numbers is not modelled.

`IdealBucket` is what a token bucket promises to requests that reach it up to some
time after they were made: it may get back the `Slack` units which that time has
generated, and may refuse for lack of them. The refinement maps its level to what a
request stamped now would find (`Level`), an answer to the phase of a request, and
`Slack` to the units of `MaxDelay` seconds; a request that bypasses a failing
Redis is a stutter.

`FixedWindow` is the other strategy, one atomic script. Time is counted in ticks
that are fractions of a second, because `EXPIRE` takes whole seconds.

### Rooms, CustomerSessions

`Rooms` is table rooms with the rooms that users create and delete. `DeleteRoom`
is a transaction of two statements at READ COMMITTED.

`CustomerSessions` extends it with table customer_sessions and the calls on it, a
step per SQL statement, so that `CreateOrGetSession` and `DeleteRoom` work on one
table. A call that is going to `Save` holds a copy of the whole row as it was read
(`copy`), and that is what it writes; of the columns those are kept that a property
is about (`user_id`, `room_id`, `status`, whether `last_message` is set). A
customer's message may name the room in either of the two ways the code has in
mind: by key, or with the prefix `customer_service_`. `overlaps` is a history
variable: for each user, the calls that found no session while another call of
the user was between its search and its INSERT.

### Accounts, SignIn

`Accounts` is table users with the callbacks of OAuth providers in three steps
(fetch the profile, find the account, save or create), one-step registrations,
logins and refreshes, and profiles that change at the provider, names included.
`called` is a history variable: the names each identity has had there. The unique
indexes of `models/user.go` are guards of the statements. Passwords are right,
and tokens do not expire. A fetch may fail for any reason.

`SignIn` extends it with everything before the fetch and with the types of
accounts. The server keeps nothing between `OAuthLogin` and `OAuthCallback`, so
`OAuthLogin(c)` is an operator, the states of the addresses it answers with, and
the callback comes with one of these or with another state (`OtherStates`), as
nothing compares them. A state is a sequence in which the separator is one
element; `AfterCut` is `strings.Cut`. A token is
known by the marks in its `Extra`, because these and the provider's name decide
which function reads the profile and whether it can (`Readable`). A provider
gives an identity one of `EmailsOf`: WeChat gives none, which is the empty
string, a value like any other for the unique index on `email`. `types` runs
parallel to `users`. `Authenticate` is the look-up of `AuthMiddleware`.
`ImplementsAccounts` says that all this is an implementation of `Accounts` (the
variables have the same names, so the refinement mapping is the identity): a
login, an exchange and a read of the profile are stutters or fetches.

### Orders

One partition of the topic: `SendMessage` with the repeated attempts of sarama's
producer, and the consumer group. `log` is the partition, `next[c]` the offset a
consumer's claim is at, `marked[c]` what it has marked, `committed` the group's
offset. `Handle` and `Mark` are two steps, because a crash can come in between.
The broker, the coordinator and sarama are external and modelled from the
settings of `NewSaramaConfig` and the way `Consumer` uses them: a group without
an offset begins at the end of the log (`OffsetNewest`); what is marked is
committed now and then and when a session ends in good order; a consumer that
misses heartbeats loses the partition before it notices, and as `Handle` takes
no notice of the session's context it handles and marks what it has fetched,
while the coordinator refuses its commits. A repeated attempt can write an order
twice. `first` records where the group began to read, and `handled` how often
each offset was accepted, for the properties.

### Categories

Table pet_categories with soft deletion, its unique index and foreign key, which
see deleted rows too; update and delete are several statements. `serial`, chosen in
the initial state, restricts the calls to one at a time with parents taken from
the list of live categories.
As the routes are wired today these calls all answer 401 (the admin group has
`adminMiddleware` but not `authMiddleware`, `server/routes.go:58-62`), so the
model says what they do once that is mended.

## 3. What the runs check

Deadlock is not checked: every system here may come to rest, because the inputs
of each instance are bounded, and a wedged hub is a state with properties of its
own.

| Run | Instance | Shows |
|---|---|---|
| `chat_hub_room` | two connections of one user, who may be on an old list, one frame, `SendCap`, `RegisterCap`, `BroadcastCap` 1, `UnregisterCap` 2, one fault of any kind | types; the hub never panics; the on-line list is the membership but for users a fault has hit; after restarts it lists at least the connected users; a panicked handler is out of the room; a wedged hub stays wedged until a restart |
| `chat_hub_live` | two connections of one user, all capacities 1, peers that are lost | unless the hub is wedged: every evicted or lost connection winds down, a slow client leaves the room, a handler that waits to send its init message is freed by the next message |
| `message_store` | two connections, two workers, a queue of two, four messages with a clock that stands still and is set back, a failing insert, a restart | nothing saved twice or after it was given up; history keeps the order of each sender; every broadcast message is saved or given up |
| `limiters` | token bucket: five requests, two tokens in three seconds, expiry 4 s, eight seconds, scripts up to a second late, a Redis error; fixed window: seven requests, two in two and a half seconds, half-second ticks | the rate holds but for seconds set back; the script implements the ideal bucket; bursts at most double in a life of the key; no refusal below the limit |
| `customer_sessions` | two calls of one customer, at once or in turn, one of another, an update, a message, a room of a user, two deletions, a failure | second sessions need overlapping calls; every session has a live room of its own; rooms end by their owners |
| `sign_in` | two concurrent sign-ins of one GitHub identity for different types, one with WeChat, one with a provider that is not configured, callbacks with other states, registrations, a change of a profile (email, name or both), a failing statement, a provider that fails | an account for each name of an identity at most, of a type that came with a callback of its own; nobody is signed in as somebody else or refused without a reason; a token keeps its account; SignIn implements Accounts |
| `orders` | two orders, a malformed message, two consumers, a repeated attempt, a rebalance, a fault | nothing is committed that was neither handled nor refused; only faults repeat a message; a sent order is handled in the end |
| `categories` | an update and two deletions, at once or one at a time, three names, a failure | a deleted category stays as it was; calls one at a time leave nothing below a deleted category |

Three runs use symmetry: `chat_hub_room` of the two connections of one user,
`limiters` of the requests with one key, `customer_sessions` of the two calls of
one customer and of the two deletions of one caller. They differ in nothing,
and these runs check safety only.

The bounds are chosen so that each situation the properties distinguish occurs:
every channel gets full and empties, two connections of one user are members at
once, a client is evicted twice, the hash expires while requests go on, two
calls of one owner overlap, an identity gets its second account, a late script
sets `last_time` back, a failure falls on each statement, a consumer handles
messages of a partition that another one has claimed. A user of an earlier process
who is back with two connections, one of which leaves, is part of `chat_hub_room`,
for its list may be old at the start; a list that goes stale with a restart while
both are connected is beyond it (a connection does not come back) and covered by
`RestartsHideNobody`. Peers are lost in `chat_hub_live` only: reads and writes may
fail in `chat_hub_room` at any time, and a loss merely makes sure that they do. A
third connection, message or call adds interleavings of the same kinds; where a
theorem exists it removes the question.

### Disagreements

Runs that end in a violation, each of one sentence in the repository that the
code does not keep (quoted in `PROJECT.json`, "findings"):

| Run | What happens |
|---|---|
| `chat_hub_stuck` | the hub waits for room in `Unregister`, which only it empties |
| `chat_hub_ghost` | `Unregister` is served before `Register`: a member that is gone |
| `customer_chat` | a chat message leaves the session of its room as it was |
| `sign_in_workchat` | a user of the configured enterprise WeChat is refused |

The wedge needs `UnregisterCap` evictions and departures waiting at once; in the
run, with one slot, a single departure is enough. The ghost needs a peer that
leaves before the hub has served its registration; it stays until undelivered
messages fill its `Send`, when the hub evicts it like any slow client.

A chat message updates a session only in a room named `customer_service_…`
(`chat_websocket_handler.go:461`), and the update then compares that name with the
integer column `room_id`; a room goes by its number. `UpdateLastMessage` in
`customer_handler.go` has no caller.

The provider of WeChat for enterprises is called `workchat` everywhere but in
`GetUserInfo` (`oauth_service.go:305-320`, `en_workchat`), so that the profile is
asked of `getCustomUserInfo`, which always fails; and if it were not, `agent_id` is
put into the token as a number (line 266) and expected as a string (line 447).
`Readable` is false for it, as for every custom provider; `RefusedForAReason` is
about the other four, and `EnterpriseSignsIn` about this one.

Where the code does not prevent something that one would rather not see, the
property says exactly how far it goes, most often by a history variable:

| Property | What the code allows | and no more than |
|---|---|---|
| `PresenceMatchesClients` | Redis errors, expiries and restarts make the list wrong | about the users they hit, until these are next written or taken off |
| `HistoryAgreesWithLive` | messages of one sender change places in the history | those for which the wall clock did not move on |
| `AdmittedWithinRate` | late scripts set `last_time` back, and seconds are refilled twice | what these seconds (`rewound`) generate |
| `ImplementsIdealBucket` | late scripts are served as of their stamps | the units of `MaxDelay` seconds |
| `BurstAtMostTwice` | `EXPIRE` cuts the window to whole seconds (of half a second nothing is left, and nothing is limited) | two windows' worth in a life of the key |
| `SecondSessionNeedsOverlap` | two calls of a user at once make two sessions | one for each overlap |
| `OneAccountPerName` | an identity that changes its name at the provider gets a second account, by a race of two callbacks or a failing search | one for each name |
| `RepeatedOnlyByFaults` | a message is handled again | once for each fault |

Three properties have a premise that the code does not enforce, in their formulas:
`NoOrphans` is about calls made one at a time without a failing statement (a child
added between the count and the deletion would be orphaned), `TypeAsAsked` about
states of the frontend without a separator, and `SentIsHandled` about groups that
have an offset (one without begins again at the end of the log, and an order in
between is skipped). `RefusedForAReason` counts as a reason that two identities
have no email, for `users.email` is unique and none is a value like any other.

Other things the models show, about which no property is stated: `sendInitData`
can send on a channel the hub has closed (`pc` reaches `"panicked"`); `Save` writes
whole rows, so that `Reactivate` puts back to pending a session an administrator has
made active since it was read; tokens can carry an email that `Save` failed to
store; two deletions of one room can both answer success; a worker can save a
message before its handler has broadcast it; of two first sign-ins of one identity
at once, one is refused; the type a second sign-in asks for is ignored; a callback
whose state has no separator makes an account without a type; `Register` accepts
an empty email, for nothing calls the validator. And two that take no model:
`ListRooms` dereferences a configuration that `NewRoomService` drops
(`services/room_service.go:36,79`), and `GetCategories` loads one level of children
(`handlers/category_handler.go:26`).

### Fairness

`ChatHub!Fairness` is weak fairness of each goroutine: the handler of a
connection, its writer, the hub. The Go scheduler runs what can run, and a
goroutine blocked on a channel waits in a first-in first-out queue; the finite
traffic of an instance makes weak fairness enough for that. Peers are not fair:
they need not connect, send or leave. The one exception is a read on a lost or
closed socket, which fails, at the latest at the 60 s deadline (`ReadFails`). A
ping that fails is no obligation either. Which case a `select` takes is random
in Go, and nothing is assumed of it.

`MessageStore!Fairness` is weak fairness of each worker that has something to
take or to save. Whether an insert succeeds or fails is left open.

`Orders!Fairness` is weak fairness of the claims of each consumer (a goroutine
that ranges over the messages), of its noticing that it has lost the partition
(the next heartbeat tells it) and of some consumer calling `Consume` again, as the
loop of `Start` does. Commits, rebalances and faults may happen or not.

## 4. What is proved

For every value of the constants that the named assumptions allow:

| Theorem | Establishes | Assumes |
|---|---|---|
| `ChatHubProofs!TypeCorrect` | `TypeOK` | |
| `ChatHubProofs!HubDoesNotPanic` | `NoHubPanic` | |
| `ChatHubProofs!PanickedLeaves` | `PanickedIsEvicted` | |
| `ChatHubProofs!PresenceIsMembership` | `PresenceMatchesClients` | |
| `ChatHubProofs!WedgeIsPermanent` | `WedgeEndsOnlyByRestart` | |
| `ChatHubProofs!RestartsHideNobody` | `ConnectedAreListed` | |
| `LimiterProofs!BucketTyped` | `TypeOK` | |
| `LimiterProofs!BucketIsIdeal` | `ImplementsIdealBucket` | `Window <= TTL` |
| `LimiterProofs!RateIsKept` | `AdmittedWithinRate` | `Window + MaxDelay <= TTL` |
| `LimiterProofs!RefusalsAtLimit` | `RefusedOnlyAtLimit` | |
| `LimiterProofs!BurstsOfALife` | `BurstAtMostTwice` | |
| `LimiterProofs!BurstsAreBounded` | the same of intervals as long as the window | windows are whole seconds |
| `LimiterProofs!ManagerDelegates` | `LimiterSpec` implies `Spec` and `WindowSpec` | |
| `MessageStoreProofs!StoreTyped` | `TypeOK` | |
| `MessageStoreProofs!MessagesAreSavedOnce` | `SavedOnce` | |
| `MessageStoreProofs!HistoryIsLive` | `HistoryAgreesWithLive` | |
| `MessageStoreProofs!BroadcastsAreAccounted` | a broadcast message is under way, saved or counted as lost | |
| `MessageStoreProofs!FatesAreFinal` | saved stays saved, lost stays lost | |
| `RoomsProofs!OwnersEndRooms` | `GoneByOwner` of the rooms alone | |
| `CustomerSessionsProofs!TypesAndRooms` | `OwnRooms`, `SessionRoomsExist` | |
| `CustomerSessionsProofs!OverlapsMakeSessions` | `SecondSessionNeedsOverlap` | |
| `CustomerSessionsProofs!SessionsTyped` | `TypeOK` | |
| `CustomerSessionsProofs!OwnersStillEndRooms` | `GoneByOwner` beside the customers' calls | |
| `SignInProofs!TypesAndSignIn` | `TypeOK`, `SignedInAsThemselves` | |
| `SignInProofs!NamesBoundAccounts` | `OneAccountPerName` | |
| `SignInProofs!SignInIsAccounts` | `ImplementsAccounts` | |
| `SignInProofs!EverySignInIsItsOwn` | `SignedInAsThemselves` of sign-ins | |
| `SignInProofs!NamesBoundSignIns` | `OneAccountPerName` of sign-ins | |
| `SignInProofs!TokensStay` | `TokensKeepTheirAccount` | |
| `SignInProofs!SignInTyped`, `TypesAreAsked` | `SignInTypeOK`, `TypeAsAsked` | no separator in the frontend's states (in the property) |
| `SignInProofs!RefusalsHaveReasons` | `RefusedForAReason`: Google, GitHub, Facebook, personal WeChat | |
| `CategoriesProofs!CategoriesTyped` | `TypeOK` | |
| `CategoriesProofs!DeletedStaysDeleted` | `DeletedIsFinal` | |
| `CategoriesProofs!DeletionsLeaveNoOrphans` | `NoOrphans` | one call at a time and no failing statement (in the property) |
| `OrdersProofs!OrdersTyped`, `CommitsAreHandled` | `TypeOK`, `CommittedIsHandled` | |
| `OrdersProofs!RepeatsNeedFaults` | `RepeatedOnlyByFaults` | |
| `OrdersProofs!CommitsOnlyAdvance` | the group's offset never goes back | |
| `OrdersProofs!ExactlyOnceWithoutFaults` | what is committed was handled exactly once | `faults = 0` (in the statement) |

The two assumptions of the limiter are about settings: the server has a window of
one second and the script an expiry of 60 (`server/server.go`, `limiter.go:110`),
so that a script may be 59 seconds late.

The arguments:

- **The hub does not panic.** That every member's `Send` is open is not inductive:
  a client could be in `Register` with its `Send` closed, or twice. `MembershipInv`
  adds that a connection is queued in `Register` at most once, only after
  its handler sent it, never while it is a member, and that `Send` is closed only
  after all that. The snapshot `todo` stays within the members because the hub
  takes nothing from `Unregister` during a fan-out. That the eviction of a slow
  client is queued and not done on the spot is what the argument rests on, and
  `HubKickCloses` shows what the shorter way would break.
- **The list is the membership.** `PresenceInv` says what the hash is, of the users
  who are not `stale`, between the change of `room.Clients` and the Redis command:
  short of the user that was added, or too long by the user that was removed. A
  command that fails makes that user stale, one that succeeds no longer so, since
  list and members then agree about the user; an expiry and a restart empty one of
  the two sets, and the other one is what becomes stale.
- **Restarts hide nobody.** `ListedInv` is the half of `PresenceInv` that a
  restart does not break: the users of the members are in the hash, but for the
  one that is being added.
- **The script is an ideal bucket.** `StampsInv` says that a waiting stamp is at most
  `MaxDelay` seconds old and that the hash expires `TTL` after its last admission
  or later. The key lemmas are that a bucket is full after `TTL >= Window` seconds
  (so that an expired hash and a full bucket are the same), that refilling lazily
  over several seconds equals refilling each second, and that a script which is
  late finds at most the units of its delay less than the level of now. What it
  leaves is then within `Slack` of what the ideal bucket leaves. `RateIsKept`
  follows from conservation (`Conserved`): what the hash holds and what was
  admitted never exceed a full bucket and what was generated up to `last_time`, the
  seconds that were set back counted twice.
- **Overlaps make sessions.** `OverlapInv` counts the sessions of a user and the
  calls that are about to create one: they never exceed one and the overlaps,
  because a call joins them either as the only one, or as an overlap.
- **A room for each session.** `SoleRoom` says that the room a call is about to use is in
  no session and no other call, and that it and the rooms of sessions are live
  and nobody's. `CopiesInv` adds that a row which waits to be saved has the user and
  the room of the row it will overwrite, without which a whole-row `Save` could take a
  room from a session.
- **Customers keep their rooms.** A deletion that has passed its check is about a
  room of its own caller (`DeletionsInv`), and a customer's room is owned by nobody.
- **One account for each name.** `NamesInv` says that no two rows have one name and that
  the name of an account is one that its identity has had (`called`); names then
  count the accounts. Callbacks may hold a profile that has changed since, but one
  of the same identity. Sign-ins inherit this and `SignedInAsThemselves` by refinement.
- **An account's type was asked for.** `TypeInv` says that a type is what `AfterCut`
  makes of the state that one of the identity's own callbacks came with. `CutBack`
  is about sequences alone: cutting at the first separator undoes the composition
  if the frontend's part has no separator.
- **Refusals have reasons.** A call that fails to make an account met the email or
  the name of a row. `ReasonInv` leads from the row's email to a token: whoever
  gives an account its email is handed a token with it, and tokens are kept. It
  also says that the marks of a token fit its provider, without which
  `getEnWeChatUserInfo` could take a sign-in of WeChat for one of an enterprise.
- **Deleted categories.** `UpdateRow` writes live rows only, which is all that
  `DeletedIsFinal` needs besides types. For `NoOrphans`, `CallInv` says that a
  deletion's counts still hold while it is at work, because no other call of the
  administrator is; and a category that moves gets a parent that is live.
- **Commits are handled.** `ClaimInv` says of the owner of the partition, and of
  nobody else, that everything before its offset is dealt with and that
  `committed <= marked <= next`. It survives a second consumer that still
  handles and marks, because the coordinator takes commits of the owner only and
  the owner began at the committed offset.
- **Only faults repeat.** That `handled[i] <= 1 + faults` is not inductive: a
  consumer that lost the partition may still hold the message. `RepeatInv` adds
  to `handled[i]` the claims that have message `i` before them (`Yet(i)`), among
  them the claim that is still to come when nobody owns the partition. A handled
  message moves from the second number to the first; a session that ends in good
  order hands its claim over to the next; a fault adds one claim at most, and one
  to the bound. `Claimants` bounds the claims there are, for a message that is
  only being written. The last part says that an owner has marked everything up
  to its offset but what `Handle` refused, without which a rebalance would bring
  back what was handled before it. `CommitsOnlyAdvance` and
  `ExactlyOnceWithoutFaults` follow from `ClaimInv` and from the two together.
- **The fixed window.** `CountInv` says that what the counter counts was admitted
  since its key was made (`Start`), and that a key which lives has counted
  something. A refusal then finds `WindowLimit` requests of the present key among the
  latest (`RefusalsAtLimit`, for any window). For the bursts, `EarlierInv` says that
  of two admissions which are `2 * WindowLimit` apart in the order, the later one is a
  life of the key later. That is preserved because what the present key does not
  count was admitted before `Start`, and all but `WindowLimit` of it a life before
  that. A life is the window cut to whole seconds, because `EXPIRE` takes no other: the
  theorem speaks of intervals of that length (`BurstsOfALife`), and of windows if they
  are whole seconds (`BurstsAreBounded`), as the one in `server/server.go:80` is.
- **One message, one place.** `SavedOnce` is nearly inductive. `OfferInv` adds that
  a message which is still to be offered is in none of the places yet, and
  `StampInv` that no number is still to come, so that a new message differs from
  all others. `FateInv` says that a message between `Offer` and `Post` is in one of the
  places; therefore a broadcast message always is, and what `EventuallySettled`
  adds is that it does not stay under way.
- **History is live.** The workers may insert in any order, so nothing can be
  said of the order of rows. `LiveInv` says that a row carries its message's own
  stamp, and that the room saw the messages of one connection in the order in which
  they were received, because a connection has one handler, which posts before it
  reads on. Where the stamps have that order too, so has the history.

Only model-checked are the five liveness properties, `EveryConnectionWindsDown`,
`SlowClientLeaves`, `BlockedInitIsFreed`, `EventuallySettled` and `SentIsHandled`:
liveness under fairness is out of the prover's reach. Every invariant and every
action property of a passing run is a theorem. TLC has checked each inductive
strengthening as an invariant of the instance of its run.

## 5. What is not modelled

- Contents and formatting of messages, colours, pagination, sort orders, cookies,
  password hashing and token expiry: no property depends on them.
- Several rooms at once: rooms share the database queue only, and MessageStore
  lets any connection fill it.
- The data race on `message.ID` (`chat_websocket_handler.go:469`).
- Configuration, start-up, Redis pool: no state of their own.
- `AdminAuthMiddleware`, the groups of `server/routes.go` and the parsing of the
  `Authorization` header: sequential code without state; what follows from it is
  said where it matters (Categories).
- The formats of the providers' answers, avatars, and the assertions on their
  other fields, which fail like an outage.
- Partitions of a topic other than one, and the settings of TLS and SASL.

## 6. Plan

Done, in this order because of what depends on it: ChatHub (the only component
with real concurrency in memory), the limiters with their abstract
specification, MessageStore, Rooms, CustomerSessions on top of Rooms, Accounts,
SignIn on top of Accounts, Categories, Orders, and the proofs above.

Next:

1. `RoomFeed`: what a member of a room sees. An abstract feed in which every
   member sees a contiguous part of one sequence of messages, without gaps or
   duplicates, until it is evicted; ChatHub with the contents of `Send`
   implementing it; whether init list and `user_joined` together miss anyone.
2. `ChatServer`: ChatHub composed with MessageStore, so that "broadcast" and
   "saved" speak of the same messages while the hub is slow, wedged or gone.
3. Composition of Rooms with the chat modules: connections and messages of
   rooms that are gone.
4. Several partitions and more than one group in Orders, once the program starts
   a consumer.
5. A statement of what the hub owes its members that does not need fairness, as
   a refinement: the proofs of 1.
