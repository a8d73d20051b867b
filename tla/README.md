# freizone-bot in TLA+

`freizone-bot` takes short messages from scripts (a local socket) and from HTTP
callers (a webhook), stores each durably, and delivers it to an encrypted group
chat or to single recipients, retrying until it arrives or is too old. It also
keeps itself a member of its configured group and answers a few chat commands.

This directory holds TLA+ models of that program, the TLC runs that check them
on small instances, and TLAPS proofs of the properties that matter most. File
and line references are to the repository beside it (`src/...`).

## 1. The system

| part | state | operations | who it talks to |
|---|---|---|---|
| outbox (`internal/outbox`) | one file per message and destination: attempts, next attempt; a wake-up channel of depth one | `Enqueue`, `Due`, `Done`, `Fail` | called by every worker below, under one mutex |
| delivery (`cmd/bot/daemon.go`) | the slice of due entries each worker holds | `deliverNow`, `attempt`, `runOutbox`, `flush` | outbox, the client library's sends, the log |
| admission (`daemon.accept`) | none | route, deduplicate, cap, enqueue | called by both ingresses |
| deduplicator, rate cap (`internal/outbound`) | last time and swallowed count per key; start, use and refusals of the window | `Allow` | each under a mutex of its own |
| control server (`internal/control`) | listener, wait group, closing flag | `Serve`, `handle`, `Shutdown` | `send` invocations, request handlers |
| socket client (`internal/ipc`, `cmd/bot/send.go`) | one connection | `Do`, `runSend` and its exit codes | control server |
| webhook ingress (`internal/webhook`, `cmd/bot/webhook.go`) | tokens, HTTP server | `LoadTokens`, `ServeHTTP`, `stopWebhook` | admission |
| configuration (`internal/config`) | the environment, read once | `Load`, `ParsePeers`, `MatchRoute` | start-up, routing |
| routing and shaping (`internal/outbound`) | none | `Resolve`, `Render`, `TrimToChatSize` | admission, delivery, replies |
| groups (`cmd/bot/group.go`, `daemon.go`) | resolved group id; the library's facts on disk | `resolveGroup`, `joinConfiguredGroupIfInvited`, `maybeJoinGroup`, `forgetStaleInvitations` | start-up, live stream, upkeep |
| stream and upkeep (`daemon.go`) | connection, a token asking for a round, time of the last round | `runStream`, `runUpkeep`, `upkeep` | server queue, groups, commands |
| commands, declared actions (`internal/command`, `action`, `authz`, `declared`) | allow-list, registry, declared parameters and templates | `resolveCommanders`, `Register`, `dispatch`, `Interpret`, `Execute`, `Do` | stream, the hosts a declaration names |
| lifecycle (`runDaemon`, `internal/account`) | account lock, socket file, identity | registration, start-up order, shutdown order | everything |

The parts meet in one process: request handlers (a goroutine per connection), the
delivery loop, the stream, upkeep and main run at once. They share the outbox,
the deduplicator and the rate cap through mutexes, the group id and the library's
facts through nothing, and the end of the process through a context and channels.

What is hard here, and what has to hold:

* **Delivery.** Three kinds of worker work from snapshots of the due entries and
  send without holding a lock. A crash may come between any two steps, a file
  operation may fail, a send may arrive and report an error. A message a caller
  was told is queued must arrive, stay held or be given up on; nothing that was
  settled may come back; everything ends.
* **Admission.** Three locks one after another, over several handlers. No key
  twice in a window, no message count lost, the cap kept.
* **Durability.** write, fsync, close, rename, over a file system that writes back
  when it likes.
* **Groups.** Invitations are announced once and may wait on disk from an earlier
  run, with an earlier configuration. Each wanted one must be answered, no other.
* **Inbound.** The stream and the drain of an upkeep round get hold of the same
  envelopes, which the server hands out again until acknowledged; rounds are asked
  for by reconnections and a ticker, and spaced. A command must run once at the
  most, what was stored must be followed up, nothing may wait at the server long.
* **What the settings mean.** A setting is read, checked, completed and used in
  different places and at different times: a short id may name several accounts or
  none, a group's prefix may be resolved after the first request is served, a rule,
  a pattern or a template is written by hand. A message must reach everybody it is
  meant for, once, or be refused; a command must come from whom the allow-list means
  and be carried out with what was typed; a declared request must stay at its host;
  what is cut must say so.
* **Control and lifecycle.** A shutdown races with accept, with handlers, with HTTP
  requests and with callers' deadlines; the socket file survives a crash and must never be stolen
  from a live process.

`PROJECT.json` lists all components, with the ones not modelled, and every hazard
at its line.

## 2. The modules

| module | models |
|---|---|
| `Outbox` | the directory of entries and the operators over it: room, due, backoff, expiry, removal |
| `Delivery` (extends `Outbox`) | the workers over the outbox: handlers, loop, flush, shutdown, kill, restart |
| `Promise` | the abstract specification of delivery: what a caller is told and what then becomes of the message |
| `Deduper`, `Limiter` | the two caps, each with relative time |
| `Admission` (extends both) | `accept` run by concurrent handlers |
| `Durability` | `writeLocked` call by call, with a file system below it |
| `Groups` | the configured group and its invitations over start, stream, upkeep and restart |
| `Inbound` | what is sent to the bot: the live stream, the upkeep rounds and their spacing, the dispatch of commands, over stop, kill and restart |
| `Control` | `send` invocations with the control server, HTTP requests with the webhook's, and the shutdown of both |
| `Addresses` | ids, prefixes and servers of configured addresses, and when two spellings are one |
| `Routing` (extends `Addresses`) | rules, routes and destinations of a message, and what its text looks like |
| `Commands` (extends `Routing`) | who may command, the parser, the registry and its validation |
| `Declared` (extends `Commands`) | declarations: validation, templates, the request, redirects, the answer |
| `Surface` (extends `Declared`) | start-up from settings to a serving bot, step by step, then messages of both ingresses and commands of the chat |
| `Lifecycle` | several daemon processes over one account directory and socket path: start-up with registration, and the end |
| `...Proofs` | the theorems about the module of that name |
| `MC...` | small instances for TLC |

How state and steps correspond to the code:

* **Delivery.** A message stands for the request that carries it, so `pc[m]` is
  where its handler is. `held`, `attempts` and `wait` are the entries' files (time
  is relative: `Tick` lets it pass). `Enqueue` is one step per file and takes the
  outbox's lock, as `EnqueueBegin`, `EnqueueWrite`, `EnqueueEnd`. An attempt is a
  send (`SendOK`, `SendFails`, `Arrive`) and then a record of it (`RecordSent`,
  `Retry`, `GiveUp`, `LetBe`), with anything in between. `phase` is main's way
  through `Shutdown`, `flush` and the waits.
* **Admission.** A request steps through the deduplicator, the cap and the outbox,
  one lock at a time. Each cap is its code's `Allow`, with eviction and the end of
  a window.
* **Durability.** Inodes, names in memory and on disk, and contents that are none,
  half or whole. `WriteBackData` and `WriteBackDir` are the file system's leisure.
* **Groups.** `facts` is what the library holds on disk; `Start`, `Resolve`,
  `LookOnDisk` and `AcceptWaiting` are the start-up path, `Receive` and `MaybeJoin`
  the stream and the drain, `ListGroups`, `Examine`, `Forget` the stale pass, each
  call to the library a step of its own. Time passes (`Tick`) whatever the loops have in
  hand, and an invitation may be past the retention when it is announced.
* **Inbound.** `pc["stream"]` and `pc["upkeep"]` are the two loops; both take an
  envelope through `Handle` (store it, which tells whether it is new, then
  acknowledge it) and `OnReceived` (dispatch, answer, and the group's follow-up,
  which is `Groups`' and stutters here). `wanted` is the channel of depth one,
  `ticker` the maintenance ticker, `since` the time from the last round's start.
  The connection and the server's queue are external, and follow the library's
  contract as the code relies on it.
* **Control.** `conn[c]` follows a connection through accept, the wait group's
  `Add`, the handler and the answer; `cli[c]` is the exit code of its caller.
  `hook[p]` and `status[p]` do the same for a request over HTTP, whose accept loop
  and wait are net/http's. What a handler decides is any of its results, with the
  effect it has. `main` goes through `stopWebhook`, with its five seconds, and then
  the socket's `Shutdown`, with the grace.
* **Surface.** `setting` is the environment with the files it names, `stage` how far
  `runDaemon` has come with it (`Load`, `ResolveCommanders`, `BuildSurface`, `Serve`,
  `ResolveGroup`), and `commanders`, `actions` and `groupID` what these have left.
  `job` is the one message (`Send`, `Hook`, `Deliver`) or command (`Receive`,
  `Execute`, `Redirected`, `Answered`) in hand: none of them shares state with another
  but what start-up has settled, and messages come from the stage `serving` on, before
  the group is resolved. An id is a sequence of letters that begins with its version
  marker, a text a sequence of lines with sizes of which a few say something, a value
  a sequence of words, a template one of words and holes, a pattern the sets of values
  it matches.
* **Lifecycle.** `pc[p]` follows `runDaemon`; `work[p]` is what of the process uses
  the account in the background; `lock` is the library's, let go by `Close` or by
  the kernel. `identity` and `prekeys` are what registration leaves in the directory
  and at the server; `accounts` counts what it made there.

## 3. The runs

Each finishes in under two minutes on two cores.

| run | instance | shows |
|---|---|---|
| `delivery_races` | one fan-out of two with `-wait`; a stop, a kill, lost acknowledgements | three workers over the same entries: nothing acknowledged is lost, what one worker cleared no other brings back, and `Delivery` implements `Promise` |
| `delivery_bound` | two requests, one with a fan-out of two and one that waits, for two places; a failing file operation, failing sends | the bound holds over concurrent requests, what a caller is told (full, or delivered to so many) is true, an entry that no waiting handler had a hand in ends once, and both callers are answered, wherever they meet each other and the loop |
| `delivery_live` | one request with one entry; a stop, a kill, a failing file operation, a destination that may be dead | every entry settles, every shutdown ends |
| `admission` | four requests, two keys, an outbox that may refuse | no key twice within a window; fewer than twice the limit in any minute; every suppression is handed to exactly one message or still waiting |
| `durability` | four inodes, three contents, process death and power loss | no entry is ever half-written; what was acknowledged stays unless the power fails |
| `groups` | two groups; whole, prefix or no setting; a failing call, two crashes; invitations of any age | wanted invitations are never left, no other is joined, the group a prefix was completed to is held throughout, only what is old and not configured is forgotten, a membership only with the opt-in and only between the look and the forgetting, and the configured group's is accepted in the end unless a call failed |
| `control` | two callers of the socket and a request over HTTP | exit codes and statuses are true, a shutdown misses at most one connection, a signal ends the process although a handler hangs |
| `lifecycle` | three processes | the socket is the listener's, a stale one is no obstacle, loops end before the lock, no second account is made, a bot that serves can be written to |
| `inbound` | two commands, one from a group; a ticker of 3, rounds 2 apart; a stop, a kill, a failing call | a command runs once at the most, what was stored is followed up, nothing waits longer than the ticker and the spacing |
| `surface` | some 960 settings, right and wrong: two servers with accounts that begin alike, the bot's own one written out and left out, two groups that begin alike, rules, tokens, declarations, patterns anchored by hand | no one is sent a message under two spellings but the own server's beside none, a message is taken for everybody it is meant for or refused, only those the allow-list means may command, a handler sees what was typed, declared requests stay at their host, and what is cut says so |

Two more runs, `acked_lost` and `reconnect_undrained`, are expected to fail: each
checks one statement of the documents that the code does not keep; section 6 lists
them.

**Bounds and why they are enough.** One or two messages with a fan-out of two are
enough for every race: an entry is the unit that workers contend for, three
workers already can hold the same one, and a partial fan-out needs two. In `delivery_bound`,
which has fairness, two handlers and the loop contend for one lock and two places: one
handler waits at the lock while the other writes, is refused while the other's entries are
held, or finds that the loop has sent what it is waiting for. Kills,
stops and faults are bounded at one or two per behaviour, so they come at every
place but not for ever (`MaxStops`, `MaxCrashes`, `MaxFaults`). `AttemptCap` and
`BackoffCap` saturate counters that only lengthen waits; `CopiesCap` counts copies
to two, since three say no more. In `Admission` four requests reach past a window's
edge, and past the age at which a key is evicted, with `Window` 1, `Limit` 2 and
`Minute` 2. `Durability` needs an inode for the entry, for its successor, for a
leftover under the temporary name and one spare. Two groups are needed for an
ambiguous prefix. In `Inbound` two envelopes let one be drained while the other
streams; `Interval` 3 over `Spacing` 2 is the smallest pair in which a reconnection
can come between two ticks and still too soon, and a ticker's round can be
skipped. `MaxEvents` bounds the events the stream has not read. A `Tick` there waits
until nobody has a step to take, so that time measures waiting and not the speed of
a goroutine; a round and a call take no time. `Lifecycle` needs three processes:
one that holds, one that is refused and one that is past its release. `Control`
needs two connections of the socket, for one to slip past the wait while the accept
loop takes the other, and one HTTP request, since net/http's wait has no such gap.
`Surface` varies the parts of a setting that meet: groups, recipients, rules and
groups held in full with each other; allow-lists, the opt-in for groups and files of
declarations likewise; the rest one at a time. `Full` 3 is the shortest whole id of
which a prefix can be ambiguous at one server and not at the other. `MaxLines` 4 and
`MaxChars` 10 stand for 60 and 4000: texts of 4 and 6 lines, and of more bytes than
fit, are on either side of both limits, and lists of 3, 4 and 5 entries on either
side of the limit on a list. Symmetry is used only in runs without liveness, over
requests of the same key and over processes.

**Deadlock** is checked in every run but `control`, whose process and callers end
for good, and `surface`, whose start-up may refuse its settings. Elsewhere time
passes, or a process restarts, for ever.

**Fairness.**

* `Delivery`: each handler, main and the loop are goroutines that run when they can
  (weak fairness), which includes that a send returns. The loop's exit is strongly
  fair: Go's `select` chooses among ready cases at random, so an ended context is
  not passed over for ever. Time passes, and a service manager restarts the daemon.
  No request, signal or kill is assumed to come.
* `Groups`: the service manager starts the daemon, the maintenance timer brings
  upkeep rounds, and each loop goes on. No invitation or crash is assumed.
* `Control`: goroutines run, callers have a deadline and main's waits have one. A
  handler is not assumed to return.
* `Inbound`, `Lifecycle` and `Surface` state safety only. How long an envelope may wait is a
  bound there, `FetchedInTime`, which is more than that it is fetched in the end.

## 4. What is proved

TLAPS checks these for every value of the constants, from the assumptions named in
the modules (`OutboxAssumption`, `DeliveryAssumption`, `DeduperAssumption`,
`LimiterAssumption`, `AdmissionAssumption`, `RequestAssumption`, `DurabilityAssumption`,
`GroupsAssumption`, `InboundAssumption`, `ControlAssumption`, `NoneAssumption`,
`AddressesAssumption`, `RoutingAssumption`, `DeclaredAssumption`,
`WrittenAssumption`, `SurfaceAssumption`), which TLC evaluates on every run
of the module. Each machine but `Surface`, whose invariants carry the types they need,
has a theorem `TypeCorrect` about its type invariant.

**Delivery.** All theorems are of `SafeSpec`, without fairness.

* `TypeCorrect`, from `TypeInv`: the type invariant and that an entry in a worker's
  hand is one while the worker is at a place that uses it.
* `NothingIsLost`: whoever was told "queued" is not let down. The property says only
  that each destination's entry is held, arrived or dropped, and is not inductive: a
  worker past its send has something that arrived (`SentArrived`), so removing the
  file is safe; and a handler past part of `Enqueue` has what it wrote in one of the
  three states (`WrittenOK`), so that the answer is true when it comes.
* `NeverTooMany`: the bound. What counts is not what is held but what has been
  `Claimed`: held, or still to be written by the handler that has the lock. `Enqueue`
  looks at the one, and `BoundInv` is about the other.
* `NothingComesBack`: `Retry` writes an entry only if its file is there, so the entry
  must not have been written for the first time twice. `FreshInv` says that what a
  handler has not written yet is untouched, and that a handler that has answered is
  over.
* `CallersAreToldTheTruth`: the number a waiting caller is told counts the entries its
  own handler got through (`Through`), each of which has arrived (`CountInv`), whoever
  else sent them too; and "full" is answered before anything is written.
* `EndsOnce`: as long as nothing is disturbed and no other worker is at a message's
  entries, each is ahead of the loop, in its hand after the send, or over
  (`SoloInv`).
* `KeepsThePromise`: the refinement. `Fates` maps each entry to what `Promise` knows
  of it; `WorkInv` says that whatever a worker has on its list was written once, so
  that a send is of something promised. There is one lemma for each kind of step of
  `Promise`, and one for each that stutters.

**Admission.**

* `PassesOncePerWindow`: `DupInv` says that whoever passed the deduplicator within a
  window is remembered there with its age, which eviction respects.
* `FewerThanTwice`: `CapInv` splits those let through in the last minute at the start
  of the window. There are as many after it as the count says, and before it fewer
  than the limit, because the first message of a window opens it.
* `RepeatsCountedAlways`, `RefusalsCountedAlways`, for finitely many requests
  (`RequestAssumption`; how many is not bounded): `CountInv` adds that who has not
  been let through owes nothing yet (`Clean`) and that nobody returns twice, so each
  step either adds one to what is counted and to what was refused, or moves the count
  to the one message that carries it. The sum over messages that the property folds
  is turned into the size of a set (`SumIsPairs`), for which adding one is a fact about
  finite sets.

**Durability.**

* `EntriesAreWhole`: the strengthening says which inodes the disk may show under the
  entry's name (`EntriesWhole`), that the two names on disk differ in inode
  (`DiskDistinct`) and that the open handle is on the temporary one (`WriterOnTmp`).
* `AckedIsRead`: with that, what memory shows under the name is the last content
  acknowledged, or the one whose rename has just been made (`Newest`).
* `TypeCorrect`, which includes that no handle stays open.

**Groups.**

* `NothingIsLeftWaiting` and `OnlyWantedIsJoined`: the invariant adds that a resolved
  id matches the setting (`GroupIDMatches`) and what start-up has established by each
  of its steps (`StartupKnows`).
* `CompletedStaysHeld`: what has been completed to is held because the pass over old
  invitations asks `IsConfigured` of the same id, at its look; that nothing it is about to
  forget has become the configured group since is part of `StaleInv`, since a daemon
  that runs never completes its prefix any more.
* `OnlyStaleIsForgotten`: what the pass is about to forget is still old and not configured
  (`StaleInv`), but it may have been joined since the look: then by `maybeJoinGroup` in
  this run, which takes the opt-in for a group that is not configured.

**Control.**

* `ExitCodesAreHonest`: the invariant ties the answer a handler has come to, and the
  status of an HTTP request, to whether its message was taken (`ClientOK`, `PosterOK`).
* `AtMostOneIsMissed`: the accept loop has one connection in hand (`OneInHand`), and
  main has not passed a wait while what it waits for is there (`Stage`).

**Lifecycle.**

* `SocketIsNeverTaken`, `StaleSocketIsNoObstacle`: whoever is between `Open` and
  `Close` is the one the lock names (`Held`), so there is one of them, and between
  removing the file and binding there is none (`Cleared`).
* `NeverTwoAccounts`, `PrekeysArePublished`: who is about to register has found no
  identity, and nobody else has the account (`OnlyFirst`); an identity without prekeys
  is that of a process between the two steps, or of one that ended there (`Published`).
* `LoopsEndFirst`: `LoopsWhere` says at which places of `runDaemon` loops may run.

**Inbound.**

* `CommandsRunOnce`: an envelope is new to one loop only (`OneClaim`): storing it
  tells the first that it is, and nobody else.
* `StoredIsFollowed`: what is stored is followed up, cut off or held by a loop that
  has its result (`Accounted`).
* `FetchedInTimeAlways`: the bound alone is not inductive. `Bounded` says of an
  envelope that no round has in hand that it has waited no longer than
  since the last round began, if another may not begin yet, and less than the
  spacing and the time since the ticker last fired, unless it has just fired.
* `TypeCorrect`: the types lean on what is sent and where (`SentOK`, `PlaceOK`): a loop
  has an envelope in hand exactly where it deals with one, whatever the bot holds of an
  envelope was sent to it, and the stream never has two results to follow up.

**Surface.**

* `NobodyIsReachedTwice`: of two prefixes of one id one is a prefix of the other
  (`Comparable`), so two entries that reach one account are the same recipient to
  `ParsePeers`, which refuses the list, unless `SameServer` takes their servers for two
  although they are one: that is so of the bot's own and none, and of no others
  (`Apart`).
* `CommandsAreFromCommanders`, `RequestsStayAtHost`: `Started` says what each step of
  start-up has made sure of, and `JobInv` says of the command in
  hand whose it is and where each of its requests went.
* `ReachesAllItIsFor`: the first rule that fits is what the documented precedence
  means (`WantedIsMeant`), and the group's id in use begins as configured (`Known`),
  over the start-up window too.
* `WhatWasTypedIsSeen`: a handler's values, one after another, are the words typed.
  The parser cuts them into the shares of the parameters (`GivenIs`), and the shares
  joined are the whole (`SharesAreAll`); `TypedOK` says that the command in hand was
  read so, and from the declaration that carries it out (`Surfaced`). Of a
  pattern that begins and ends with an anchor as it is written, neither the property nor
  the theorem says more than that it is found in the value (`^a|b$`, section 6); the
  instance has such a pattern.
* `WhatIsCutSaysSo`: `CutInv` says that the messages in hand are texts, which the rest
  needs, and that an answer's text came from `Frame`. What cutting, joining and
  trimming keep of a mark is shown for texts of any length (`TrimSays`, `RenderSays`,
  `EntriesSay`, `AnswerSays`), with the size of a text as the number of its bytes
  (`FoldIsBytes`).

**Recursive functions and folds.** What the library's folds and recursive functions
compute is proved without an induction theorem: the function is given outright (the
size of a set, the words up to a place), shown to satisfy the equation of the
definition, and shown to be the only one that does, by the least argument at which
two such functions would differ (`Least` and `Smallest`, from the well-foundedness of
`<` on numbers and of strict inclusion on finite sets).

**Only model-checked** is liveness: the prover does neither fairness nor `ENABLED`.
These are `EveryEntrySettles`, `EveryCallerAnswered`, the two `ShutdownEnds` and
`AnsweredUnlessFailed`. Every invariant and action property that a passing run checks
is also a theorem.

## 5. What is not modelled

* The reading of numbers, durations, lists and files in the configuration, and its
  defaults; the syntax of YAML, JSON, URLs and regular expressions. What depends on
  them is modelled from the values they yield.
* The wording of texts, the conversion of times, the order of labels, and the texts
  of the built-in actions, which only read.
* The checks on the form of a request over HTTP (method, media type, size, unknown
  fields), which are one refusal in `Control`; its authentication is in `Surface`
  without the comparison in constant time.
* What `status`, `listrecipients` and `routes` list (`introspect.go`): reads, rendered as
  text.
* The registry's panic over a name that is taken (`action.go:101-115`): `Register` of the
  declared actions looks at the same names first and refuses the file. Two uses of a
  name or a token refuse start-up by the guards `FileOK`, `Clashes` and `TokensOK`, which
  translate the code's loops.
* The command line: assembling a request from flags and standard input, and the other
  subcommands.
* The core's `Maintain`, at the end of a round: it changes nothing of the daemon's.
* The client library (sending, receiving, group facts, the account lock) is
  external and modelled by how the daemon uses it; an action for it is marked so.
* Removal from a group and a second invitation to it; the durability of removing
  an entry (one whose removal did not reach the disk is delivered again); an entry
  damaged from outside the program.
* The wire format, the Windows pipe, socket modes, status texts: pure data and the
  operating system's.

## 6. Where code and documents differ

Two of the differences met while modelling have a run that TLC fails, with the
quotation in `PROJECT.json`:

| run | the documents say | the run shows |
|---|---|---|
| `acked_lost` | durably queued | the directory is never synced: power loss undoes the rename |
| `reconnect_undrained` | the queue is drained on every reconnect, and reconnects collapse into one further round | one that comes during a round or within five minutes of its start is dropped: the envelope waits for the ticker, six hours by default |

The others are visible in the models, and are described here only. Some of the
properties above are stated around them.

* One entry in two hands (`daemon.go:710`, `:764`): a waiting handler, or the flush
  of a shutdown, sends what the loop is sending, which `outbox.go:13-14` calls the
  thing to avoid. `SettledOnce` is stated for entries without either.
* `-wait` (`daemon.go:365`) is answered after one attempt, delivered or not;
  `ipc/wire.go:116-117` says only once delivered.
* An entry past its maximal age is sent once more before the age is looked at
  (`daemon.go:720`); `config.go:63` says it is dropped rather than sent.
* A kill between the removal of an expired entry and its log line (`outbox.go:195`)
  leaves no report, and so does the end of the process while a waiting handler is
  about to write it.
* A message may be answered `duplicate` although its original was refused by the cap,
  which comes after the deduplicator (`daemon.go:399`, `:407`); `send.go:162-163` says
  of the answer that "this exact alert" has been sent already.
* Each cap clears its count before a later step may refuse the message that carries
  it (`daemon.go:408`, `:421`); `send.go:165-167` promises it on the next message that
  gets through. `RepeatsCounted` and `RefusalsCounted` therefore say only that the
  count is handed to one message.
* Two windows of the rate cap meet within one minute (`rate.go:51`), and nearly twice
  the limit passes, which `README.md:433` calls a hard ceiling. `AlmostTwice` is the
  bound the code keeps.
* The ingresses serve before `resolveGroup` has run (`daemon.go:206-218`); `group.go:20-22`
  says it runs before everything that uses its result. In between, a message for a
  group configured by a prefix is refused with "it is in no group whose id starts with
  it" (`outbound.go:281-285`), which nobody has looked at yet. `ReachesWhoIsMeant`
  allows the refusal.
* While a prefix is unresolved every group that begins with it counts as the
  configured one (`daemon.go:524`), so two may be joined without the opt-in.
* An acceptance that fails is not tried again before the next start
  (`daemon.go:539`), against `README.md:31`; `AnsweredUnlessFailed` excepts it.
* A prefix that named no group at start-up is not completed when the group is joined
  (`daemon.go:543`), only at the next start; `group.go:47-48` says that the invitation
  path resolves it, since an invitation carries the full id. Until then every message for
  the group is refused.
* A first run that ends between `Register` and `RotatePrekeys` leaves an account
  for which no later start publishes prekeys (`account.go:137`), against "safe after a crash
  mid-registration" (`:97`) for a bot that "cannot be written to first" without.
  `CanBeWrittenTo` excepts it.
* An invitation may be accepted between the stale pass's look at it and `ForgetGroup`
  (`group.go:143-167`), which then throws a membership away, against "Never touches a group
  it has joined" (`group.go:125-126`). It takes a bot that accepts every invitation, since
  the pass leaves the configured group alone, and an invitation that is announced when it
  is past the retention. `Groups` has this behaviour, and `ForgetsOnlyStale` says how far
  it goes: a membership is forgotten only with the opt-in, and only one of this run.
* `Shutdown` does not wait for a connection between `Accept` and the wait group's
  `Add` (`control.go:68`). `MissesAtMostOne` says it is one.
* Messages are accepted for up to five seconds after the decision to stop, while the
  webhook closes, and by handlers already under way (`daemon.go:242-250`); the comment
  there says that both ingresses close first and nothing new is accepted.
* The two notes on suppressed messages are appended to the message's text
  (`daemon.go:404`, `:414`) and cut off with its end if that is near the limit
  (`outbound.go:211`), so that the count reaches nobody, against `send.go:163-168`.
  `CutIsSaid` promises only that the message says it was cut.
* A list of few but long entries is cut by bytes, its "and N more" included
  (`render.go:52-66` describes how lists avoid just that for lines). `CutIsSaid` asks
  for the count only where its lines leave room.
* Fixed replies of declared actions and of the built-in ones are not trimmed
  (`daemon.reply`), against "one answer for every producer" (`outbound.go:81-84`).
* An entry with the bot's own server written out and one without a server part reach one
  account and are two recipients to `sameRecipient` (`address.go:86-91`), which is not told
  which server is the bot's own, against `address.go:66-70`: "a repeated recipient would be
  delivered to twice". `address_test.go:164-166` keeps a bare id and the same
  id with a server apart, as it must where the server is another. The instance has the
  pair, and `NobodyTwice` excepts it.
* A parameter's name may contain a dash, and a placeholder may not (`declared.go:115`),
  so `{{web-host}}` is text, which `declared.go:198-199` is meant to prevent.
* A pattern such as `^a|b$` counts as anchored at both ends (`declared.go:192`) and is
  searched for, against "the whole value must match" (`:67`). In the model such a
  pattern is one whose `found` is more than its `whole` although it has both anchors. The
  instance has one, and `HandlerSeesWhatWasTyped` excepts it.
* A redirect may change the scheme: only the host is compared (`register.go:32-41`),
  where `:20-22` says the rule is `buildURL`'s, which compares both. `StaysAtHost` asks
  for the scheme of the first request only.
* A URL with a placeholder in its host is taken when the file is loaded, with the hole
  emptied (`declared.go:236-263`), and refused whenever a value is filled in.
* A count of minutes is multiplied into a 64-bit duration without a bound
  (`config.go:243`): far beyond any sensible setting it overflows.
* A send whose deadline passes while it reads exits with 3, not 5 (`send.go:137`):
  the network timeout, wrapped once, satisfies neither of the two tests.
* The account is let go with goroutines of the process still running where the
  control socket fails (`daemon.go:239`), where `resolveGroup` fails (`:219`) or where
  the grace cuts handlers off (`:251`). `LoopsBeforeRelease` excepts the first.

## 7. The plan

Order: what carries the promise of the program first.

1. *Done:* `Outbox`, `Delivery`, `Promise`; `Admission` with its two caps;
   `Durability`; `Groups`; `Control` with both ingresses; `Lifecycle` with
   registration; `Inbound`; `Addresses`, `Routing`, `Commands`, `Declared` and
   `Surface`, which compose them from the settings to the chat.
2. *Done:* proofs of every invariant and action property that a passing run checks, and
   of the refinement of `Promise`.
3. *Left:* removal from a group and a second invitation to it in `Groups`, and the
   durability of removing an entry in `Durability`.
