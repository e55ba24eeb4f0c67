# A verification of routercommander in TLA+

routercommander connects to one router or to many over SSH, executes the
commands of a YAML file on each, stores what they print in a log per router,
runs tests on the output over several iterations (a *repro* run), collects
post-mortem commands when a test fires, and mails the log. These modules model
it from the loading of the inventory to the exit status; TLC checks them on
small instances, and TLAPS proves the most important properties for instances
of any size.

All line numbers are those of the repository's `src/`.

## 1. The system

### Components, their state and their operations

| Component | Source | State | Operations |
|---|---|---|---|
| Fan-out | `cmd/routercommander.go:270-366` | list of routers, `processesStarted`, `fatalErr`, channel `errCh`, wait group | resolve a router, open logger, verifier and session, start `process` in a goroutine (on Windows: inline), collect results, exit |
| Router inventory | `cmd/routercommander.go:70-182` | map of normalised names | load, list, resolve, override |
| Host keys | `cmd/ssh.go` | known-hosts file, learnt keys, write offset | read the file, verify, trust on first use, append |
| Repro pipeline | `cmd/pipeline.go:16-180, 286-294` | loop counters, `triggered`, `stopWhenTriggered`, result of the run | iterations, main commands, tests, `if_triggered_commands`, post-mortem, closing message, deferred notification and cleanup |
| Test evaluation | `cmd/pipeline.go:182-284, 320-410` | the `Test` object and its `ValuesStore`, both shared by all goroutines | apply the pattern, count, pick fields, store values, compare |
| Commands and locations | `pkg/types/router.go:89-372`, `pkg/types/platform.go` | cards of the router, results of a call | read the platform, expand a command over locations, `times`/`interval` loops, log and collect |
| Local router | `pkg/types/local.go` | none | run commands with `os/exec`, log and collect |
| Shell session | `pkg/types/router.go:27-42, 389-625` | SSH connection, stdin, stdout, per command a goroutine, two channels and a timer | `NewRouter`, `drainUntilPrompt`, `sendCommand`, `Close` |
| Router log | `pkg/log/logger.go` | file, worker goroutine, in-memory queue, three channels, `sync.Once` | `Log`, `GetLog`, `Close`, the worker's select |
| Command file | `pkg/types/commands.go`, `pkg/types/types.go` | `Commander` | parse YAML, index the tests |
| E-mail notifier | `pkg/messenger/email` | SMTP settings | format and send one mail |

### How they interact

`main` loads the inventory, makes a list of router names, resolves each, reads
the known-hosts file, dials, and starts one goroutine per router; all goroutines
are handed **the same** `Commander`. A goroutine runs `process`, which calls
`Router.ProcessCommand`; that expands the command over the cards of the router
and calls `sendCommand` for each, which starts a reader goroutine per command
and writes the output to the logger's worker over a channel. The tests look at
the results that `ProcessCommand` returns and keep values in the shared
`ValuesStore`. At its end `process` asks the logger for its log, hands it to the
notifier, and closes logger and session; its result goes through `errCh` back to
`main`. Two processes of the tool share nothing but the known-hosts file.

### What is hard about it

* **Concurrency**: goroutines of different routers on one `Commander`; per
  command a reader that a timer may leave behind; logger clients and worker on
  unbuffered channels; results that arrive before anyone collects them;
  processes that write one file, each at the end it once saw.
* **Failure**: every command, test, write and connection may fail, and every
  failure has to get through nested loops to one deferred function that
  notifies and closes; a process may be killed in the middle of a line.
* **Ordering**: where output ends is *guessed* from what looks like a prompt,
  where it starts from what looks like the command; a wrong guess leaves output
  on the wire for the next command. Cards and names come out of Go maps in any
  order.
* **Timeouts**: a timer fires while the answer is on its way; a local command
  has none.
* **Nested control**: tests, commands and iterations each have their own flag
  for `stop_when_triggered`.
* **Boundaries**: names that change when they are normalised twice, keywords
  that mean no card, matches on empty lines, negative times and intervals.

`PROJECT.json` lists these places as *hazards*, line by line, with the
properties that cover them.

## 2. Modules

| Module | Models | Lines of code it stands for |
|---|---|---|
| `ReproRun` | one router's run, command by command | `pipeline.go:16-180, 286-294` |
| `ReproPromise` | what such a run promises, iteration by iteration (abstract) | – |
| `CommandRunner` | one router's commands at their locations, round by round | `router.go:89-141, 177-372`, `platform.go`, `local.go` |
| `ShellSession` | one SSH session, piece by piece | `router.go:27-42, 389-625` |
| `Logger` | the log of a router | `logger.go:39-57, 106-181` |
| `LogPromise` | what a log promises (abstract) | – |
| `TestRunner` | the evaluation of a test by several goroutines | `pipeline.go:182-284, 320-372` |
| `GetValue` | from a match to the value of a field | `pipeline.go:374-410` |
| `FanOut` | `main` from the loop over routers to the exit | `routercommander.go:270-366` |
| `Inventory` | names and targets | `routercommander.go:70-182` |
| `KnownHosts` | the known-hosts file | `ssh.go` |
| `Connect` | processes of the tool on their way to sessions | `routercommander.go:200-330`, `ssh.go` |
| `MCReproRun`, `MCCommandRunner`, `MCShellSession`, `MCLogger`, `MCTestRunner`, `MCConnect` | small instances for TLC | |
| `ReproRunProofs`, `ReproHistoryProofs`, `CommandRunnerProofs`, `ShellSessionProofs`, `TestRunnerProofs`, `LoggerProofs`, `FanOutProofs`, `ConnectProofs` | theorems | |

`TestRunner` uses `GetValue`, `Connect` uses `KnownHosts`, which uses
`Inventory`. `FanOut` needs no instance module: its only parameter is a number.

How they fit together: `Connect` ends where `FanOut` starts a router; a step of
`FanOut`'s `process` is a run of `ReproRun`; a `SendMain`, `SendIfTriggered` or
`SendPostMortem` of `ReproRun` is a call of `CommandRunner`; its `Send`,
`Answer`, `Fail` and `Timeout` are a command of `ShellSession`; the log of
`CommandRunner` and the mail of `ReproRun` are those `LogPromise` allows, which
`Logger` implements. What a module takes from the one below it is stated where
it is used: `ReproRun` that calls return or panic (`RunEnds`, `SessionEnds`),
`CommandRunner` that a record goes to the end of the log or is refused
(`KeepsLogPromise`), `FanOut` that `process`, where it returns, does so once,
with nil or an error (`KeepsPromise`).

### Correspondence with the code

**ReproRun.** `conf` is the `Commander` (`Repro`, `Collect`, main commands,
tests) with the options that `main` adds; it never changes. `pc` is the
statement reached, `loc` holds the locals of `process`,
`processMainGroupOfCommands` and `runTests` (`it`, the command and test indexes,
`triggers`, the two flags called `triggered`). One action per loop head or call:
`SendMain` is `r.ProcessCommand` in the command loop, `RunTest` the call of
`runTest`, `SendIfTriggered` and `SendPostMortem` the other two callers of
`ProcessCommand`; each of these may return an error or panic (`Panic`: the
ticker and the start word of a command, `router.go:357, 490`, the index of a
test's field or occurrence, `pipeline.go:242, 393, 409`; what panics below them
is in `CommandRunner`, `ShellSession` and `TestRunner`), and either leads to the
deferred function (`Notify`, `SkipNotify`, `Cleanup`), which a panic does not
skip. `StopRun` and `StopGroup` are the two variables called
`stopWhenTriggered`: one starts as true, the other as false. A trigger without a
repro section is the nil dereference at `pipeline.go:62`: an outcome of its own,
`"nil"`. `sent` and `verdicts` are history.
`matchPatterns` only fills a log line and is left out.

**CommandRunner.** `Connect` is `populatePlatformInfo`: the cards of an IOS XR
router that are in `IOS XR RUN`; without a route processor there is no router.
`Call` is `ProcessCommand` up to the first thing sent: `Expanded` is
`prepareLocations` with the keywords replaced by cards in any order a Go map may
give, `Fits` and `Format` are the first template (`location_fmt_tmpl`), which is
parsed and filled in for all locations before anything goes out. The second,
`location_customized`, is parsed there too (`parses`), but filled in location by
location: one it does not suit (`unfit`) fails the call after earlier ones have
been served (`Unfilled`). `Send` writes a command and logs it, `Answer` logs and
keeps its output, `Tick` is the ticker of a `times`/`interval` loop (it also
waits after the last run), `Fail` and `Timeout` give up the call with what it
had. A negative interval, and a first word that is no regular expression, panic
(`Panics`, `RunPanics`). A local router knows no locations (`CallLocal`), is not
logged before its command is over (`Execute`, `Completed`), and has no timer.
`Give` and `Keep` are what both kinds share. The log may refuse a record; the
callers do not look.

**Logger.** A rendezvous on an unbuffered channel is one step that moves both
sides: `TakeInput`, `TakeOut`, `TakeStop` are the worker's three receives,
`ReplyError`, `ReplyLog`, `ReplyStop` its answers. `EnterOnce` is `once.Do`.
The write may fail with nothing written or with a piece written. No client has
to call `Close`: `process` may return without it (`pipeline.go:36, 41`).

**ShellSession.** The byte stream is a sequence of *pieces*, told apart by what
the regular expressions make of them: echo, text, a line that mentions the
commands' first word, a line that looks like an NX-OS prompt (`hash`), the same
text in the middle of a line (`soft`, a prompt only where a read happens to
end, or has escape sequences after it up to there), an escape sequence (`ansi`,
or `mark` where it is in the line of the echo), the prompt. `Read` takes any
number of pieces that are on the wire and does what the goroutine does with its
`fullInput`: `Trim` to the start word, `Complete`, hand over. `TakeDone`,
`TakeError` and `Timeout` are the cases of the select; `Extract` is the slicing
that follows, on a position that `FindPromptIndex` computes in a cleaned copy;
where that lies before the end of the echo line in the raw one (`Inverted`), the
slice panics (`SlicePanics`). `Leave` is every other way out: `NewRouter`, which
sends the first `Setup` commands, closes what it dialled, `process` may or may
not. `Dial` stands for all of the connection's set-up (`ssh.go:133`,
`router.go:418-453`) and, like a write, may never return. `family` chooses
between a router whose prompt the IOS XR pattern finds and one that only the
NX-OS pattern does; the order in which the patterns are tried matters when both
are in the buffer. The router (`Answer`) and the network (`LoseConnection`) are
the environment.

**TestRunner and GetValue.** `StoreValue` is the pair of statements
`pipeline.go:247-250`, which make a new map and put one value into it;
`CheckField` the call of `check`, which reads both values back. Between them
other goroutines may run. An output is a text, character by character, and the
offsets where the test's pattern matches; `GetValue` finds the ends of the line
around such an offset the way `getValue` does, splits at runs of separators and
trims. Characters are told apart by what it does with them: line end, separator,
other blank, the rest. The panics are `b[:en-1]` with `en = 0` and the indexes
that a negative field number or occurrence gives, which nothing checks when the
file is read. Neither does anything check operations: an unknown one is an error
of `check` (`CheckFails`), as is a substring operation on a value that is not
there. The reference definition, `FieldOfMatch`, is the field of the line the
match begins in, found by counting line ends and runs of separators, with no
scan; what `getValue` makes of an empty line is not built into it.

**FanOut.** `process` is one step that returns nil or an error, or panics;
`OpenSession` is `NewRouter`. Either may never be taken. `os.Exit` and a panic
end all goroutines where they are. Loggers are left out: the one `main` has
opened for a router it cannot reach is closed in no order of steps (section 5).

**Inventory, KnownHosts, Connect.** A name is a sequence of characters, since
`normalizeRouterName` is about them: it trims blanks, lowers, and trims commas,
which may bring a blank to the end again. The known-hosts file is a sequence of
*cells*, a line taking as many as its host's name has characters and one for its
end, because what matters is where a write begins and how far it reaches: each
verifier writes at the offset where its own read ended (`WriteAt`), and a longer
line under a shorter one leaves a piece. `Connect` has one action per statement
of `main` for each process: `Load` (the inventory, or the panic on an entry
without a body), `Resolve` (the next name; one that is not listed is taken for
an address), `OpenVerifier` (reads the whole file, fatal if a line does not
parse), `Dial` (no answer, or the host key callback decides: `Compare`, `Learn`,
or `LearnTorn`, a write that stops in the middle). `Rekey` is the environment: a
router gets a new key. A process may be killed anywhere: nothing obliges it to
take its next step.

### Refinement

`ReproRun` implements `ReproPromise` (property `KeepsPromise`): an iteration is
*completed* when its main commands, and its post-mortem commands if it hit, have
been sent; hits and post-mortems go together; a run is called complete only when
all iterations were done or the first hit stopped it; on an error it gives up;
in the end it is over and holds nothing. The mapping takes the early returns of
the deferred function as if they had released everything (`CutShort`); the run
`repro_unclosed` shows that they do not.

`Logger` implements `LogPromise` (property `KeepsLogPromise`): a record that is
offered goes once to the end of the log while its caller waits, or is refused;
nothing is taken out or moved; a reader is given the log as it stands; after the
end nothing happens. The log is the queue, a record is pending while its call
has been made and the worker has not decided on it, and the handshakes of three
channels and `sync.Once` are stutters. A reader that gets the log as it stands
sees its own writes, and the mail is what the callers were told was logged.

## 3. What the runs show

| Run | Checks | Bounds |
|---|---|---|
| `repro` | types; evidence of a hit complete and in order; triggered commands sent for each firing; plan followed without gap or repeat; every listed test runs; mail holds the whole log; clean shutdown; the closing message claims no trigger that was not there, and denies none where the run stops at the first; freeze at the first hit; refinement (with liveness) | 60 configurations: 0 to 2 main commands, up to 3 listed tests, 1 to 3 iterations, 0 to 2 triggered and 1 to 2 post-mortem commands, all mailers, with and without logger, repro and collect |
| `commands` | types; each card a command names gets it as often as its `times` asks for, for the forms of a command that the documents give; results are the answers, all and in order; nothing after a failure and nothing before the locations fit; the log tells the session but for refused records; the run ends | 6 routers (modular, two RPs, a line card or the RP down, NX-OS, local), 13 commands (keywords, named cards, both templates good and broken, a location one of them does not suit, a first word that is no regular expression, times and intervals of every sign), one command gone through twice or two once, one refused record |
| `log` | types; queue = acknowledged records; file = queue up to broken pieces; the file is closed after the worker; refinement of `LogPromise`; disciplined calls that are made return | two clients, two and one `Log`, one `GetLog` each, one `Close` each |
| `session` | types; results exact; no foreign output; one reader; no wait of a connected session lasts, and no reader outlives a closed one | banner and 3 commands, one of them of `NewRouter`, two first words, 5 bodies with every kind of piece, reads cut anywhere |
| `test` | types; verdict = meaning; the value is that of the line the match begins in | one router; 3 iterations under 8 tests on the previous value; 1 iteration under all combinations of present-value operations and an unknown one, occurrence, number of occurrences, `check_all_results`, up to 2 lines and 2 results; a test on the second line with 2 results of up to 2 lines each; every text of up to 4 characters of 4 kinds, matched at every offset, fields -1 to 2, occurrences -1 and 0 |
| `fanout` | types; a result can always be put down; exit only after all; exit status true; stop means stop; main waits for nothing but a connection and a `process` | up to 3 routers, all modes, every step may fail |
| `connect` | types; the known-hosts file stays readable; one key per host, and it is on file; an inventory is contacted entry by entry | 2 processes called in 3 and in 4 ways (inventory, name, both; names that need normalising, collide, change when normalised twice; an entry without a body; `--insecure-ssh`), no file or one with a host in it twice, 4 hosts, one new key, writes cut anywhere |
| `repro_unclosed`, `repro_denied`, `session_mixed`, `session_escapes`, `test_shared` | one deviation each, see section 5 | the smallest instance that has it, or that of the passing run |

Why the bounds are enough: in `repro` two tests per command and two commands are
what it takes for a stop to be taken in one loop and missed in another, and two
iterations (three in some configurations) for a flag to survive one; in
`commands` a second command or a second round is what a failure must not reach,
and two cards of a kind make an order; in `log` two clients make every order of
requests and closes; in `session` a result cut short, the command that meets its
leftover and one more after it fit into three commands; in `test` a value that
changes and changes back needs three iterations, and four characters make every
neighbourhood of a line end and a separator; in `fanout` a router
that runs, one that fails and one that follows are three; in `connect` two
processes make an overlap, and hosts with names of one and of two characters
make lines that cover each other and lines that do not.

Every property of a passing run has a mutant in `PROJECT.json`: a definition
changed the way a plausible bug would change the code, under which TLC finds the
property violated. The mutants stand next to the definitions they replace,
marked `\* mutant`.

### Conditions in the properties

`ResultExact` is about results whose own output holds no prompt look-alike and
no escape sequence (`session_escapes` shows what those do); it and
`OwnOutputOnly` ask that no *earlier* output held a look-alike followed by the
commands' first word (`Undisturbed`). What happens otherwise is shown by
`session_mixed`. `ClosingMessageTrue` lets a run that does not stop at a hit
deny one, as `repro_denied` shows. `EveryCallReturns` holds for *disciplined*
clients, which do not close the logger under another call and do not call it
after a close; `process`, its only user, is disciplined, and the safety
properties hold for the others too. `VerdictIsMeaning` holds for one router and
for tests and outputs as `Judged` describes them: no number is negative and no
match begins in an empty line; tests on the previous value watch one field of
one named line of one result and do not ask for a number of occurrences; those
on present values are free but for `check_all_results` with a named occurrence.
Outside of that the answer is another one: `test_shared` shows the case of two
routers, section 5 says what happens in the others. `FieldOfMatchedLine` leaves
out empty lines and negative numbers for the same reason. `EveryCardServed` is
about the two forms a command has in the documents (`Documented`: once, or a
number of times at an interval), not about a `times` without an interval
(section 5). `FileStaysReadable` and `OneKeyPerHost`
hold as long as no write met what another process had written meanwhile
(`overlaid`) and none was cut short (`torn`): those are not prevented by the
code. `InventoryContacted` is about inventories whose names a second
normalisation leaves alone (`Stable`). `EveryCardServed` counts what was sent,
in whatever order; a call at a keyword that means no card sends nothing
(section 5).

### Fairness

* `ReproRun`, weak fairness of `Next`: the goroutine keeps running because the
  calls it makes return. Remote commands carry a timer (`router.go:496, 578`,
  shown by `session`: `SessionEnds`, and `commands`: `RunEnds`), the mail client
  answers or fails. Two calls are taken to return without such a reason: a local
  command, whose timeout is ignored (`local.go:106`), by this module only, and a
  write to stdin that the router does not take, by this module and
  `CommandRunner`.
* `CommandRunner`, weak fairness of the code's own steps and its timers (`Own`),
  with writes that return. No connection has to come about, and no router and no
  local command has to answer: `RunEnds` speaks of connected routers.
* `Logger`, weak fairness of the worker and of a client inside `Close`. No client
  has to make any call: `process` and `main` have paths without a `Close`
  (`pipeline.go:36, 41`, `routercommander.go:331-337`), so the worker may wait for
  ever, and no property says otherwise.
* `ShellSession`, weak fairness of the caller's waits, each of which has a timer,
  of its steps between two commands, and of each reader. None of the router or the
  network: they may stay silent for ever. None of `Dial` either, which has no
  timer (`ssh.go:133` sets no `Timeout`, `router.go:418-453` wait without one), nor
  of `WriteCommand`: `SessionEnds` allows a session to stay in one of the two.
* `FanOut`, weak fairness of the steps `main` makes by itself (`MainSteps`) and of
  a goroutine that has a result (`Reports`). `OpenSession` and `ProcessReturns`
  have none: `MainExits` says that `main` waits for nothing else.
* `TestRunner` and `Connect` state no liveness; in `Connect` a process may stop
  at any statement, as one that is killed does.

Deadlock is checked everywhere but in `log`, where an undisciplined call after a
close waits for ever by design of the channels.

## 4. What is proved

The proofs hold for all values of the constants, from the named assumptions:
`ConfigsAssumption` (configurations are of the type of a `Commander`),
`RunnerAssumption` (plans are of their type, with at least one command and one
round and finitely many lines of `show platform`; card names are no keywords),
`LoggerAssumption` (bounds are numbers, clients are not called like the states
of `once`), `SessionAssumption` (numbers of commands, bodies made of the kinds,
of which `mark` stands only at the beginning), `FanOutAssumption` (a number),
`CharsAssumption` of `GetValue` (line end, separator and blank are characters;
no text reads like an error or nil), `PlansAssumption` (plans are of the type of
a `Test`, a match lies in its text, and a command prints something),
`CharsAssumption` of `Inventory` (the characters `normalizeRouterName` looks for
are among those names are made of), `ConnectAssumption` (calls are command
lines, inventories are finite, hosts have names, and the known-hosts file to
begin with parses and ends with a line end). TLC evaluates each on the instances
it checks.

| Module | Theorem | Property | Argument |
|---|---|---|---|
| `ReproRunProofs` | `TypeCorrect` | `TypeOK` | Not inductive alone: a trigger is recorded by looking up `ids[test]`, so `InRange` adds that the indexes point at a command and a test while control is in the test loop. |
| | `RunCleansUp` | `CleanShutdown` | `DeferredInv`: no mail before the deferred function; it is left by `Cleanup`, which closes both, or by one of its two early returns. |
| | `RunMailsItsLog` | `MailHoldsWholeRun` | The same invariant: nothing is sent once the deferred function has begun. |
| | `RunFreezesAtFirstHit` | `StopsAtFirstTrigger` | `FreezeInv`: after a hit, control is past the test loop or at its very end with the trigger recorded, so no loop head that sends or tests is enabled. |
| | `RunReportsTruly` | `ClosingMessageTrue` | `FlagsInv` relates the flags of all three loops to the hits of the iteration at hand, so the message claims no more than one of them; with `FreezeInv` a hit under `stop_when_triggered` is one of the last iteration, which the message is about; `ReportInv` carries both to the end. |
| `ReproHistoryProofs` | `RunFollowsItsPlan` | `PlanFollowed` | `PlanInv` says of each statement of the nested loops how many main commands have gone out, as iterations times commands plus the command index. What `sent` holds of one kind is a *turn* (`InTurn`): its members, in order, are the first *k* of the list gone through again and again; a command that is sent makes it *k+1* (`InTurnGoesOn`). |
| | `RunPassesNoTestOver` | `EveryListedTestRuns` | `ServedInv`: outside the test loop every main command sent has all its verdicts; inside it, the one at hand has those before the test index. `FreezeInv` accounts for the stop, after which no main command follows. |
| | `RunCollectsItsEvidence` | `EvidenceCollected` | `EvidenceInv`: the post-mortem commands of the iteration at hand are as many as the step index says, those of completed iterations are settled, and hits never get less (`CompletedMoves`, `HitsMove`). |
| | `RunSendsTriggeredCommands` | `TriggeredCommandsSent` | `OrderInv`: the verdicts of an iteration are all of tests behind the loop indexes, and no test of an iteration has two; so a firing that is handled is told from all earlier ones, and `TriggerInv` counts its commands only. |
| | `RunImplementsPromise` | – | The safety part of `KeepsPromise`: `StopInv` (with a stop there is a hit only in the iteration at hand) makes the loop guard that of the promise, `EvidenceInv` its *collected*; each step maps to one of `ReproPromise` or to a stutter (`StepKeepsPromise`). |
| `CommandRunnerProofs` | `CallsReturnTheAnswers` | `ResultsAreAnswers` | `CallInv`: what a call has collected are the answers to all it has sent, the last of which may be on its way; `PastInv`: the calls that are over cover what was sent before, and nobody changes that. |
| | `LogFollowsSession` | `LogTellsSession` | `LogInv`: the log is the transcript of the session but for `refused` records (`AllBut`). A command that is sent or answered adds its records at the end of the transcript, or in the case of an answer behind its command, which is the last (`TranscriptSplits`); what the log loses of them adds up (`LostAddsUp`, `AllButConcat`). |
| | `RunnerTypes` | `TypeOK` | `TypeInv`: what is to be sent are texts at locations; an expansion consists of locations the router or the command names (`ExpandedIs`, `TodoType`). |
| | `FailuresAreClean` | `FailureIsClean` | `CleanInv`: a call that is sending knows that all its locations fit; and they fit in one order of the maps exactly if they do in every other (`FitsAlike`). |
| | `CardsAreServed` | `EveryCardServed` | `CountInv`: for each place, what has been sent there in this call and what is still to be sent, the remaining runs of the one in hand included, are what the file asks for, where the command has a documented form (`TimesFacts`). It starts true because an expansion has as many entries for a place as the list names it, directly or by a keyword, whatever order the maps give (`ExpandedCount`, on `KeywordCount` and `HitsOfSet`: a sequence of all elements of a set hits each once). |
| `LoggerProofs` | `TypeCorrect` | `TypeOK` | `OfferInv`: a client in a call of `Log` has numbered its record; `ServingInv`: whom the worker serves waits for the answer. |
| | `QueueFollowsAcknowledgements` | `QueueIsAcknowledged` | `ServingInv` (the served client waits, so its record does not change) and `AheadInv` (the queue is one ahead exactly while a positive answer is on its way). |
| | `FileOutlivesWorker` | `ClosedAfterWorker` | `CloseInv`: whoever gets to the file came through `once`, and `once` is done only when the worker has ended. |
| | `FileFollowsQueue` | `FileIsQueue` | The property is inductive with `TypeInv`, read as a count: the whole record at a place of the file is the record of the queue whose number is that of the whole records up to there. A piece leaves the counts alone (`PieceInFile`), a record adds one to both (`RecordInBoth`). |
| | `LogKeepsItsPromise` | `KeepsLogPromise` | Refinement: `WaitInv` says that at most one client waits for an answer, the one the worker serves; then each step maps to one of `LogPromise` or to a stutter (`StepKeepsPromise`). |
| `ShellSessionProofs` | `SessionHasOneReader` | `OneReader` | `ReaderInv`: a goroutine reads for the command at hand only; the caller goes on only with that goroutine's result, and after a timeout it starts no other. |
| | `TypeCorrect` | `TypeOK` | `ChannelInv`: what a goroutine hands over is complete, so that the slicing of `Extract` finds both ends (`ExtractIs`). |
| | `ResultsAreOwn` | `OwnOutputOnly` | `StreamInv`: between the reader at hand and the router are *d* pieces left over from earlier outputs, none an echo or a mention, and then the command's own output, nothing lost and nothing doubled (`Follows`); `OrderInv`: the router is given each command once and answers in their order. A read moves pieces (`Moved`), the start word is found exactly behind the leftovers (`StartIsEcho`, `Trimmed`), and what a complete buffer leaves on the wire is leftover for the next command unless it is misleading (`TailIsLeftover`). |
| | `ResultsAreExact` | `ResultExact` | The same invariant: without an end or an escape in the body, a complete buffer is the whole output, the end of the echo line is the echo, and the cut is the body (`ResultIsBody`). |
| `TestRunnerProofs` | `TestTypes` | `TypeOK` | `TypeInv`: while the loops are at a field, the result and the match before them are there and the test asks for them (`Reached`), so `getValue` is given an offset in a text; its answers are texts but for the error and the panic (`FieldTypes`), which are returned and not stored. |
| | `ValueOfMatchedLine` | `FieldOfMatchedLine` | Where that line is not empty and the number not negative, the scans end at the ends of the line the match begins in (`EndOfLineIs`, `StartOfLineIs`, `LineIs`). After each character, the parts of the split are as many as the runs of separators opened so far and one, and part *n* is what stands between the *n*-th run and the next (`SplitIs`, `SplitOpens`), shown for all lengths by a least counterexample; what trimming leaves of it is what the reference takes (`TrimIs`, `ReadIs`, `GetValueIs`). |
| | `VerdictsAreMeant` | `VerdictIsMeaning` | `VerdictInv`, in three parts. `Control`: the results passed leave the decision to the next one, everything before the field at hand could be read and its operation exists, and the two counters are the numbers of fields and matches that fired so far (`Engaged`, `Count`). `History`: for tests that look back, the store holds the watched field of each earlier iteration, or nothing where the line was not there (`Keeps`), and is empty ahead. `Answered`: the verdicts given. At the end of a result the counters decide what quantifiers say in the meaning (`CountSome`, `CountAll`, `EndOfResult`). |
| `FanOutProofs` | `TypeCorrect` | `TypeOK` | `ExitInv` and `LoopInv` tie the loop index to the goroutines started and the routers passed over. |
| | `ResultsAreSent` | `SendNeverBlocks` | `CountInv`: the goroutines that have put down a result are as many as `main` has taken plus those in the channel, counted as cardinalities; `ClosedInv`: the channel is closed only when all have ended and it is empty. |
| | `AllResultsCount` | `ExitAfterAll` | The same count at the end of the collecting loop. |
| | `StatusTellsTheTruth` | `ExitStatusTruthful` | `FatalInv`: once a `process` has failed, its error is in the channel or in `fatalErr`; the collecting loop is reached with `fatalErr` or with all routers done; a router passed over when it may not be is in `fatalErr`. |
| | `StopIsAStop` | `StopMeansStop` | `FatalInv`: such a router was followed by the end of the loop. |
| `ConnectProofs` | `FileCanBeRead` | `FileStaysReadable` | `FileInv`: while no write has met another, the file is a sequence of whole lines; a write at its end adds one (`WriteExtends`, `ExtendedLines`, `ExtendedParses`). |
| | `HostsKeepTheirKey` | `OneKeyPerHost` | `FileInv` again: what an open verifier has read is still on file, and if nobody has written since, it knows every host on it; so a key is learnt only for a host that has none, and stays its key (`ExtendedKnown`). |
| | `ConnectTypes` | `TypeOK` | `TypeInv`: the names of a process are sequences of characters, there is one left while it dials, and what it has loaded is one of the `Inventories` of its file; a write keeps the file a sequence of cells and never makes it shorter (`WriteKeeps`), so every open verifier's offset stays within it. |
| | `InventoryIsContacted` | `InventoryContacted` | `ContactInv`: each name of the inventory is still to come or was contacted where an entry of that name is (`Contacts`), and those to come and the contacted are as many as there are names. It starts true because an order of the names without repeats, as long as they are many, has them all (`NamesAre`, a pigeonhole argument), and a name from the map is found in the map only if normalising it again changes nothing (`Stable`). |

What the histories of a run hold, how often a card is sent to, and what a log
leaves out is stated by counting, or by recursive functions over places of a
sequence, and not by filters and folds: an invariant then speaks of each place,
and where a fact is needed for every length it is shown by looking at a least
counterexample (`Least`, `NoFirst`), since the induction theorems of the library
cannot be instantiated here. The lemmas about the stream of a session, which come
first in `ShellSessionProofs`, and those about texts in `TestRunnerProofs` too
speak of sequences place by place.

Every invariant and action property of a passing run is the property of one of
these theorems. Only model-checked: all liveness (`SessionEnds`, `RunEnds`,
`EveryCallReturns`, `MainExits`, the liveness part of `KeepsPromise`), since
fairness and ENABLED are out of the prover's reach; and `VerdictIsMeaning` where
a theorem says nothing, for tests that are not `Judged` or routers that share
one, where it does not hold.

## 5. Known deviations

Shown by a run (a finding in `PROJECT.json` quotes the text each contradicts):

* `repro_unclosed`: a failed notification, or a missing logger, skips the
  closing of session and logger (`pipeline.go:36, 41`).
* `repro_denied`: without `stop_when_triggered` the closing message speaks of the
  last iteration only, and denies a trigger of an earlier one (`pipeline.go:56`).
* `session_mixed`: the leftover of a result that was cut short may be taken for
  the next one (`router.go:512`).
* `session_escapes`: escape sequences in an output shift the place where it is
  cut, so that its end is lost (`router.go:563`).
* `test_shared`: routers share one `ValuesStore` and judge each other's values.

Against the text of the repository, without a run of their own (all but the
logger's are steps of the models):

* A command without `command_test_ids` runs no test, whatever tests it has
  (`pipeline.go:155`); `types.go:20-22` says "If TestIDs are not specified then
  all tests defined for a specific command are executed."
* A test that fires in collect mode dereferences a nil `Repro`
  (`pipeline.go:62`; the outcome `"nil"` of `ReproRun`) and ends the program;
  `README.md:62` says "All commands customization parameters listed above are
  available in **collect** mode", and `testdata/health_checks/fretta_hc_0.4.0.yaml:66`
  is a collect file with tests.
* A match in an empty line, as patterns that start with `\s*` give
  (`testdata/configure_ipv6.yaml:67`), is read from the line before, and in an
  empty first line panics (`pipeline.go:393`); `README.md:48` speaks of the field
  "in the string matched by pattern_string", `pipeline.go:392` of "the start of the
  string with matching pattern".
* A field that is stored replaces the iteration's map, so of several watched fields
  only the last is there in the next iteration, and a test on two fields fires
  though neither changed (`pipeline.go:250`); `pipeline.go:246` speaks of "Storing
  extracted fields in pattern's Values per iterations map."
* `check_all_results` with a named occurrence compares one match with the count of
  all, so that the test cannot fire where there are more (`pipeline.go:273`);
  `pipeline.go:227-229` asks for all instances only when "not specific occurence
  number is requested".
* A `times` without an `interval` runs a command once (`router.go:344`);
  `README.md:30` says it "defines number of times to execute this command".
* On a router without a platform, such as NX-OS, a command at a keyword is sent
  nowhere and succeeds (`router.go:253`); `README.md:5` says routercommander "will
  execute each command".
* The logger of a router that cannot be reached is never closed
  (`routercommander.go:331`); `docs/review_cleanup_plan.md:251` asks for "router
  sessions and loggers are closed on normal and early-exit paths".
* A `--router-name` that the inventory does not list is dialled as an address,
  after a warning (`routercommander.go:100`; `Resolve` of `Connect`);
  `docs/router_inventory_schema.md:123-126` says "do not silently fall back to
  direct connection".

In the models, but contradicting no text of the repository:

* Tests: a change test over several lines compares each with the last line
  stored; a result without the occurrence that is named ends the test, so that
  the results behind it are not looked at (`pipeline.go:220`); a negative field
  number and a negative occurrence panic (`pipeline.go:242, 409`); an operation
  that does not exist is not noticed before the test runs (`pipeline.go:366`);
  concurrent writes of the shared map may make the Go runtime end the program
  (not modelled).
* Commands: keywords inside a list that goes to `sendCommandWithLocations` are
  not looked at again; a negative `times` sends nothing (`router.go:344`), a
  negative `interval` and a first word that is no regular expression panic
  (`router.go:357, 490`); a template meant for line cards fails a command on a box
  whose line cards are looked up among its route processors; a location that
  `location_customized` does not suit fails the command after earlier locations
  were served (`router.go:316-322`); a local command ignores its timeout
  (`local.go:106`); output that looks like a prompt ends a result early; an escape
  sequence in the echo line may make the slice of the result panic
  (`router.go:567`).
* Connecting: dialling and setting up a session have no timer (`ssh.go:133`,
  `router.go:418-453`), so a silent peer holds up `main`; of entries whose names
  normalise alike, one stays by map order; an entry without a body panics
  (`routercommander.go:143`); processes that learn keys at the same time
  may overwrite each other's line (`ssh.go:60`); a comment or an empty line in the known-hosts file is fatal
  (`ssh.go:106`), and a last line without its line end gets the next key glued
  to it.
* Exit: `os.Exit` in the loop of `main` ends routers that are running
  (`routercommander.go:318, 328`).

## 6. Not modelled

* The YAML parser and the e-mail formatter: pure conversion and I/O. What they
  give the core is the `Config` of `ReproRun`, the tests of `TestRunner`, and the
  outcome of `Notify`.
* Flag parsing and validation, log wording, debug output, durations (a delay is
  a step).
* The text of commands: how a location, a keyword or a pipe modifier is spelled
  into it. Two commands differ in `CommandRunner` by their place in the file and
  by their location.
* Known-hosts lines the tool does not write: hashed names, wildcards, several
  hosts on a line. The bracket notation of ports is a record of name and port.
* Regular expressions: a test's pattern is the offsets where it matches, the
  prompt patterns are kinds of pieces.

## 7. Plan

Done: `ReproRun` with `ReproPromise`, `Logger` with `LogPromise`,
`ShellSession`, `TestRunner` with `GetValue`, `FanOut`, `CommandRunner`,
`Connect` with `Inventory` and `KnownHosts`, and the proofs listed above. What
would add most next:

1. A composition of `CommandRunner` and `ShellSession`: that a call which times
   out leaves no answer to the call of another router's run, and that the texts
   in its results are those of its own commands.
2. What a test outside of `Judged` does answer, stated exactly: with several
   watched fields or lines, the comparison of each with the last value stored in
   the iteration before.
