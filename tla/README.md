# Verification of template_httpload

TLA+ models, model-checking runs and machine-checked proofs for the HTTP load
generator in `src/template`.

## The system

The program opens HTTP transactions against a server under test at a rate the
operator sets on a command line, and answers HTTP requests sent to it.  It runs
four worker threads, a timer thread, the threads of the HTTP stack, a generator
thread and the console's thread.  The framework `xi` (thread pool, resource pool,
timer, HTTP stack, CLI, statistics tables) is not part of the repository and is
modelled only as the code uses it.

| component | state | operations |
|---|---|---|
| `ih::InterfaceHub` (main/interface_hub.cpp) | thread pool, timer, HTTP side | `ExecThread` queues a message, `Handle` finds or obtains its session, `ReplyForNotFound` |
| `ih::Session` (main/session.cpp) | session id, lock, one member | `OnReceive` under the lock: find the member or open one, release on `DO_RELEASE` |
| `ih::RpPool` (main/rp_pool.cpp) | equal numbers of `ih::Session` and `tu::Session` | `Obtain`, `Find`, `Release` |
| `ih::RpTimer` (main/rp_timer.cpp) | running timers with the ids of their session | `StartTimer`, `StopTimer`, `OnTimeout` queues a message |
| `ih::Http1Api` (main/http1_api.cpp) | requests in flight, keyed by `mid << 32 \| sid` | `Send`, `OnReceive` of a request and of a response, `OnSendFail` |
| `tu::Manager` (tum/manager.cpp) | none | obtains a `tu::Session`, attaches it, hands it its first message |
| `tu::Session` (tum/session.cpp) | FSM, step, `timer_table_` | timer table, `Release`, `Send` |
| `tu::Fsm*` (tum/fsm*.cpp) | none | idle: load command, HTTP request; API 1/2: timeouts, response |
| `ih::LoadGenerator` (main/load_generator.cpp) | command queue, current run, copied plan | `Command` (console), `CheckCommand` and `Generator` (thread), `GetStatus` |
| `hs::Manager`, `HttpDetailRecords` (hsm/) | request template, rows, row counter | `Load`, `Get`, `Next` |
| `ih::Property` (main/property.cpp) | configuration, plan, test flags, connection list | `Load`, getters and setters |
| `ih::Statistics` (main/statistics.cpp) | counters | `Stat*`, `Clear`, `Show*` |
| `ih::Cli` (main/cli.cpp) | none | the operator's commands |
| `main` (main/main.cpp) | pid file | start-up order, signals |
| control script (bin/ctl.template.sh) | the pid last read | `start`, `stop`, `status` |

A load command travels like this.  The generator (or `ACT-LOAD-GEN:ONCE`) calls
`ExecThread`; a worker takes the message, obtains an `ih::Session`, and under its
lock obtains and attaches a `tu::Session`, which starts an inactivity timer and a
trigger timer with a random delay.  The trigger comes back as a message, the
transaction starts a response timer, sends its request and counts it.  The
response, the response timeout or the inactivity timeout comes back as a message
and releases both sessions.  The hub looks sessions up **by id, without their
lock**, so every message may meet a session that was released, or obtained again,
in between.

What is hard here: the window between lookup and lock; timeouts racing responses
and each other, when an expired timer can no longer be stopped; ids that are
reused, and of which a reply brings back a part only; counting after sending; the two
pools that must stay in step on every error path; the generator's commands, which act a second later, in order, on state
other commands have changed; the injection data, where rows are numbered while
lines are skipped and keys repeat, and the row counter that wraps; several
processes coming up at once and a script that knows them only through one file;
settings that several consoles change item by item without a lock; counters that several
threads increment while they are cleared.  `PROJECT.json` lists each at its line under
"hazards".

What makes each component correct: the hub answers every client request and
delivers a message to the transaction it was meant for; a container is released on
every path that ends its transaction; no timer survives its transaction; a
transaction always has a timer left that ends it; the
statistics never show more responses than requests; a timed run sends no more bursts
than its duration, an untimed one does not stop, the status is true, every script of a
plan gets its rate; the service comes up with all of its scenario data or not at all, a key
finds its row, a request is made of one row and rows take turns; the pid file names
the process that serves, and the script tells the truth; what the console answers
is what was done.  Not all of it is so without a condition: a client is answered and
both pools stay whole only while `Attach` does not fail (the `tu::Session` of a failed
one is lost), messages are addressed rightly only while member ids are told apart by
the bits a reply brings back, and a violation shows what becomes of the untimed run and
of the rates of a plan.

## Modules

`LoadSession` composes the first eight components, because what is hard is
between them.  It is the core of the project.

| state of `LoadSession` | code |
|---|---|
| `unsent`, `inbox` | messages to come; the thread pool's queue and messages on their way to it |
| `worker` | per thread: idle; *routed* (has a message and a session pointer, waits for the lock); *sent* (between `Send` and `StatService`, holding the lock) |
| `ih`, `lock` | `ih::Session` objects, `lock_` |
| `tu` | `tu::Session` objects; `armed` is the non-zero part of `timer_table_` |
| `running` | timers of `xi::rp::Timer` |
| `wire` | requests of `xi::h1::Api` whose response may still come |
| `answers`, `stat` | statuses sent to clients; `StatService` of API01 |

One step of a worker is one critical section: the lookup in the pool (which holds
no session lock), then the handler, which runs wholly under the session's lock and
touches only that session, its transaction, its timers and its request.  Other
threads see nothing of it until it ends, except where the handler lets something
out early: the request, whose response may be handled before `StatService`.  So
`SendRequest` and `CountSent` are two steps with the lock held in between, and
`LockProtects` checks the claim that nothing else moves meanwhile.

Abstractions: how long timers run (any timer may expire at any time); message
contents; the two API machines, equal up to names, are one; a timer id is the pair
of its transaction and its type, since a transaction starts each timer at most
once; handlers that open a session and release it again in one critical section are
one step (`OpenAndRelease`), and so is a transaction that starts its last timer and
ends (`EndScenario`): the timer is stopped before the lock is free, but may have
expired, so that its event may be queued all the same (`MayHaveExpired`).  `owner` in messages, timers and requests names the
message that opened the session; no guard reads it, and the properties use it to
say whom a message was meant for.  `xi::rp::Session::Attach` hands out a member
id: the code does not show which, nor how wide its type is.  `Http1Api::Send` packs the
id whole (http1_api.cpp:121-123) and `OnReceive` reads 16 bits of it back (:97):
`Unpacked`, with `MidModulus` in place of 2^16.  With `MidsReused` any id may be handed
out at any time, also one that something still carries.  Without it `Attach` hands out
no id that equals, in the bits a reply brings back, one still carried by a message, a
timer, a request or a session (`AttachableMids`).  That is a condition and not a fact
about the library: it holds for a counter of ids, 16 bits wide or wider, until 65,536
members were attached while one message was on its way; what needs it says so.
`AttachMayFail` covers the 0 `Attach` may return.

`Exchange` is the abstract specification: what the engine promises of each load
command (one request at most, counted before its response, one end), without
sessions, ids, timers or threads.  `Promise` in `LoadSession` is the refinement
mapping.

`LoadGenerator` models the generator thread and the console commands that steer it.
Giving START is two critical sections: the plan is copied under `load_test_lock_`
(`StartCopiesPlan`), the command is queued under the property's lock (`StartQueued`).
A tick sees a new second (`Wake`), takes a command or carries on, and then passes,
stops itself for want of a plan, or walks through the plan under `load_test_lock_`:
`BeginBurst`, one `SendCommand` per load command, `EndBurst`.  While it walks
(`gen.pc = "burst"`) no START copies a plan; everything else goes on, the clock
included, so that a tick may take longer than its second.  `gen.visit` is the entry the
walk has come to with the turns it has left, `Advance` one iteration of its loop.  The
clock is part of the state, moves on its own and never back.  `run`, `burst`, `flagged`
and the field `by` are auxiliary.

`System` composes `LoadGenerator` and `LoadSession`: it declares the variables of both,
instantiates each over its share, and joins them at the call they share,
`InterfaceHub::ExecThread`.  `GeneratorSubmits` is a `SendCommand` of the one and a
`Submit` of the other, `ConsoleSubmits` the same from ACT-LOAD-GEN:ONCE; every other
step belongs to one of them.  `quota` is auxiliary: what the runs begun so far may send.

`Reports` models the two tables of `ih::Statistics`, every place that counts in them,
and CLR-REPT.

| state of `Reports` | code |
|---|---|
| `sending` | how far a transaction got with its request: counted by `Http1Api::Send`, sent, counted by the state machine, lock released |
| `reply` | awaited; queued (counted by `Http1Api::OnReceive`, on its way to a worker); ended |
| `visit` | a client's request: here, answered |
| `protocol`, `service` | the columns of `protocol_stat_` and the rows of `service_stat_` |
| `clearing` | tables the console's CLR-REPT has cleared (`Statistics::Clear` goes through them one by one) |
| `carried` | auxiliary: what was under way at the last clear |

It does not instantiate `LoadSession`: what matters here is where counts stand relative
to a message's way, not which session it belongs to, and both sides of a message count
at most once whatever happens to the session.

`DetailRecords` models `Property::Load_service`, `hs::Manager` and
`HttpDetailRecords`.

| state of `DetailRecords` | code |
|---|---|
| `config`, `handled` | "scenario-files" and the index of the loop in `Load_service` |
| `process` | up; exited after a failed load; crashed by a read past `value_rows_` |
| `table` | `Manager::table_`: per name `header_`, `value_rows_`, `key2idx_`, `load_seq_` |
| `worker` | a thread between `NextSeq` and the lock (*drawn*), or with its request (*composed*) |
| `drawn` | auxiliary: the row numbers `NextSeq` returned |

A scenario is what its two files say: which nodes the XML file has, the request as
a sequence of variables and text, the lines of the injection file as sequences of
cells.  Lines are those `fgets` makes with its buffer of 4096, so that a longer line of
the file is two; the cells of a header are as `conv[128]` keeps them.  Of a header cell
that is empty once it was trimmed `blankHeads` says whether it held blanks, because only
such a one is compared with the key column's name, which is empty when none is
configured (`KeyHeads`).  `LongKeys` names the keys `tmp[256]` cuts and what is left of
them (`CutKey`), `LongNames` the columns whose `${name}` does not fit into
`varname[128]`: the brace is cut off and any variable that begins like it is torn
(`Tear`).  `Ingest` is the loop of `LoadIngection` as a recursive function of the lines read,
`Fill` that of `Compose` as one of the columns substituted.  `table` is a map that
loading extends.  Scheme and content are treated by the code like
the request line and are left out.  `load_seq_` wraps at `SeqModulus` in place of
2^32.  Loading happens before any thread exists, as in `main`; nothing else calls it.

`Startup` models `main`, its signal handler and the control script.  A process is a
pid with the stage it has reached (`stage`); `port` is who listens on the console's
port, `pidFile` what the file says, `ctl` the script each operator runs: the pid it
read last (`PROCESS_PID`, kept while there is no file), the loop counter, the process it
sent SIGTERM (`target`, auxiliary).  Reading the file (`Look`) and `kill -0` of what was
read (`Running`, in the step that follows) are two steps, and anything may happen
between them.  The handler of SIGTERM sleeps for 200 ms, deletes the file
(`DeletePidFile`) and exits (`Exit`); another thread may be handling a second SIGTERM.
`abrupt` is auxiliary.  A process may crash in any stage, and with `PidsReused` the
system hands the pid of a dead one to another program (stage *foreign*).  The module
instantiates itself in its configuration, without an MC module.

`Settings` models the flags, the timers, the log settings and the certificates of
`Property`, what a configuration file makes of them (`Configured`) and the commands that
change, restore and show them.  A command is a list of lines that is worked through one
step each: a line that names an item and has a usable value is set and reported
(`SetOne`), any other is passed over (`PassOver`).  A shown flag is read twice, for its
value and for its mark (`SameAsDefault`, which of a LETTER first compares whether both
texts are empty; the one LETTER has an empty default).  LOG and TLS look their items up by name, in
their own order (`GivenFor`); the other commands loop over the lines given.  `Texts` are
the texts a command may give, `Empty` among them.  `setting` holds values, `console` the command in progress or the last
answer; `written` and `lost` in it are auxiliary: what the command set, and what others
set since it began.  Access to a single item is taken to be atomic.

`MCLoadSession`, `MCLoadGenerator`, `MCSystem`, `MCReports`, `MCDetailRecords` and
`MCSettings` give the constants values.  The theorems are in `LoadSessionProofs` (types,
pools, addressing, the invariant about messages) and `GuaranteeProofs` (what follows from
it for locks, timers, sessions and counts, and the refinement of `Exchange`), both about
`LoadSession`; `SystemProofs`, which instantiates the proofs of the two components of
`System`; `GeneratorProofs`, `ReportsProofs`, `StartupProofs`,
`SettingsProofs` and `DetailRecordsProofs` are about the module they name.

## Runs

| run | instance | states | shows |
|---|---|---|---|
| `session_fresh` | 2 workers, 2+2 sessions, 2 load commands, 1 client request, 3 member ids, two of them equal in a reply, none handed out while carried, `Attach` may fail | 265 k | containers, orphaned timers, addressing, and the safety half of `Exchange` |
| `session_progress` | 2 workers, 1 session, 2 load commands, 1 client request, 2 member ids for everyone, one of which a reply brings back changed, `Attach` may fail | 170 k | what holds when stale messages do reach a wrong transaction: guards, counts, locking; sessions come back, clients are answered unless a failed `Attach` took a transaction |
| `session_promise` | 2 workers, 1 session, 2 load commands, `Attach` succeeds | 19 k | `Exchange` with its fairness, and that the two pools stay in step |
| `generator` | 2 consoles, 3 commands, plans of 0 to 2 entries, clock of 5 ticks, 2-second minutes | 782 k | the bursts of timed runs, status, plan shares, one burst a minute |
| `generator_plan` | 1 console, a plan of 3 entries | | **violated**: entries do not get their rates |
| `generator_unlimited` | 1 console | | **violated**: an old STOP ends a new run |
| `system` | 1 worker, 1 session, 2 load commands, 1 console, 2 commands, runs with and without a duration | 259 k | no more requests than the runs allow; after the last stop every session ends |
| `reports` | 3 exchanges, 1 client request, 2 consoles, 3 clears | 733 k | answers are explained by requests, the tables by each other |
| `records` | 2 workers, 1 or 2 entries, 13 kinds of scenario, 4 keys, counter modulo 5, 7 draws per name | 122 k | loading, the key index, composed requests, turns of rows |
| `startup` | 3 processes, 2 operators, 3 commands, 2 tries per loop, 1 crash, pids reused | 1.35 M | the pid file and what the script says |
| `settings` | 2 consoles, 3 of 20 commands, 2 configurations | 522 k | answers hold, errors change nothing, marks are true |
| `settings_init_all` | 1 console | | **violated**: INIT-TST-CFG restores nothing |

States are distinct states, up to symmetry where the cfg names one; every run ends within a minute.

Bounds.  Two sessions of each kind and three messages are the least with a session
released by one worker, obtained by a second and held stale by a third message;
two workers suffice since at most one can be inside a session and one on its way
to it, while further workers only add messages that wait.  Session ids are as many
as sessions, so that every released id is handed out again.  The modulus of 4 stands for
2^16: of the member ids 1, 5 and 6 the first two are equal in a reply, and the last two
are not what a reply makes of them.  The
liveness runs have one session, for which all messages compete, and no symmetry.
For the generator, three commands allow START, STOP, START from two consoles in
every order; five ticks let a run of two seconds start, be replaced and end; the
two-second minute crosses every boundary the sixty-second one does.  In `system` the
pool of one session is smaller than what the generator may submit, so that commands are
dropped for want of a session; two commands allow a run and a stop, two runs, or a run
and a single test.  In `reports` three exchanges have one sender in each of the places a
clear may find it, and three clears let two consoles clear between each other's tables
and one of them once more afterwards.  The scenarios
of `records` have each of the cases the loader tells apart: repeated and empty keys,
columns without a name or named twice, a blank column name where no key is
configured, keys and names too long for their buffers, lines of the wrong length, a file that is
empty, has only a header, cannot be opened or is not named, a missing node, a cell
that looks like a variable, and blanks as delimiters.  Seven draws at a modulus of five
cross a wrap, at which the three rows of one file do not come out even.  Three processes and two operators give two starts that race, and a
third process afterwards; the loops of the script have two turns in place of five
and ten, enough for one turn that finds nothing and one that does.  Three commands on two
consoles change, restore and show the same items in every order.  Deadlock is not checked:
messages, commands, draws, processes and the clock are finite, so every behaviour ends.

Fairness.  `WF(Work(w))`: a thread of the pool that has something to do does it;
handlers do not block but on the session lock, whose holder never waits.
`WF(TimerThread)`: timers expire.  Nothing is assumed of the operator, of clients
or of the server under test: requests may stay unanswered for ever (`Lose` and
`Respond` have no fairness).  `System` adds `WF(Generator)` and `WF(Clock)`: the
generator's loop waits for nothing but the next second and locks that are held
briefly.  Consoles have none: nobody has to give a command, and `StartQueued` may stay away.
The other modules state no liveness.

## What the violations show

- `PlanHonoured`: in the loop of load_generator.cpp:201-223 the first entry sends
  `turn` commands and every entry reached after it `turn + 1`.  With two entries and
  a rate up to the sum this is hidden (`TwoEntrySharesHonoured` holds); with three it
  is not.
- `UnlimitedRunsOn`: the STOP a timed run queues for itself can stand behind a START
  already queued, and ends the run that START begins.  The same order is why a timed
  run that is followed by commands still sends no burst too many (`TimedRunBounded`).  It is
  the bursts that are bounded and not the time: under TR_PER_MINUTE there is one a minute.
- `InitRestoresAll`: `INIT-TST-CFG;` is offered as "Initialize all.", restores nothing and
  answers "Command not found" (cli.cpp:1274, 537).

The models also contain the following, which no run singles out:

- `tu::Manager::OnReceive` (manager.cpp:39-42) returns on a failed `Attach` without
  releasing the `tu::Session` it obtained one line before; nothing else refers to it.
  `session_fresh` and `session_progress` have such failures: what they check holds all the
  same, `PoolConservation` because it speaks of the containers.  `TuAvailable` does not,
  which is why it is checked where `Attach` succeeds.  A client's request that meets the
  failure, or later a pool that has lost its transactions, is released without an answer
  (session.cpp:60-63): `EveryRequestAnswered` says of each request without an answer that
  such a transaction exists (`Stranded`).
- A reply finds its transaction by 16 bits of the member id (http1_api.cpp:97).  With a
  wider id it is dropped, or handed to a member with the id that is left (`Unpacked`).
- With no key column configured, a header cell of blanks, or the line end after a last
  delimiter, becomes the key column (http_detail_records.cpp:330): `KeyHeads`.
- `FsmApi2` counts every request in the row of API01 (fsm_api_2.cpp:75), so that the row of
  API02 never moves: `Row`.
- A scenario-files entry without a name or file is read past the end of its members
  (property.cpp:346); entries of the configurations of `DetailRecords` have both.
- A misspelt log level in the configuration becomes NONE and switches the log off, while
  CHG-ENV:LOG refuses it: `NamedLevel`, `Accepted`.
- CHG-ENV:TLS assigns to elements of an empty vector (cli.cpp:1004), whatever its data:
  `CrashOnTls` ends the process.
- `GetTimerValue` draws trigger.scenario at random and ignores what CHG-ENV:TIMER
  reported as set (property.cpp:466): `Readings`.
- `load_seq_++ % value_size_` jumps when `load_seq_` wraps, unless the number of rows
  divides 2^32 (http_detail_records.cpp:373): `RowsTakeTurns` holds between wraps only.
- The pid file of a crashed process stays, and once its pid belongs to another program
  `stop` kills that program (ctl.template.sh:98): `Kill` of a *foreign* process.
- An injection file with a header and no rows ends the process at the first request
  (http_detail_records.cpp:395): `RowsExist` says that nothing else does.

## Proofs

About `LoadSession`, for any finite set of sessions and any workers, ids
and messages, from the assumptions named in `LoadSession` (the slots are finite,
`None` is no other value, a message is not both a command and a request, the two
flags are Boolean, member ids are numbers of which a reply does not bring back zero).

- `Invariance`: `Spec => []Inv`.  `Inv` adds to the type invariant what
  `PoolConservation` needs to be inductive: what a worker holds in each of its
  states, that a lock is held exactly by a worker in *sent*, that a session with
  a member has a transaction and a transaction in the pool has nothing armed, and
  that every attached transaction has left `FsmIdle`.  There is a lemma for each
  action.
- `TypeCorrect`, `PoolsConserved`, `HandlersSuffice`: `TypeOK`, `PoolConservation`
  and `NeverInvalidState` follow from it.  `PoolsConserved` is about the containers; a
  `tu::Session` lost to a failed `Attach` satisfies it.
- `Addressed`: `DeliveryAddressed`, from `OneOwner`: all that carries a member id with the
  same bits, in a message that is queued or held by a worker, a running timer, a request
  in flight or a session, does so for one owner (`Carries`).
  `DeliveryAddressed` alone is not inductive, since it speaks of the moment of
  delivery; what carries it there is that timers, requests and messages only copy
  ids of each other, a reply the bits it brings back, and that `AttachableMids` has no id
  that something carries (`HandedOut`).  That is the
  one place where `~MidsReused` is used; without it stale messages do
  reach other transactions, which is the setting of `session_progress`.
- `LifeInvariance`: `Spec => [](Inv /\ LifeInv)`, also when ids are
  reused.  The state is spread over the queue, the workers, the running timers and the
  requests in flight, and an invariant that speaks of each in turn has a case for every
  pair.  `LifeInv` speaks of one set, `Messages`: what is queued, what a worker holds, and
  what the environment still owes.  A message has one place (`Placed`), an owner has at
  most one of each kind (`OneOfEach`), an opening message is the only one of its owner
  (`OpeningsFirst`), live transactions have different owners (`OwnersDistinct`), what is
  on the way for a live transaction names its session (`Bound`), and what it has sent is
  told by its step and its lock (`NothingSent`, `LockedSent`).  Most steps only move a
  message from one place to another, so that one lemma covers them; `StartScenario` and
  `SendRequest` are the only ones that add any.
- `LocksProtect`: the action property `LockProtects`.  No other thread reaches the session
  of a worker between its request and its count, because all that could reach it waits
  for the lock; a timer of it may still expire.
- `SessionsGuarded`: `GuardedSessions` needs that a timeout still to come is not used up
  elsewhere, which `Bound` says: while its transaction is live, it goes to it.
- `TimersOwned`: `NoOrphanTimers`, while `MidsReused` is FALSE, as for `Addressed`.  With reuse it is false:
  a late message ends the transaction of another owner without its timers being told.
- `TransactionsSuffice`: `TuAvailable`, while `AttachMayFail` is FALSE, by a pigeonhole:
  every `tu::Session` taken has an `ih::Session` as its parent (`TakenAttached`), so that
  when one of these is without a member, one of those is in the pool.  With failures the
  code loses one each time (manager.cpp:39), and it is false.
- `RepliesAfterRequests`: `CountsOrdered`.  As an inequality of counters it is not
  inductive; what is (`Ordered`) puts on the smaller side the replies that may still be
  counted, as the cardinality of a subset of `Messages`, and on the larger the requests
  sent but not counted yet.
- `EngineKeepsPromise`: `PromiseSafe`, the refinement of the safety half
  of `Exchange`, while `MidsReused` is FALSE, again as for `Addressed`.  The phase of a command is told by where
  its opening message is and by the transaction it owns.  `UndisturbedPhase` says
  on which facts of a command its phase rests; each step leaves them alone for all
  commands but one, whose phase it moves as `Exchange` allows, or for all, and is a
  stutter.
- `OneRequestEach`: no more requests are counted than load commands were submitted
  (`RequestsSubmitted`), also when ids are reused and `Exchange` is not refined.  A command
  that waits for its reply or has ended is spent (`Spent`); a request is counted when
  a command becomes spent, and all a late reply can do is to make one spent without.

About `Startup`, for any set of pids and operators, any numbers of tries, commands and
crashes, with or without reused pids, from the assumptions named there (at least one
try, `None` is no pid and nothing the script says):

- `InvHolds`: `Spec => []Inv` in `StartupProofs`.  `PidFileNamesServer` is not inductive:
  it needs that whoever got past `Bind` still holds the port (`PortHeld`), so that two
  processes never write the file.  The script's side is `ScriptKnows`: the pid it read
  was once up, though it may have deleted its file since, and while the process it killed is on its way out, it is looking at that one.  That is
  where the order in `sig_core_handler` and the kept `PROCESS_PID` matter: before the
  file is deleted it names the process, and afterwards the script keeps the pid.
  `StagesForward` says what processes never undo; every step of a process keeps
  `ScriptKnows` because of it.
- `TypeCorrect`, `ServerNamed`, `StaleExplained`, `StopTruthful` follow; `StartTruthful`,
  an action property, is the invariant and a case for each action that could end the
  script's run.

About `LoadGenerator`, for any consoles, plans of any length, rates, durations, number of
commands and length of a minute, from the assumptions named there (plans are sequences of
entries with a positive turn, rates and the minute are positive):

- `TypeCorrect`: `TypeOK` together with `Walking`, that the iterator of a burst is inside
  the list; `AdvanceInside` is the lemma that the loop never leaves it.
- `OnceAMinute`: from `TimesInOrder` (`flagged`, `prev_min`, the minute of `prev_time` and
  the clock never overtake each other) and `Minutes`, that minutes follow each other like
  the times in them.  That `prev_min` is kept while the flag is off is what makes it hold.
- `StatusRight`: from `TimesTellCommand`.  A START and a STOP in the same second are told
  apart because START clears `stop_time_`.
- `RunsBounded`: `TimedRunBounded` needs `CountKept`: bursts and turns left add up to the
  duration, with one more while a burst is on its way, and when the count is zero, where it would
  mean "unlimited", the STOP is in the queue and will be met before the thread acts again.
  `ActsOnCurrent` adds that what the thread acts on is the current command.
- `SharesHonoured`: `TwoEntrySharesHonoured`.  A burst of a plan of two is in its first round
  as long as it has room, so that where the walk stands tells what it has sent: of each
  entry, its share and the turns left to it, and one more for the entry it was entered at
  with `turn + 1`.

About `Reports`, for any finite sets of exchanges and clients' requests, any consoles and
any number of clears:

- `Explained` and `Agreement`: `ResponsesExplained` and `TablesAgree`.  Each is an
  inequality between counters; it becomes inductive when the exchanges that may still
  move it stand on its smaller side (`OutBalance`, `InBalance`, `RowBalance`, `SentAgree`,
  `ReceivedAgree`), as cardinalities that a step changes by one.  `SentRoom` and
  `ReceivedRoom` carry the agreement across the moment between the two clears; they
  are where the order of the tables in `Statistics::Clear` is used.

About `Settings`, for any number of consoles, any commands of any length, any
configuration files, from the assumptions named there (the value of a line has the type
its section makes of the text, a file gives an item no value it may not have, but for
the level, whose name it gives):

- `TypeCorrect`, `AnswersHold`, `ErrorsHarmless`, `SectionsRestored` and `MarksRight`, from
  one invariant that says of each console by itself what its command has done (`Sound`):
  what it set and nobody set since is as its last line about it says (`Holds`), what it
  changed it has reported (`Reports`), of a section to be restored each item is at its
  default or still to come (`Restores`), and a line with its mark is right (`Marks`).  A
  step of another console sets one item and adds it to `lost`, which takes it out of all
  of these at once (`Overwrite`), so there is one lemma for the others and one for each
  action of the console itself.  That the last line about an item is meant, and not the
  first, is needed since a command may name an item twice.

About `DetailRecords`, for injection files, headers and requests of any length, any
configurations, any keys and names too long for their buffers, any number of threads and
draws and any modulus of the counter, from the assumptions named there (a configuration is a sequence of entries whose scenarios are
records of such parts, `None` and an unreadable file are no sequences of lines, the empty
name is no scenario's):

- `IInv` says how far loading has come (`ServedSoFar`), that a record is what `Ingest` and
  the XML file make of its scenario (`Stands`), what each thread holds (`WorkerSound`) and
  which rows the counter has given (`DrawsCounted`).
- `Ingest` and `Fill` loop over data.  The library's induction theorems take an operator and
  cannot be used; instead a recursive function's existence, and what it computes,
  are shown by taking the set of the steps for which it holds and applying induction over
  a set of numbers (`AllOf`).  `Ingested` and `Indexed` say what the lines read so far have
  stored; that a key's row is its first is `NewKeyIndexes`, where the number of the next
  row, and not that of the line, is what the code uses.
- `TypeCorrect`, `WholeConfigurationServed`, `KeysFound`, `RequestsComposed` and `RowsFound`
  follow.
- `TurnsTaken`: `RowsTakeTurns`.  Between two wraps the k-th draw is row k modulo the
  number of rows (`InTurn`), and adding the distance of two rows maps the draws of
  the one into those of the other, all but one (`DrawsShift`, `OneMore`).

About `System`, for any sets of workers, sessions, ids and consoles, any plans, rates and
durations and any number of load commands, from the assumptions of its two components,
which `System` names again for its own constants:

- `GeneratorComposed`: `Spec => Control!Spec`.  The system implements `LoadGenerator`, so
  that whatever is proved of the generator holds of it.
- `EngineComposed`: every step of the system is a step of `LoadSession`, or leaves it alone.
- `QuotaHolds`: `QuotaKept`.  Requests counted are no more than commands submitted, which is
  what `OneRequestEach` says of the engine (`EngineInv` is its invariant).  Commands
  submitted are no more than the quota by `Budgeted`: what was submitted and what the
  current run has `Left` (the rest of a burst, and its rate times the turns to come) fit
  into what the runs begun so far were allowed, until a run without a duration allows
  everything.  That a burst never begins with a count of zero, where one turn too many
  would be left, is `CountKept` of the generator; that it sends at the rate of the run it
  is charged to is `RateCurrent`.

Only model-checked: the liveness properties (`PromiseKept`, `StopDrains` and those of
`session_progress`): they rest on fairness, and `ENABLED` is out of the prover's reach.
Every safety invariant and action property of a passing run is proved.  The violations
are TLC's counterexamples.

## Plan

The modelling planned is done, and so are the proofs of what the runs check.

## Not modelled

- A member id that is a multiple of 2^16, whose reply would name no member and be handed
  to `tu::Manager` as if it opened a session (`MidsAssumption` leaves such ids out).
- The `xi` framework but for what the code sees of it, XML and JSON parsing, formatting of tables and logs, build
  files: not in the repository, or without state of their own.
- `SetAddrLimit`, `NextAddr`, `AddAddr`, `RemoveAddr` and the connection list of
  `Property`: ACT-LOAD-GEN sets a limit that only `NextAddr` reads, and `NextAddr` has no
  caller.  `SocketEvent` and `KafkaProduce` have no user in the repository either.
- SCHED-REPT and CANC-REPT, which hand an interval to the console library; HELP and the
  RTRV commands other than those of flags and environment, which print.
- The debug counter: only the INVALID_STATE handlers count in it, and `NeverInvalidState`
  says they are never called.
- The Echo header a response is compared with (fsm_api_1.cpp:73): the state machines
  add no such header to their requests; a response without the tag is counted with 9000
  added to its status; the tables of `Reports` do not tell status codes apart.
- The size limit of the log file, stored in 32 bits (property.cpp:406), and its rotation.
- The unsynchronised copies of the plan in `Property` by two consoles
  (property.cpp:486): what a torn `std::list` does is not a behaviour to enumerate.
