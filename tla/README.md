# gosrvlib in TLA+

TLA+ models of the parts of gosrvlib (`src/pkg`, `src/examples/service`) that keep
state, wait, retry or share something; TLC configurations that check them on small
instances; and TLAPS proofs of their main properties for every value of the
constants. `PROJECT.json` lists the components, the runs, the theorems, the hazards
of the code with the properties aimed at them, and the source lines that each
definition models.

To check: `tlc -config retrier.cfg MCRetrier.tla` (likewise for the other
configurations) and `tlapm RetrierProofs.tla`.

## 1. Inventory

gosrvlib is a library of some forty small packages. Most are independent; a service
is made of a few of them that share one context (section 1.6).

### 1.1 pkg/retrier: retry a task
- State: the options; `nextDelay`, `remainingAttempts`, `timer`, `resetTimer` (a
  channel of capacity 1 made once in `New`), `taskError`.
- Operations: `New`, `Run` (loop of select over the context, `resetTimer` and the
  timer), `exec`, `setTimer`.
- Hard: the goroutine that sends to `resetTimer` is its only receiver; `select` takes
  any ready case; a timer must be stopped and drained before it is armed again; what
  a cancelled `Run` leaves in the channel meets the next `Run`; unsigned counter;
  delay multiplied as a float64.
- Correct when: at most `attempts` attempts, each asked for by the outcome before
  it and separated from it by its delay; `Run` returns the outcome of the last
  attempt; it never blocks on its own channel.

### 1.2 pkg/httpretrier: retry an HTTP request
- State: as above, with `doResponse`, `doError`, the request's body and `cancel`.
- Operations: `Do`, `retry`, `run`, `setTimer`; two ready-made retry conditions.
- Interacts with: an `http.Client` (external), the caller's request and its body.
- Hard: bodies to close on every way out, a body to provide again for each attempt,
  `GetBody` that fails or is missing, and all of 1.1.
- Correct when: exactly the returned body is left open; every attempt sends the whole
  body; the contract of 1.1 with the retry condition of the request's method.

### 1.3 pkg/periodic: run a task at intervals
- State: `ctx`, `cancel`, `timer`, `resetTimer`, stored in the Periodic and read
  again by each pass of a loop.
- Operations: `New`, `Start`, `Stop`, `loop`, `run`, `setTimer`.
- Hard: `Stop` waits for nothing; after a second `Start` two loops share the fields
  and the channel.
- Correct when: a loop that is alone calls its task for ever, with the interval
  between calls, until it is stopped, and then ends.

### 1.4 pkg/mysqllock: a distributed lock
- State: a connection and a keep-alive goroutine per holder; in the server, sessions,
  the owner of the lock and its count.
- Operations: `Acquire`, the release function, `keepConnectionAlive`.
- Hard: the lock belongs to a MySQL session that can be lost, or ended by the server
  when idle; the release and the keep-alive query use one connection.
- Correct when: the holder owns the lock as long as its session lives, a session in
  the pool owns no lock, the release ends.

### 1.5 pkg/filter: filter a slice in place by rules
- State: the evaluator cached in each rule, the cache of field paths of the
  Processor, the slice that is read and written at once.
- Operations: `Apply`, `ApplySubset`, `filterSliceValue`, `evaluateRules`,
  `Rule.Evaluate`, `GetFieldValue`, eleven evaluators.
- Hard: a write must not overtake the reading; paths cached by the string of a type;
  conversions to float64; panics of package reflect.
- Correct when: the result is that of a filter written from the rules alone, whatever
  has been cached.

### 1.6 A service: pkg/bootstrap, httpserver, healthcheck, sqlconn, sqltransaction
`Bootstrap` runs the application's bind function, which starts the parts, then waits
for a signal or for the end of its context. The parts know only the application
context: `httpserver` shuts its server down when it ends, `sqlconn` closes its
database. A health request goes through `httpserver` to `healthcheck.Handler`, which
runs each check in a goroutine, `SQLConn.HealthCheck` among them; another request
takes the `*sql.DB` of `sqlconn` and runs `sqltransaction.Exec` on it.
- State: where Bootstrap is, the context; per server the listener, `Serve`, the
  requests in progress; per health request its checks and its channel; the handle,
  the lock and the closing goroutine of sqlconn; per transaction its state.
- Hard: shutdown while requests are in progress, in every order; a bind that fails in
  the middle; a read-write lock whose writer makes new readers wait; a channel that is
  closed while goroutines send to it; panics and cancellations inside a transaction.
- Correct when: what was started is stopped, what was taken is answered, answers are
  true, and nothing closed is used by a check.

### 1.7 The requests of a server: pkg/httpserver, httputil, traceid, metrics, jwt, ipify, httpclient
A request goes through `RequestInjectHandler` (trace ID, logger), the router and
`InstrumentHandler` to a handler, which writes to the proxy of
`httputil.NewResponseWriterWrapper`. The handler of `/ip` calls `ipify`, which calls
`httpclient`; those of `jwt` sign and check tokens.
- State: the configuration and the bound paths; per request its trace ID, its response
  and the client's call it makes; the counters; the tokens that were signed.
- Hard: the calls of a handler come in any order; a panic unwinds through the counters;
  two layers each inject a trace ID; `httpclient.Do` ends the context of a request
  whose body has yet to be read; a token ends at a whole second.
- Correct when: what is counted is what was sent, what went in comes out, one request
  has one trace ID, the IP handler tells how its call ended, access follows a login.

### 1.8 Enumerations: pkg/enumcache, enumbitmap, enumdb
- State: two maps (ID to name, name to ID) behind a RWMutex; in `enumdb.New`, the
  table it is at, its statement and its rows.
- Hard: two IDs of one name, or the reverse, leave a stale inverse entry; `SetAll*`
  goes through a map in random order; the 32nd bit; rows that break off.
- Correct when: readers see whole pairs that were set; decoding undoes encoding; `New`
  gives all the tables or none.

### 1.9 Queues: pkg/sqs, kafka, kafkacgo
- State: none of the program's own but the options; the queue hides and gives again,
  the partition and the group have offsets.
- Hard: crashes between reception, processing and deletion; a body that cannot be
  decoded; a commit before `Receive` returns (kafka), or in the background (kafkacgo).
- Correct when: what was sent is processed at least once, and leaves the queue; what
  Receive returns, across restarts, is as section 3 says.

### 1.10 Configuration: pkg/config and the command of examples/service
- State: two vipers, the files, the environment, the remote source, the flags.
- Hard: the rank of six sources, each of which can fail; what is validated, and when.
- Correct when: a program that starts has each parameter from the source of the
  highest rank that gives it.

### 1.11 The rest
`threadsafe`, `paging`, `decint`, `validator`, `sqlutil`, `uid`, `uidc`, `randkey`,
`stringkey`, `redact`, `slack`, `s3`, `awsopt`, `errtrace`, `profiling`: functions
without a state of their own, or thin layers over a library (section 7).

## 2. Plan

In the order of what goes wrong most easily:

1. `BoundedRetry`, `Retrier`, `RetrierProofs`                          done
2. `HTTPRetrier`, `HTTPRetrierProofs`                                  done
3. `Periodic`                                                          done
4. `MySQLLock`                                                         done
5. `Service` over `SQLConn`, `SQLTransaction`, `HealthCheck`,
   `HTTPServer`; `ServiceProofs`                                       done
6. `FilterRules`, `Filter`                                             done
7. `EnumCache`, `EnumDB`                                               done
8. `ResponseWriter`, `HTTPRoutes`, `PublicIP`, `Token`; `Web` over them  done
9. `SQS`, `Kafka`; `Messaging` over them                               done
10. `Config`                                                           done
11. `PeriodicProofs`; `DatabaseProofs` (MySQLLock, EnumDB);
    `InputProofs` (Config, Filter)                                     done
12. `WebProofs`, `MessagingProofs`                                     done

`threadsafe` and `paging`, once planned, are left out: a caller that could go wrong does
not exist in the repository, and the formulas of `paging` have no state.

## 3. Modules

A name with an underscore (`Match_OffByOne`) is a mutant: the definition named before
the underscore with one plausible mistake; it is used by no specification.

### Retrier (pkg/retrier)
One action per case of the select (`SelectDone`, `SelectReset`, `SelectTimer`), and
one for each way the task can return (`TaskReturns`), for the end of `exec`
(`SendReset`), for the calls of `Run`, and for the world: the runtime's timer, the
timeout of the task, the caller's context. `resetTimer` is a sequence of at most one
delay. The retry condition is the constant set `RetryOn`, the delays are integers,
`delayFactor` is a whole number (the code takes any float64 that is not below 1), and time is not a clock: `AttemptAfterItsDelay`
compares the delay for which the timer was armed with the one the options require.
`MaxInt64` stands for the largest duration; the runs keep the delays below it. With
options so large that they exceed it, the delay turns negative and the attempts
follow each other at once; options.go:51 forbids no such value.

`BoundedRetry` is the abstract specification of a `Run`, and of a `Do`: an attempt is
made, it fails, and it is either retried or is the answer; there are at most
`Attempts` of them. Both modules implement it (`ContractSpec`).

### HTTPRetrier (pkg/httpretrier)
The same loop in a goroutine of its own, with `Do` waiting for the context that the
goroutine cancels. `RunDecides` is the whole of `run`: renewal of the body, the
decision, the close of the discarded response. The client, external, consumes the
body of the request and opens that of the response. It is nondeterministic in
`Statuses` and in its errors.

### Periodic (pkg/periodic)
`Starts` numbers the calls of `Start`, and each has a loop, a context and a timer;
`ctx` and `pTimer` are the fields of the Periodic that all loops read. A loop's select
waits on what it has just read (`waitsOn`). After a jitter of zero, which `New` lets
pass although its message says "jitter must be positive" (periodic.go:36-37), the
task's return panics: the state is in the model, the run keeps `Jitter` above zero.

### MySQLLock (pkg/mysqllock)
The pool, the callers and the keep-alive goroutines are the code; the sessions, the
re-entrant lock and the end of idle sessions are the server, external; so are the
rules of database/sql: operations on a connection exclude each other, and its close
waits for open rows. `MaxKinds` bounds how many kinds of failure one behaviour has.

### Service (pkg/bootstrap, the example's bind) and its parts
`SQLConn`, `HTTPServer`, `HealthCheck` and `SQLTransaction` are modules of their own,
with their variables; `Service` instantiates them and says who calls what. The
channel of results is a sequence of bounded length that can be closed. `Health` and
`Exec` requests are accepted while the server serves; `HTTPServer` models net/http:
`Shutdown` closes the listener and waits for the requests until its time limit.
What the model leaves out, on purpose:
- the end of the process: Bootstrap returns and the goroutines go on. In a program
  that returns from `main` they are cut off (end of section 4);
- a signal before `signal.Notify`, which kills the process;
- a connection accepted before the shutdown whose request comes after;
- the example service has two servers and no database; the checked one has one
  server, on which both kinds of requests go, and the database. The module takes any
  number of servers, and the theorems hold for it.
`Connect` can fail before it opens a database and after, when the first check of the
connection fails (`CheckError`); the second leaves the database open for ever, as
sqlconn.go:130-132 does. `EverythingStops` says that all else is released, and exempts
that handle by name (`Leaked`).
`Serve` returns `ErrServerClosed` after each normal shutdown, and
httpserver.go:121 logs this as an unexpected failure; the model makes no difference.

`sqlxtransaction.Exec` is the same function over sqlx, and has the same model.

### FilterRules, Filter (pkg/filter)
`FilterRules` holds the functions: values as reflect shows them, the conversion to
float64 with its rounding (`MaxExact` stands for 2^53; numbers are held as multiples of
1 / `Unit`, halves in the run; infinities are numbers beyond the others, and NaN is a
float that holds none), the evaluators, the path of a field. `Filter` is the state machine
of a call, one rule at a time, on a Processor that keeps its cache between calls. A
panic (two slices compared with `==`, a field of a nil pointer) is an outcome of the
call. One goroutine uses a Processor at a time: nothing guards its cache. Regular
expressions are a table; the parsing of JSON is left out. Lengths are compared with
`int(ref)`: what Go makes of a float64 that no int holds depends on the build, and is the
constant `NoInt`. `RuleTypesAgree` relates the evaluators to each other; with NaN on
either side none of `<`, `<=`, `>`, `>=`, `==` and `=` holds, and it says so. NaN inside a
struct or an array, which Go's `==` finds unequal to itself too, is not told apart.
`ReturnsReference` compares a
call with its meaning: the p-th object that is kept is the one that matches as number
offset + p in the slice that was given, where what matches is computed from the rules
alone. It is checked, and proved, where no two types have the same string
(`UniqueTypes`); section 4 says what happens when two have.
rule.go:69 says that evaluating an int with a regexp is an error; the code, the
package's test ("success - regexp with an int") and the model say false.

### Web and its parts (pkg/httpserver, httputil, traceid, metrics, jwt, ipify, httpclient)
`HTTPRoutes` is `Start` up to the listener: a configuration is refused, panics (a
handler that is nil, a path bound twice), or has its paths bound. `ResponseWriter` is the
proxy as functions on a record, beside the response that net/http sends, with two
histories (`flushed`, `again`) from which `RecordsWhatWasSent` says exactly what status
and size are recorded; `ReadFrom` knows three ways: with a tee, straight to net/http, and
an error where net/http takes no reader (over HTTP/2). `PublicIP`
the call of `ipify` through `httpclient`; `Token` the clock, the signed tokens and
what the handlers of `jwt` do with them. `Web` composes them: `Receive` is all that
happens to a request before its handler (injection, routing, counting in), one action
is a handler or one of its calls, `Return` and `Panic` are the way out through
`InstrumentHandler`. The application's handler (`AppCalls`) calls whatever it likes on
its `ResponseWriter`, in any order. The clock ticks only where a JWT route is bound:
nothing else looks at it. Both metrics clients are configurations of one model.

### EnumCache, EnumDB (pkg/enumcache, enumbitmap, enumdb)
An ID is the set of its bits, which makes the loops of `enumbitmap` sets as well. A
writer takes the lock, sets the name of a pair and then its ID in two steps, and
gives the lock back; readers take it for reading, and what each function returns is an
operator on the maps. `EnumDB` is `New`, one call of database/sql per action, each of
which can fail. The goroutines use the cache of one table, `Shared`, after `New`.

### SQS, Kafka, Messaging (pkg/sqs, kafka, kafkacgo)
`Messaging` is a program with one of the three clients. `New` of pkg/sqs refuses options,
and fails when the configuration of AWS does not load. On SQS, workers receive,
process and delete, and one can end at any step; the queue hides a message, gives it
again, and may lose the answer of any call. With Kafka, a consumer reads one
partition: in pkg/kafka with a group `ReadMessage` commits before it returns, in
pkg/kafkacgo the commit comes in the background or with `Close`. So the first never
returns a message twice but may miss one, and the second misses none but may return
one again: `ReceivesInOrder` states both.

### Config (pkg/config, the command of examples/service)
A layer gives each parameter a class of values, and a value remembers the source it
came from. One action per step of `Load` and of its failure: the local file, the
parameters of the remote source in it (`SourceMistyped`), the remote source (six reasons
not to be usable), `Unmarshal`, `Validate`; then the flags
and the logger of the command. Because viper looks keys up in the environment, then in
the file, then in the defaults, and the second viper takes the result as its defaults,
the remote source ranks above the environment.

## 4. Runs

| run | states | question |
|---|---|---|
| retrier | 724 | Is `Run` a bounded retry that respects its delays, returns, and can be reused unless it was cancelled? |
| retrier_reuse | violation | Does `Run` return when the one before was cancelled? No: retrier.go:128 blocks. |
| httpretrier | 2 359 | The same for `Do`, with the account of bodies and their replay. |
| httpretrier_body | violation | Does each attempt send the original body? Not without `GetBody`. |
| periodic | 51 339 | Does a loop call its task for ever, spaced, until stopped, and then end? |
| mysqllock | 67 383 | Does the holder own the lock as long as its session lives, and does the release end? |
| service | 53 231 | Is all stopped, answered and told truly, whatever the moment of the stop? |
| filter | 131 729 | Is the in-place result the reference result, whatever is cached? |
| web | 1 129 134 | Do counters, trace IDs, the IP answer and access agree with what was sent, received and signed? |
| enum | 1 671 413 | Do readers see whole pairs, do bit maps come back, does `New` give all or nothing? |
| messaging | 55 374 | Is nothing lost, does the queue drain, what does Receive promise across restarts? |
| config | 212 544 | Does the program start with each parameter from its source, and what has not been validated? |

The violations are described, with the lines they contradict, in `PROJECT.json`
under "findings". The properties of the passing runs are stated, where needed, for
what the list at the end of this section leaves: `NoBlockedSend`, `RunReturns` and `DoReturns` for a
`Run` that found the channel empty, `KeepsCalling` for a loop that is alone
and found it empty, `HolderOwnsLock` while the session lives. The type invariants of
the modules with proofs are proved and not run again; the others are a conjunct
of an invariant (`RequestsCounted`, `NothingIsLost`).

Bounds, and why they are enough:
- Retrier: three attempts (a first, a middle and a last one have different guards),
  three Runs (a leftover delay needs two; the third shows that a Run which returned
  after it is clean again). Delay 2 and factor 2 give each attempt a delay of its own.
- HTTPRetrier: three attempts, two Dos (stale fields need two); three statuses: final,
  retried for reads only, retried for all; all three kinds of body.
- Periodic: two Starts are the least that have two loops on one Periodic.
- MySQLLock: two callers, two sessions; the server's limit of idleness is one tick
  more than the interval of the keep-alive, the tightest case the code tolerates.
- Service: one request of each kind, two checks (that of the database and another),
  one server. The parts meet only in the context, and two checks are the least that
  can end in different orders. ServiceProofs lifts the safety to any number.
- Filter: slices of up to three objects with offset up to 1 and length up to 3, so that
  the offset, the limit and the end are passed in the middle; two calls, so that the
  second finds the cache of the first; every shape of value and type of rule.
- Web: two handlers at a time and `MaxServed` = 3 requests, so that one begins after
  another ended and the counters have moved; `MaxBytes` = 2, so that bytes come before
  and after a status, a flush and a tee; half seconds, an expiration of three and a
  renewal of one tick in `MaxClock` = 6, so that a token is renewed and ends between two
  seconds. Fourteen configurations: three that listen, and each reason to refuse or
  to panic.
- Enum: three bits, `MaxBit` = 2 (the third is one that BitMapToStrings does not
  look at) and one ID of two bits; two names, so that both kinds of collision happen;
  two goroutines, `MaxEnum` = 2 pairs in one `SetAll`; two tables, one of them
  with a collision. The width of 32 bits is a parameter.
- Messaging: a message of each kind (sound, undecodable, unencodable), two workers; a
  partition of `MaxEnd` = 4 and `MaxReceived` = 6, which leaves room for
  messages returned twice.
- Config: one parameter with a flag and one without, two directories to search, each
  source absent, malformed or with values of each class; each way a remote source
  is incomplete.

Deadlock is checked where the program has no end (`mysqllock`); elsewhere the bounded
number of calls, bytes or ticks comes to an end, or the service stops.

### Where the code and its text disagree
Met while modelling; beside the two violations above the models follow the code.
- periodic.go:106: a delay that a stopped loop left in `resetTimer` is still there at
  the next `Start`, whose loop blocks for ever when it sends its own (`Periodic` has
  this behaviour; `RestartKeepsCalling` states what a reader would expect, and fails).
- periodic.go:36: "jitter must be positive", but zero passes and panics later.
- mysqllock.go:98: the holder is not told that its session is lost, and another can
  take the lock (`MutualExclusion` alone does not hold; `HolderOwnsLock` says when).
- bootstrap.go:71 logs "application stopped" while servers drain (`StoppedIsStopped`
  in `Service` fails); httpserver.go:121 logs each normal shutdown as unexpected.
- field_cacher.go:34 keys the cache by the string of a type, which two types can share
  (`FieldOfItsOwnType` in `Filter` fails).
- config.go:27-29 lists the flags before the validation; cli.go:42 applies them after
  `Load` has validated. What a flag says is looked at by the logger alone.
- config.go:134 requires data of a provider "envar", and the provider's name is "envvar"
  (config.go:68); the tags of `remoteSourceConfig` are never validated.
- config.go:203 reads "the local configuration file (if any)", and config.go:13 "attempts
  to load": the code returns the error of a file that is not there, and no program starts
  without one. `StartsFromItsSources` follows the code.
- sqlconn.go:130-132: when the first check of a new connection fails, `Connect` returns the
  error and nobody closes the database that sql.Open made (`CheckError`, `Leaked`).
- respwriter.go:23, "Status returns the HTTP status of the request": after a `Flush` that
  comes before any status, the client has 200 and Status is 0; it is also 0 for a handler
  that has sent nothing, for which net/http then sends 200 or the PanicHandler 500. The
  metrics of such requests are under status 0.
- respwriter.go:20, "Size returns the total number of bytes sent to the client": with a tee,
  `ReadFrom` counts its bytes twice, or comes back to itself until the stack overflows
  (`AppOverflows`).
- httpserver.go:146: without a header, the default handlers for 404, 405 and panics log a
  trace ID that is not the one of the context (`TraceFollowsRequest` exempts their log).
- periodic.go:65 says that Stop may block until the last running function returns; it
  cancels the context and returns at once.
- mysqllock.go:80: when RELEASE_LOCK fails, the connection goes to the pool all the same,
  and the lock with it (`LockNotPooled` exempts it).
- httpclient/client.go:53: `Do` cancels the context before the caller reads the body,
  which can then fail (`PublicIP`); a debug logger hides it.
- jwt.go:173: a renewed token ends when the old one did. `AccessAfterLogin` holds because
  of it.
- kafkacgo/producer.go:46: the events of the producer are read by nobody.
- logging.go:79-82 blanks the host name when `os.Hostname` succeeds, and logging.go:18
  takes `LogFatal` from the logger that does nothing.

## 5. Fairness

- Retrier, HTTPRetrier: weak fairness of the loop's own steps (the goroutine is
  scheduled), of the timer (it fires), and of the end of an attempt: the task must
  return once its context has timed out, which is the contract of a context; the HTTP
  client has a time limit. The caller's cancellation is never assumed.
- Periodic: weak fairness of each loop, of its timer and of its task; strong fairness
  of the case of a done context in the select: Go's select chooses at random among
  the ready cases, and so takes each of them in the end.
- MySQLLock: weak fairness of the callers and of the keep-alive goroutines; strong
  fairness of the release's turn on the connection: the mutex of database/sql lets a
  waiter through even when the keep-alive query comes again and again. Failures and
  ticks are never assumed.
- Messaging: weak fairness of the visibility timeout; strong fairness, for each message,
  of being given to a worker, of its processing before it is given again, and of its
  deletion. The queue keeps what it hides for its timeout, a worker that ends is
  started again, and a call that is tried again and again succeeds in the end. A
  visibility timeout of zero, which never hides a message from the other workers, is
  allowed by `New` and left out of the run's options. Sends, crashes and restarts are never assumed.
- Service: weak fairness of Bootstrap, of the goroutine that closes the database, of
  the servers (the time limit of Shutdown included), and of the handlers; their
  handlers return because their checks, their functions and the database answer or
  fail. Signals, failures, requests and clients that go away are never assumed.

## 6. Proofs

Proved with TLAPS for all values of the constants, from the named assumptions of the
modules (what the options let pass, finite sets of checks, slices and rules that are
sequences):

- `RetrierProofs`: types, `NoBlockedSend`, `LeftoverOnlyAfterCancel`, and that
  Retrier implements BoundedRetry. The invariant adds that a delay is queued only
  when the timer is spent, and that an attempt is left while a Run is in its loop.
  Without the first the send could block, without the second the counter could wrap.
  `AttemptAfterItsDelay` adds that the one delay under way, in the channel or in the
  timer, is that of the last attempt. Its hypothesis `PowersMultiply` is the law of
  powers (x^0 = 1, x^(k+1) = x^k * x), true in arithmetic: the provers know nothing of
  the operator ^, and cannot prove it, which would take an induction.
- `HTTPRetrierProofs`: the same for `Do`, and the account and replay of bodies, with what the
  goroutine holds open at each of its points.
- `ServiceProofs`: types, `CheckUsesOpenDB`, `ReportTellsFailures`, `NoSendOnClosed`,
  `ExecTellsOutcome`. Each part has its own invariant, and its lemma "the other parts
  leave its variables alone", since they share the context only. That of the health
  handler says that the channel tells each finished check once, and its failure; by
  counting, the last message comes after the last send.
- `PeriodicProofs`: types, `NoBlockedSend` and `CallsAreSpaced`. In a Periodic whose Starts
  found it quiet, the loop of the last Start is the only one that runs; its timer and the
  channel hold one token between them: a delay is queued only when the timer is
  spent, and a timer armed after the first call was armed with a queued delay.
- `DatabaseProofs`, of MySQLLock: types, `HolderOwnsLock` and `LockNotPooled`. A caller
  has a session of its own; that of a holder has been idle no longer than the timer of
  its goroutine has counted, and time does not pass over a due keep-alive, so it cannot
  expire (this is where KeepAliveInterval < WaitTimeout is used); an owned lock
  belongs to the session of a caller that has yet to release it.
- `DatabaseProofs`, of EnumDB: `ReadsWhatWasSet`, `LoadsAllOrNothing`, `BitsRoundTrip`.
  The two maps mirror each other up to the one pair that the writer is half through,
  and nobody reads while there is such a pair; of `New`, what each table loaded is what
  its query returned. What a reader sees is therefore a pair of maps that undo each
  other on the single bits, from which decoding undoes encoding, for any width.
- `InputProofs`, of Config: `StartsFromItsSources` and `OnlyFlagsPassUnvalidated`. At each
  step, the configuration is the layers read so far, laid over one another in order.
- `InputProofs`, of Filter: types; `ReadsWhatWasGiven` (the filter in place never writes on
  what it has yet to read), from "kept <= matched < read"; and `ReturnsReference`. Its
  invariant says that the rules before the position have answered what they mean for
  the object (the evaluator that a rule keeps is its own, and a cached path is that of
  the object's type), and that the objects before are counted and kept as the
  reference has it, by counting what matches one object at a time. `UniqueTypes` is a
  hypothesis of the theorem, since the code does not ensure it, and with it
  `FieldOfItsOwnType` holds too. `RuleTypesAgree` follows from lemmas about the
  evaluators, for numbers in any `Unit` and of any size, NaN and infinities included, and sequences of any
  length.
- `WebProofs`: `RecordsWhatWasSent`, `RequestsCounted`, `TraceFollowsRequest`,
  `IPTellsOutcome` and `AccessAfterLogin`. For each request, the proxy's record and what
  net/http sent agree at each point of its handler, with the two exceptions that the
  property names (a flush before the status, a ReadFrom with a tee); the number of active requests is
  what was counted in and not yet out; an ID is where the request came with it or made
  it; the body of the call to ipify is open, read or closed with the call; and a token
  ends no later than one signed at its user's last login would.
- `MessagingProofs`: `NothingIsLost` and `ReceivesInOrder`. A message is in the
  queue once, and a worker that is to delete one has processed or reported it. Of Kafka:
  what a consumer of a group of pkg/kafka has returned lies before the last commit; one
  of pkg/kafkacgo, from the first offset, has returned all that lies before its
  position and before every offset that it stores or commits.

Constants are assumed to be what the code makes them: among others `MaxBit` and `MaxEnd`
are naturals, and `ValuesAssumption` says what package reflect guarantees of a
value (a number holds one number or, if it is a float, may be NaN; a string is a
sequence of letters).

Only model-checked: liveness (`RunReturns`, `DoReturns`, `KeepsCalling`, `StopEndsLoop`,
`ReleaseEnds`, `EverythingStops`, `TakenIsAnswered`, `QueueDrains`), which is out of the
prover's reach, as is ENABLED. Every other property of a passing run is proved.

## 7. Not modelled

See the components of `PROJECT.json` that are `not_modelled`, each with its reason:
functions with no state, whose risk is in the arithmetic of one line (paging, decint, the
float64 rounding of which integers would not show); functions on a slice or map and a
lock of the caller (threadsafe), of which the repository has no caller; thin
wrappers whose state is in a library (s3, awsopt, slack, profiling); formatting and
checks of strings (validator, sqlutil, redact, errtrace); random or hashed identifiers
(uid, uidc, randkey, stringkey), of which a distribution is what matters.

Of the components that are partly modelled, the note of each says what is left out: the
parsing of addresses, flags, JSON and headers, the registration of metrics, and the
rebalancing of a Kafka group.
