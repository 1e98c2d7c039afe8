# FinFlow in TLA+

A verification project for FinFlow: an account service (Django REST framework)
and a processing service (FastAPI) that settle transactions over a Kafka topic
and an HMAC-signed callback. Paths below are relative to the repository root.

Contents: [the system](#the-system), [modules](#modules), [runs](#runs),
[proofs](#proofs), [findings](#findings), [what is not modelled](#what-is-not-modelled),
[plan](#plan).

## The system

### Components

| component | state | operations | must hold | hard because |
|---|---|---|---|---|
| Transaction endpoints (`account-service/apps/transactions`) | table `transactions`: status, account, kind, amount | POST creates PENDING and publishes `transaction.created`; PATCH (internal) settles and publishes `transaction.updated` | a status goes from PENDING to COMPLETED or FAILED once; answers and events tell the truth about the row | every request has a thread (runserver), Django runs in autocommit: read, check and save of two requests interleave |
| Kafka producer (`apps/core/kafka_producer.py`) | none; the two topics | `publish_event`: one producer per call, `retries=1`, all exceptions swallowed | a failed publish never fails the request | events are lost, or sent twice |
| HMAC check (`apps/core/hmac_middleware.py`, `processing-service/app/hmac_auth.py`) | set of used nonces, in memory | sign; verify timestamp, nonce, signature | a request is accepted once; a fresh intact one is not refused | lookup and recording are two steps; a restart forgets; two clocks |
| Processing service (`processing-service/app`) | the consumer's position, the group's committed offset, one asyncio task per event | read event and start task; run payment stub; PATCH; start-up, shutdown | every event is handed to a task; success is logged only for settled transactions | the offset is committed whatever becomes of the task; nothing is retried; the consumer can die unnoticed |
| Users and accounts (`apps/users`, `apps/accounts`) | tables `users`, `accounts` with `is_deleted` | register, open, PATCH, DELETE (soft) | only the owner writes; deleted rows are out of reach; one row per e-mail | a PATCH writes back every column it read; the manager hides rows the UNIQUE constraint sees |
| Documents (`apps/documents`, `apps/core/minio_client.py`, `apps/audit`) | table `documents`, the bucket, table `audit_logs` | upload, download, `Document.soft_delete` | rows have their bytes; what happened is audited | three stores, no transaction over them, every step can fail |
| JWT tokens (`config/settings.py`) | none | SimpleJWT | a deleted user's token opens nothing | tokens live for an hour |
| PII scrubbing (`apps/core/logging.py`, `AuditLog.log`) | none | `_scrub`, a log formatter, the audit factory | no e-mail or secret in logs and audit rows, nothing else lost | recursion over nested data; four places it does not look at |

### Interaction

    client --POST--> TransactionApi --transaction.created--> ProcessingService
                          ^   |                                    |
                          |   +--transaction.updated--> (nobody)   | payment stub
                          |                                        v
                          +--- HmacGuard <--- signed PATCH --------+

The two services share nothing but the topic and the PATCH. Users and accounts
meet the transactions in one place: a POST is refused for an account that is
deleted when it is validated. Documents share only the user table.

## Modules

| module | models | kind |
|---|---|---|
| `TransactionLifecycle` | what the system promises of a transaction | abstract specification |
| `TransactionApi` | `transactions/views.py`, `serializers.py`, `kafka_producer.py` | component |
| `TransactionApiProofs` | | theorems of `TransactionApi` |
| `ProcessingService` | `consumer.py`, `main.py`, `airflow_stub.py` | component |
| `ProcessingServiceProofs` | | theorems of `ProcessingService` |
| `PaymentFlow` | both services composed | composition, implements `TransactionLifecycle` |
| `PaymentFlowProofs` | | theorems of `PaymentFlow`, by way of those of its parts |
| `TransactionLifecycleProofs` | | what follows from it |
| `HmacGuard` | `hmac_middleware.py`, `sign_request` | component |
| `SignedUpdates` | the guard in front of the status update, one process | composition of `HmacGuard` and `TransactionApi` |
| `SignedUpdatesProofs` | | theorems of `HmacGuard` and `SignedUpdates` |
| `SoftDelete` | `apps/users`, `apps/accounts` | component |
| `SoftDeleteProofs` | | theorems of `SoftDelete` |
| `Documents` | `apps/documents`, `minio_client.py`, `AuditLog.log` | component |
| `DocumentsProofs` | | theorems of `Documents` |
| `PiiScrubbing` | `core/logging.py`, `AuditLog.log` | recursive functions and their two callers |
| `PiiScrubbingProofs` | | theorems of `PiiScrubbing` |
| `MC*` | | TLC instances: constants and symmetry |

**TransactionLifecycle.** Per transaction a status, the number of times its event was
handed to a payment run (`deliveries`), the updates that have read it as PENDING and not
written yet (`writers`), and what was announced. `Begin` needs PENDING and a delivery to
go with it; `Settle` writes whatever the status is by then, since the code holds no lock.
So the specification promises exactly what the code can keep: only updates that overlapped
change a settled status, and with one delivery there is nothing to overlap with
(`OnceIsFinal`, `OnceIsAnnounced`, both proved from it).

**TransactionApi.** One `post[t]` per creation, one `handler[r]` per status
update; the `pc` of each names the statement it is about to run. The view's
`update` is `Receive` (the request arrives), `Verify` (on, 401, or the 500 of a check that
raises: `compare_digest` does on a signature that is not ASCII), `LoadRefused` /
`LoadPending` (the read of the row and every judgement that depends on that one
read: 404, the serializer's 400, the `KeyError` of a PATCH without a status, the
400 of a terminal row), `Save` (which writes whatever the row holds by now),
`PublishUpdated`, `RepublishUpdated`, `FinishUpdated`; `HandlerError` is the
database failing at one of its three uses: the read, the save, and the answer, which
reads the account once more (`views.py:115`, `serializers.py:12`). After the last of these
the row is settled and its event may be out, and the caller is told 500. `publish_event` never raises and its result is ignored, so
`FinishCreated` and `FinishUpdated` may come before the event is out: that is the
failed publish. `ApiCrash` ends every request under way. `body` remembers what the
client asked for; `balance` is there because the documents speak of it, and no
action changes it because no code does. `DeleteAccount` and `RestoreAccount` are
the accounts endpoint as far as transactions can see it; `SoftDelete` has it in full.
`Saved` and `MaybeSaved` say what an answer tells of the save: 200 that it was done, 500
and none at all nothing, 400, 401 and 404 that there was none.

**ProcessingService.** `consumer` is the asyncio task of `start_consumer` together
with its process: `starting`, `running`, `dead` (ended by an exception while the
process lives on and `/health` answers ok), `stopped` (after `shutdown_event`),
`down`. `position` is how far the loop has read; `committed` what the group would
resume from; `AutoCommit` moves it to `position` because aiokafka commits what was
read, not what was done. `task[d]` is the `d`-th call of `process_transaction`.

**PaymentFlow.** Instantiates the two with `created` shared and the requests of the
API being the deliveries of the consumer: `SendPatch` is `Send` and `Receive` in one
step, `AnswerPatch` hands the code back while the task still waits. A task that gave
up (`NoAnswer`, the ten seconds of httpx) leaves the handler running. The refinement
mapping to `TransactionLifecycle` takes the tasks of a transaction for its deliveries,
the requests at `save` for its writers and the topic `transaction.updated` for what was
announced; crashes, lost answers and resets are stutters or `GiveUp`.

**HmacGuard.** A message stands for its nonce; a copy is one arrival of it, intact
or damaged. `CheckTimestamp`, `CheckNonce`, `CheckSignature` are separate steps since
verifications run in threads. The digest is abstracted to `intact`: it compares equal
exactly when method, path, body and secret are those signed.

**SignedUpdates.** One process of the account service: a copy is a request of
`TransactionApi` and a verification of `HmacGuard` at the same time. `ArriveUpdate` is the
arrival in both, `VerifyUpdate` a step of `verify_hmac_request` whose verdict decides
between `load` and a refusal, `RestartService` the restart of both: the nonces go, the rows
stay. A damaged copy may ask for anything in `Forgeries`. In `TransactionApi` alone `Verify`
is a free choice, in `PaymentFlow` too; this module shows what that choice stands for.

**PiiScrubbing.** Values are tagged records, strings sequences of words and addresses.
`Nested[n]` is a set of values that nest `n` deep: what a dict or a list of it holds is in
`Nested[n-1]`, and nothing else is asked of it, so it may be all such values over any keys.
`MaxNesting` is how deep Python lets `_scrub` call itself. `ScrubCall` is one call of `_scrub`
branch by branch, given what its own calls return; `Scrub` closes the recursion. The
reference (`Leaves`, `Expected`) knows only leaves and the keys on the path to them.
`AddressKeys` are the keys that hold an address: `_scrub` copies keys as they are, so these
get through, and `NothingElseLeaks` says that they do and that no other key turns into one.
`Payload` is the line as `format` builds it, the attributes over the four fixed fields and
the traceback last; `Log` is either column of `AuditLog.log`.

**SoftDelete.** `handler[r]` is a thread that takes up request after request, so
sequences of any length are covered by finitely many states. `seen` is the copy of
the row a request holds; `SaveChange` writes it back whole (DRF's `update` ends in
`instance.save()`), `SaveDelete` writes the deletion columns only.

**Documents.** One upload per document, downloads and removals as actors, and the
three stores `object`, `row`, `audit`. `PutFails` and `RemoveObject` choose
whether the store did what it reported as failed. `TypeOK` includes who a document
belongs to, so that whoever is served it is its owner.

Definitions prefixed `Mutant:` in a comment are plausible bugs; no specification uses
them. `PROJECT.json` pairs each with the property that catches it.

## Runs

All states of each instance are explored. Passing runs:

| run | properties | instance | what it shows |
|---|---|---|---|
| `ApiRaces` | `TypeOK EventHasRow StatusHasWriter UpdatedHasWriter AnswerMeansSettled SoleWriterStands NeverReopened LateReaderRefused ClosedAccountTakesNone` | 1 transaction, 3 updates, resends, 1 crash | what holds of row, events and answers although the row is not locked |
| `ProcessingEvents` | `TypeOK NoEventSkipped RedeliveryNeedsReset EventsDelivered` | 2 events, 4 deliveries, 1 reset, fairness | no event is passed over, none repeated without a reset, all handed out while the consumer lives |
| `FlowRedelivery` | `TypeOK PatchFindsRow OkMeansSettled SettledByPaymentRun ImplementsLifecycle` | 1 transaction, 2 deliveries, resend, crash, reset | the services understand each other through duplicates and crashes and implement `TransactionLifecycle`: a second change of a status needs a second delivery that overlapped |
| `FlowProgress` | `SettledOrExcused TasksEnd EveryRequestAnswered` | 1 transaction, every failure but a lost acknowledgement, fairness | what it takes for a transaction to stay PENDING; that nobody waits forever |
| `SignedReplays` | `TypeOK AcceptedWindow FreshRefusalMeansAccepted SettledAsSigned LateDuplicateRefused ReplayChangesNothing` | 2 messages that disagree about 1 transaction, 2 copies, tolerance 1, skew -2..3, 5 ticks, 1 restart | what the guard guarantees about duplicates, and that those it lets through change no settled row |
| `RowsRaces` | `TypeOK EmailsUnique DeletionSticks DeletedUserIsQuiet OnlyOwnersWrite` | 2 users, 1 account, 2 e-mails, 2 handlers | what soft deletion guarantees under races |
| `DocumentsStores` | `TypeOK RowHasObject OrphanHasFailedUpload AnswersAreAudited DeletedIsDoneWith` | 2 documents, 2 users, 2 downloads, 2 removals | the three stores agree as far as the order of the steps makes them; a deleted document is out of reach for good |
| `PiiCalls` | `TypeOK ScrubMeetsReference NothingElseLeaks` | values three deep, 3 keys, one an address | `_scrub` does to each leaf what its path says; the four places where something gets through |

Violation runs are listed under [findings](#findings).

**Bounds.** The races are on one row, and two requests make each of them; the third
update of `ApiRaces` is there so that `SoleWriterStands` meets a writer, a late reader
and a refused request at once. `MaxDeliveries` is 2 in the flow because every
property of it speaks of one delivery or of a pair, 4 in `ProcessingEvents` so that
two events can each be read twice. `Deletable`, the accounts that are deleted now and
then, is the one account of `ApiRaces`, whose `ClosedAccountTakesNone` is about them, and
empty in the flow and the signed runs, where no property sees an account.
`FlowProgress` leaves out the lost acknowledgement, a second copy of the event and so one
more run, for its size; `FlowRedelivery` has it. One crash and one reset put a failure between any
two steps; a second repeats the situation of the first. Tolerance 1 with skews from
-2 to 3 and five ticks crosses both ends of the window; every property of the guard speaks
of at most two copies (its theorems hold of any number), and two are enough for a replay
of one message or a race of two. A dict in a list in a dict is the deepest nesting at which
`_scrub` has called itself from each of its branches. `Names`, `Emails`, `Amounts`
have two members: one to have, one to differ. Two removals of one document overlap in
`DocumentsStores`, two downloads make the count of their audit rows matter. `SoftDelete` has no counter, `Crash`
included. Symmetry is used in safety runs only, over transactions, requests,
copies, documents and users, which no action compares by order; deliveries are numbered
and not symmetric.

**Deadlock** is checked where the system never stops (`SoftDelete`, `Documents`);
elsewhere every request of a bounded instance ends, so `CHECK_DEADLOCK FALSE`.

**Fairness.** Weak fairness of each thread's steps (the operating system runs
threads), of each asyncio task's steps and of the consumer's own (the loop runs what
is ready; every `await` has a timeout or an outcome). Not fair: any arrival of a
request, any failure, crash, rebalance or shutdown, and `Restart`, because
`docker-compose.yml` has no restart policy. `NoAnswer` needs no fairness of its own:
the task's steps are fair together, and httpx's timeout makes it always possible.

## Proofs

TLAPS proves, for every value of the constants that satisfies the assumptions:

*`TransactionApiProofs`* (assumption `ApiAssumption`): `TypeCorrect`, `EventsHaveRows`,
`NeverReopens`, `AnswersTellTheTruth`, `LateReadersAreRefused`, `StatusesHaveWriters`,
`AnnouncementsHaveWriters`, `ClosedAccountsTakeNone`, `SoleWritersStand`. The argument goes in layers.
`TypeInv` strengthens `TypeOK` by `RequestOK`: a request past its arrival has a
transaction, and one past the load a terminal new status, without which `Save`
would not keep the type. On it rests `StatusOnlyAdvances`: no step takes a terminal
status out of `Terminal`, which gives `NeverReopens` and carries
`AnswerMeansSettled` (stated over `SaysSettled`, since a request that has saved will
be answered 200 or 500). `RowInv` relates the pc of a POST to its row and gives
`EventHasRow`. Writers: a request that may have saved stays one (`WriterStays`), also
one answered 500 after its save or caught by a crash, so every status and every event
keeps the one that wrote it. `SoleWriterStands` then
follows with no induction of its own.

*`SignedUpdatesProofs`*, the guard (assumption `GuardAssumption`): `TypeCorrect`, `WindowIsBounded`,
`FreshCopiesPass`, `LateDuplicatesAreRefused`. `Timed` says that a copy past the
timestamp check was checked within the tolerance of its signing, from which the
window of twice the tolerance is arithmetic. `NonceInv` says that the set holds the
nonces this process accepted (`Remembered`) and no others (`NotBurnt`).

*`SignedUpdatesProofs`*, guard and view (also `MessageAssumption`): `GuardIsKept`, `EndpointsAreKept`,
`SettlementsAreSigned`, `ReplaysChangeNothing`, `AnswersAreSigned`. Every step of the composition is a step of the guard or leaves its
variables alone, so the guard's theorems hold of it (`GuardIsKept`), its types among them.
`UpdatesInv` says that a request past the check is an accepted copy and asks for what was
signed; a row is then written only by such a request. Two copies that write different
statuses must be of different messages, which is `ReplaysChangeNothing`. Every step is a step
of `TransactionApi` too (`EndpointsAreKept`), so the inductive invariants of its proofs hold
behind the guard (`EndpointInv`; the module starts with the rows in place, which they
allow). Together: a 200 goes to an accepted, intact copy whose transaction is settled, and
every event on `transaction.updated` says what an accepted message asks (`AnswersAreSigned`).

*`PaymentFlowProofs`* (`FlowAssumption`: both services' assumptions, and finitely many
transactions), in three parts.

- *The services.* `FlowImplementsApi`, `FlowImplementsProcessing`: a step of the flow is a
  step of `TransactionApi` and one of `ProcessingService`, or leaves the variables of one of
  them alone. So `TransactionApiProofs` and `ProcessingServiceProofs`, instantiated as
  `ApiFacts` and `ProcFacts`, hold of the flow, and it inherits their invariants
  (`ServicesInv`) and theorems. Each service stands for the environment of the other, and
  two facts make that sound. `ProcessingService` reckons with at most `MaxEvents` events:
  `TopicIsBounded` shows that the account service publishes none beyond (once per
  transaction, twice where an acknowledgement may be lost). `TransactionApi` takes a
  PATCH from anyone about any transaction: the one that arrives is about an event's.
- *The PATCH.* `PatchInv` links a task to its request: once it is sent they agree on
  transaction and outcome, a task that reports success was answered 200, and no request
  was answered 404. The last is inductive because a task works on a published
  event (`TasksFollowEvents`) and every event has its row (`EventsHaveRows`). From it and the
  services' theorems: `TypeCorrect`, `PatchesFindRows`, `SuccessMeansSettled`,
  `PaymentRunsSettle`.
- *The refinement.* `FlowImplementsLifecycle`, one lemma per abstract step: `CreateStep`
  (`Insert`), `DeliverStep` (`Fetch`), `BeginStep` (`LoadPending`), `SettleStep` (`Save`),
  `AnnounceStep` (either publication); `QuietStep` maps everything else, a crash that takes
  writers with it included, to `GiveUp`. `Begin` needs fewer writers than deliveries: the
  request that reads the row is a run and not yet a writer. `Announce` needs a second run
  when it announces a status that was overwritten: the run that wrote the row is another
  one (`StatusesHaveWriters`, `TwoMembers`).

What follows: `OneRunSettlesForGood` is what `TransactionLifecycleProofs` proves, said of the
code's rows and topic. `UndisturbedSettlesForGood` adds `RedeliveriesNeedResets`: while the
consumer has not been reset, one event means one run, and its transaction stays as settled.
`FinalWithoutRedelivery` puts it in terms of the environment: `TerminalIsFinal`, which
`FlowTerminalIsFinal` refutes, does hold when no acknowledgement is lost and the consumer
is never rebalanced, shut down or killed, even if the account service crashes, answers
too late or is reached by requests in any order. So resends and redeliveries are all that
can break the documented promise in the flow as the two services run it.

*`TransactionLifecycleProofs`* (no assumption): `OnceFinal`, `OnceAnnounced`. The writers of a
transaction are at most its deliveries, and fewer once it is settled: the delivery that
settled it is used up.

*`ProcessingServiceProofs`* (`ProcessingAssumption`): `TypeCorrect`, `EventsAreNotSkipped`,
`RedeliveriesNeedResets`. `TypeInv` adds to the type that an unused task has no event and
one past its payment run an outcome. `StepKinds` reduces every step to two cases: `Fetch` gives a free
task the next event, every other step leaves the tasks' events alone. `NoEventSkipped`
is then inductive as it stands. `RedeliveryNeedsReset` is not: a consumer that is
running may still deliver everything ahead of its position once more, so
`CountsFollowResets` counts those events at most `resets` times, and all events so while
no consumer runs after a reset.

*`SoftDeleteProofs`* (`RowsAssumption`): `TypeCorrect`, `EmailsStayUnique`, `DeletionsStick`,
`DeletedUsersAreQuiet`, `OwnersWrite`. Every step is one move of one request
(`NextMoves`): it arrives, is admitted, reads a live row, writes and ends, or just ends.
`RequestOK` says what a request has at hand at each point and `RowFound` that the row a
writer read still exists, without which `SaveChange` could create one. The three action
properties follow from who can change a row (`RowHasWriter`) and who can newly hold a
row or act for a user (`NewHolds`, `NewActsFor`: only while it is live).

*`DocumentsProofs`* (`DocumentsAssumption`): `TypeCorrect`, `RowsHaveObjects`,
`OrphansHaveFailedUploads`, `AnswersGetAudited`, `DeletedAreDoneWith`. `Inv` ties
the point each upload and removal has reached to what is in the three stores
(`UploadOK`, `StoresOK`, `RemovalOK`); one frame lemma per kind of request says what
the others may rely on. The count of served downloads needs an induction of its own
(`DownloadsLogged`). `DeletedIsDoneWith` goes by who could still touch a deleted
document: an upload at its audit, a download past its lookup, a removal; with the first
two over, the third can only log and remove (`DoneWithRemoval`).

*`PiiScrubbingProofs`* (`PiiAssumption`): `TypeCorrect`, `ScrubMeetsItsReference`,
`NothingElseGetsThrough`, for every nesting depth, any keys and any set of sensitive ones.

- *The recursion.* `Scrub` and `Leaves` are recursive functions, that is, a `CHOOSE` each.
  `ScrubDef` and `LeavesDef` prove that they satisfy their equations: a function that does
  up to depth `n` gives one that does up to `n+1`, by one more call.
- *The induction.* The library's theorems about induction and recursion take a predicate or
  an operator as a parameter, which the installed provers cannot instantiate.
  `NestingInduction` says the same of a *set* of depths, which they can, and follows from
  the minimal element of a well-founded order (`WFMin`).
- *What `_scrub` computes.* `ScrubIsExpected`: the leaves of what it returns are the leaves
  of what it was given, each as `Expected` says. The step from one depth to the next is
  `ExpectedOfBelow`: below a sensitive key all leaves become one, below any other key or in
  a list each becomes what it would on its own, because the first sensitive step of a
  longer path is one further down (`ExpectedBelow`).
- *Its callers.* `WrittenInv` says that what was written is what the call makes of what it
  was given, `PayloadFields` where each field of a line comes from. With the leaves of
  scrubbed values (`ScrubbedLeaves`) that gives what gets through: of a snapshot
  (`SnapshotIsClean`), of an attribute (`AttributeIsClean`), of the four fixed fields
  (`FrameIsClean`). A sensitive key or an address on a path is its first step or
  lies on the path below it (`StepsBelow`).

Assumed of the constants: the sets of ids are disjoint from `Nil` and from each other
where the tables are, the bounds are naturals, `Downloads` is finite (its size is counted),
values nest as described above, lower-casing a key gives a key and the formatter's own
fields are no addresses.

Every invariant and action property of the passing runs, `ImplementsLifecycle` included,
is the statement of a theorem. Only model-checked:

- All liveness (`EventsDelivered`, `SettledOrExcused`, `TasksEnd`, `EveryRequestAnswered`):
  it rests on fairness and `ENABLED`. The refinements are proved of `Spec`, not of the
  fairness conditions.

## Findings

| run | the code | the text |
|---|---|---|
| `ApiCompletionMovesBalance` | nothing changes a balance | `README.md:27`, `:45` |
| `FlowTerminalIsFinal` | two overlapping updates both save; the second overwrites a terminal status | `docs/API_CONTRACTS.md:169`, `README.md:45` |
| `GuardAtMostOneAcceptance` | two overlapping verifications of one request both succeed | `hmac_middleware.py:8`, `docs/ARCHITECTURE.md:81` |
| `RowsDeletedStaysDeleted` | a PATCH that read its row before a DELETE undoes the DELETE | `accounts/serializers.py:42` |

Each of these runs stops at a counterexample, checks that one property and has
no other purpose. Further disagreements met while modelling have no run of their own:

- A debit on an empty account completes, against `README.md:27` (the first finding's cause).
- A transaction can stay PENDING for ever, against `transactions/models.py:5`: the
  disjuncts of `SettledOrExcused` are the ways.
- An e-mail that is taken by a deleted user, or in a race, is answered 500 and not 400
  (`tests/test_users.py:103`): `UserManager` (`users/models.py:67`) hides the row from the
  serializer's check but not from the constraint. The model has it as `InsertDuplicate`.
- A document whose audit row failed stays (`documents/views.py:79`, against
  `docs/ARCHITECTURE.md:99`): `UploadError` after `CreateRow`.
- A failed removal of the bytes is ignored (`documents/models.py:52`, against `:46`):
  `RemoveObject`.
- Only documents write audit rows, though `docs/ARCHITECTURE.md:99` says all state changes do.
- A record's attribute named like a secret, the traceback, tuples and other objects, and
  addresses in the keys of a dict are logged as they are, against `core/logging.py:4`
  (`_scrub` at line 59 sees the attribute's value without its name; line 61 does not call
  it; line 27 copies keys). `NothingElseLeaks` lists them: these four and nothing else.
- The table of `README.md:79` offers `DB_ENGINE` `postgres` and `docker-compose.yml:4` starts
  PostgreSQL, but `config/settings.py:60` is SQLite whatever `DB_ENGINE` says.
- The scrubbing formatter of `config/settings.py:125` is used by no handler, though
  `docs/ARCHITECTURE.md:96` says all logs are scrubbed.

## What is not modelled

- Reading endpoints (lists, single rows), `/health`: they change nothing.
- Issue, expiry and refresh of JWTs: SimpleJWT's; an expired token is one of the
  causes of `AuthRefused`.
- `hmac_auth.verify_request`, `create_superuser`: called by nothing in the services.
- The processing of `transaction.updated`: nobody consumes it.
- The `continue` of `consumer.py:90` for an event without a `transaction_id`: `publish_event`
  is always given one, so no such event is on the topic.
- Keys of dicts that are not strings: `_scrub` raises on them (`k.lower()`), nothing is written.
- The time at which a broker appends: an event is on the topic, or never, by the time
  `publish_event` returns. An append after that differs in nothing a property sees, since
  nothing is ordered after the answer.
- Values nested deeper than Python's limit to recursion: `_scrub` raises, nothing is written.
- The creation of the bucket, step by step: a race for it ends in an exception that is
  ignored, and `put_object` decides. The model has that outcome only (`Put`, `PutFails`).
- Settings, routes, migrations, deployment: declarative.
- The fields of a row beyond those a property tells apart; amounts beyond "valid or
  not"; contents of files.

## Plan

In order of importance to the system:

1. `TransactionApi`, `ProcessingService`, `PaymentFlow`, `TransactionLifecycle`: done,
   checked and proved, the refinement included.
2. `HmacGuard`, `SignedUpdates`, `SoftDelete`, `Documents`: done, checked and proved.
3. `PiiScrubbing`: done, checked and proved.

Considered and left out: an abstract specification of soft deletion (a row is absent, live,
deleted). What it would promise, that a deleted row stays deleted unless a change that read
it before overlapped, is `DeletionSticks`, proved of `SoftDelete` itself.
