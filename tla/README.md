# A TLA+ verification of MikroTik Harness

MikroTik Harness lets an operator and a language model inspect and change a
RouterOS device.  The risky part of it is not the parsing of commands, it is
time: SSH answers in pieces or not at all, asyncio workers are cancelled at any
`await`, a question on the screen is replaced by another, and the router goes on
when nobody listens any more.  These modules describe that part of the code, in
`src/src/mth`, and check what the operator relies on.

## The system

| Component | State it keeps | Operations | What makes it correct |
| --- | --- | --- | --- |
| SSH session (`core/high_risk/ssh.py`) | transport alive, belief in Safe Mode, text read ahead, a lock | enter Safe Mode, execute, recount, commit, abort, restore | a reply belongs to its command; belief, router and report agree on Safe Mode; nothing is kept unasked; no exit of a call keeps the lock |
| Pre-flight (`core/high_risk/service.py`) | files on router and disk, password vault, pinned host key | `enter`, clean-up after failure or cancellation, trust | HIGH RISK opens only with a complete recovery point; a backup always has its password; failures leave nothing |
| Console (`ui/textual/chat.py`) | mode, inline panel with callbacks, elevated session, pending plan and rollback, three exclusive worker groups | keys, commands, worker steps | screen and agent agree on the session; only what was approved is applied; no live session is forgotten; the input comes back |
| Agent loop (`agent/loop.py`) | executor, remembered turns | `run` in rounds of model answer and tool calls, `report_change`, `name_session` | change tools only in HIGH RISK; a lost channel stops the run; a run does not go round without end |
| Tool catalog (`agent/tool_catalog.py`) | none | the tools of each mode | PLAN and READY get nothing that writes |
| Providers (`agent/providers.py`) | a thread feeding a queue | `complete`, `stream` | a broken stream ends the run |
| Runbooks (`core/runbooks/base.py`, `history.py`) | plan with baseline, journal list, history file | plan, apply, verify, preview and do a rollback | what was applied can be found and undone; the history loses nothing |
| Runbook definitions (`catalog.py`, `extended.py`, `typed.py`) | none | fields, steps, baseline, `verify_apply`, `verify_rollback` | what was left undone, or undone too far, is noticed; a clean run passes |
| Registration (`core/registration`, form in `ui/textual/app.py`) | `routers.yaml`, `identities.yaml`, `ssh-hosts.yaml`, `.env`, vault and its key | prepare, register and verify, restore, trust | only confirmed certificates; a failure restores what was there; no login is lost |
| Vault and presets (`agent/secret_store.py`, `presets.py`) | encrypted file, key file, preset file | set, get, delete, activate | a registered router has its login, a preset its key |
| Chat sessions (`ui/textual/sessions.py`) | `sessions.json` | create, append a turn or a response, list, delete, resume | turns are saved in their own session and stay there; the model is told of them |
| MikroMCP client (`core/mcp_client`) | none between calls | one process per call or session | an abandoned call has no owner |
| Discovery, packs | devices seen; index | merge, build | no data lost |

They meet in few places.  The screen starts a worker per request; a worker of the
group `high-risk` calls the pre-flight, which opens the SSH session; the screen hands
it to the agent (`set_high_risk_executor`), so that the `agent` worker and the
`high-risk` worker share it under its lock; a `runbook` worker drives the executor and
writes the history, then asks the agent for a report and, in READY, to go on.  Starting
a worker in a group cancels the one that runs there; the workers of the connection
form are threads, which go on.  What the agent answers is saved in the session the
screen has by then.

What is hard in this code: cancellation at any await (all of it), text cut into chunks
and answers that come late (SSH), callbacks that outlive the panel they belong to,
values read before an await and used after it (mode, session, pending plan), finally
blocks that run late, awaits without a deadline, an answer that never comes after the
router was changed, a kill between two files, and a check after a change that looks at
less than the change did.  `PROJECT.json` lists each hazard at its line.

## Modules

| Module | Models | State ↔ code |
| --- | --- | --- |
| `SshSession` | `RouterOsSshSession`, its two callers, and the router's end of the PTY | `alive`, `safe`, `pending` are the attributes `_alive`, `_safe_mode_active`, `_pending`; `held` is `_lock`; `at` is the await of the call that holds it (a read, SFTP, or `wait_closed`), `want`, `buf`, `raw` its locals; `rin`, `out`, `rsafe`, `change` are RouterOS |
| `SafeModeContract` | what the session promises, without terminal or timing | `protected`, `ledger`, `asked`, `told` |
| `HighRiskEntry` | `HighRiskService.enter`, its clean-up, `_enter_high_risk` and the trust question | `at[a]` is the await entry `a` is suspended at, those of its leaving included (`leaving`, `unsure`); `vault`, `local`, `remote` are its artifacts; `making` what MikroMCP still works on |
| `Console` | `ChatScreen` and what an agent run does to it | `mode`, `session`, `shown`, `approvalCb`, `choiceCb`, `pending`, `executor` are the attributes; `hr`, `job`, `agent` the workers, `unwinding` the finally blocks of cancelled ones |
| `ReadyChange` | `RunbookExecutor`, `RunbookHistoryStore` and the runbook workers | `at` is the await of the worker, `seen` what the check of a rollback read; `pending`, `undo` the plans on the panel; `baseline`, `history` as in the code; `servers`, `journal`, `setting` are MikroMCP and the router |
| `RunbookDefinitions` | the catalog as a table: which objects and fields each scenario writes, captures and compares; form, proposal, verdicts | `baseline` and `journal` as in the code; `live` is the router; `form`, `ticked` what only a person may fill in; `respelled` the values typed in another spelling; `skipped`, `kept`, `careless` what MikroMCP left undone |
| `Registration` | `RegistrationService`, `MikroMcpConfigStore`, the vault and the connection form | `disk` and `sshHosts` are the files; `at[a]` the step the thread of attempt `a` is at, `seen`, `known`, `snap`, `routers`, `env`, `moving` its locals; `asking`, `busy` are `_pending_fingerprint` and the button |
| `Conversation` | `ChatSessionStore`, the handlers of the screen that save, resume, reset and delete, and what the agent remembers | `store` is `sessions.json`, the turns of each session; `session`, `picker`, `turns` are `_session`, `_session_picker_sessions`, `_turns`; `agent`, `job` the workers, `chatOf`, `changeOf` which conversation a thing belongs to |
| `AgentLoop` | `ReadOnlyAgentLoop.run`, `ToolCatalogRouter`, `OpenAICompatibleClient` | `at` is the await of the run, `calls` what is left of the reply; `thread`, `queue`, `heard` the stream; `executor`, `channel` the SSH session |
| `MC...` | the instances TLC checks | |
| `SshSessionProofs`, `ConsoleProofs`, `HighRiskEntryProofs`, `ReadyChangeProofs`, `RegistrationProofs`, `ConversationProofs`, `AgentLoopProofs`, `RunbookDefinitionsProofs` | theorems | |

One action stands for the code between two awaits.  A handler that awaits `n` times is
`n + 1` actions, and a variable names the await it is suspended at; its local
variables live as long as it does.  Cancelling a worker is an action of its own, which
releases the lock and runs the handler or the finally block the code has there.

Composition.  `Console` sees an SSH session as `SshSession` and the contract describe
it: in Safe Mode, released, cut, dead, kept or undone.  `ReadyChange` opens up what a
runbook job of `Console` does, and `RunbookDefinitions` what `ReadyChange` calls a
setting, a baseline and a post-check; `HighRiskEntry` opens up its `entering` worker.
`AgentLoop` opens up the agent run of `Console`, `Conversation` what such a run and a
runbook job leave behind in the history.

### Abstractions

- Terminal text is a sequence of tokens; a prompt is two, because the text
  `[admin@router] ` and its tail `<SAFE> > ` may arrive in different chunks and the
  code then sees a bare prompt.  Escape sequences and echoes are not modelled.
- Commands are numbered; "output of command c" is one token.  Truncation is left out, and
  so is the number of Safe Mode actions: a recount says whether it could be read.
- `drain` is no await of its own: asyncssh pauses a writer only when its buffer is full, and
  the harness writes single lines.
- A plan writes one setting, always the same: the hardest case for a rollback.  A
  journal is the value it overwrote.
- A file operation is atomic (`os.replace` after `fsync`), or it fails and leaves what
  was there.
- A field of a router's object is as found, as planned, as RouterOS fills it in, or as
  somebody else left it; an object is missing or a record of fields.  `Found` starts a
  plan on nothing, on something else, on the same object, and on one that differs in
  one field.  A value of the form means the same to RouterOS in any spelling; that RouterOS
  reports it in one of its own, while the post-check compares what was typed, is
  `respelled`.
- `Console` does not say which model is chosen, only whether its agent has the session.
- A router of `Registration` is an ID; the same ID may come with another address, so the
  certificate known for a host may be another's or none (`Lookup`).
- A ciphertext names whose value it holds and which key reads it.  A `set` of the vault,
  which reads and replaces one file, is one step, and so are the snapshot and each file
  of a restore.
- A live tool is a kind of name, whether it takes a `routerId`, and its annotations; the
  model may call any, offered or not.  Results carry nothing.
- A turn is the number of its prompt; `chatOf` says in which conversation it was typed.
- The disk does not fail while `HighRiskEntry` deletes files: `suppress(OSError)` would
  leave a file whose password is deleted next.

## Runs

`pass`: TLC explores every reachable state.  `violation`: what a document, a comment
or a test says is not what the code does; the counterexample is the scenario.

| Run | Bounds | Shows |
| --- | --- | --- |
| `SshSafeMode` | 2 calls, 2 decisions, agent cancelled anywhere | `CommitIsKept`, `NoUnprotectedCommand`, `BeliefMatchesRouter`, refinement of `SafeModeContract` |
| `SshProgress` | 2 calls, 1 decision, operator's worker cancelled anywhere, fair | `OwnOutputOnly`, `KeptOnlyByCommit`, `CallsReturn`, `SafeModeSettles` |
| `EntrySafety` | 2 entries, every fault, double cancellation, kill, fair | `UnlockedIsProtected`, `BackupHasPassword`, `OnlyConfirmedHost`, `FailedEntryForgets`, `EntryEnds`, `SafeModeComesFree` |
| `ConsolePlans` | 2 plans, 1 session | `AppliedOnlyIfApproved` |
| `ConsoleSessions` | 1 plan, 2 sessions, fair | `ExecutorMatchesSession`, `LeavesClosed`, `InputComesBack` |
| `ConsoleStaleChoice` | 1 plan, 1 session | violates `AnswersOwnQuestion` |
| `ReadyLedger` | 3 plans of 2 steps, 2 rollbacks, with and without faults | `Accounted`, `UndoRestores`, `HistoryKeeps` |
| `RunbookDefinitions` | every scenario, 1 drift, forms of up to 10 ports | `SkippedWasThere`, `RollbackSeesDrift`, `CleanRunSucceeds`, `HumanConfirms` |
| `Registration` | 2 routers, 2 attempts; sound, or killed and a failing disk, or overlapping | `PinConfirmed`, `CredentialsKept`, `FailureRestores`, `RegisteredIsComplete`, `ConnectComesBack` |
| `RegisterForgetsPin` | 1 router, 2 attempts, no fault | violates `PinnedForBoth` |
| `Conversation` | 3 prompts and 2 changes, 4 together; 2 chats; failing disk | `ConversationsApart`, `NothingForgotten`, `ModelKnowsTheChat`, `SavedTurnsKept` |
| `AgentLoop` | 1 round, 2 in HIGH RISK; 2 lines of a reply with a call or malformed, any number of text; fair | `ChangesGuarded`, `RunEnds` |

The type invariants of `SshSession`, `HighRiskEntry`, `Console` and `Registration` are
checked with these (`TypeOK`).

Some properties hold under a condition that the code does not meet by itself.  A reply
belongs to its command (`OwnOutputOnly`) while no agent call is cancelled, and belief
and router agree (`BeliefMatchesRouter`) while no decision of the operator is: the runs
set `CancelAgent` and `CancelOp` so.  In `ReadyChange` the variable `faulty` says what
may go wrong in a behaviour, lost answers and a failing disk, or cancelled workers and
restarts; it never changes.  `Accounted` and `UndoRestores` speak of the behaviours
where nothing does.  `HistoryKeeps` speaks of all: a record is marked only by a rollback
of its plan whose check read the baseline.  That the router still has it when the mark
is written is said for `faulty = {}` only, because the check, the end of its session and
the write are three steps, and an abandoned process may write in between.  `faults` does
the same in `Registration`: `CredentialsKept`, `FailureRestores` and
`RegisteredIsComplete` hold for one attempt at a time, `PinConfirmed` in any case.
`Conversation` sets `crossed` when a chat is begun or resumed under a request.  In
`RunbookDefinitions` MikroMCP may be `careless`, that is report a step it did not do:
`SkippedWasThere` holds with it, `RollbackSeesDrift` and `CleanRunSucceeds` without. The
liveness properties of what uses the SSH session or a model say what is left where an
await has no deadline: the call returns or that await lasts for ever (`CallsReturn`,
`EntryEnds`, `InputComesBack`, `RunEnds`).

`RegisterForgetsPin` violates its property like this: the operator registers a router,
confirms its SSH key in HIGH RISK, which `trust_ssh_host` writes to `routers.yaml` for
MikroMCP and to `ssh-hosts.yaml`, and connects again.  `persist` makes the entry anew
without `sshPort` and `sshFingerprint`; the key is in `ssh-hosts.yaml`, so nobody asks
for it again.

### Known disagreements without a run

The models also have these behaviours; their properties are stated so that they hold
beside them, and `PROJECT.json` has a note at each hazard.

- A cancelled `execute` leaves its output in the stream, and the next command returns it
  as its own, although `docs/high-risk-mode.md:66-68` says every command is framed
  (`ssh.py:180`; `OwnOutputOnly` fails in `SshProgress` with `CancelAgent = TRUE`).
- A commit cancelled after Ctrl+X leaves a live session that believes in a Safe Mode the
  router has released; commands then run unprotected (`ssh.py:207`;
  `BeliefMatchesRouter` fails in `SshSafeMode` with `CancelOp = TRUE`).
- An agent run keeps the mode it began in and writes through MikroMCP after the operator
  has left HIGH RISK (`chat.py:2200`); the refresh takes a missing executor for no loss.
- A plan or preview begun while an apply verifies cancels its worker before the outcome
  is recorded (`chat.py:1913`), and an apply whose answer is lost is not recorded at all
  (`chat.py:1942`): the journals are out of reach of `/rollback`.
- A timeout that cannot be resynchronised closes the session and its result still says
  `safe_mode_active` (`ssh.py:287`); `BeliefMatchesRouter` speaks of live sessions.
- The clean-up of an entry is not shielded after a failure, and a second cancellation
  escapes from a shielded abort before the artifacts' turn (`service.py:203`): password
  and files stay.  This is the state `torn`.
- A backup that MikroMCP finishes after the entry was cancelled stays on the router
  (`service.py:197`, action `ServerMakes`).
- When a run ends by an exception, or `execute` returns `ok` though the recount closed
  the session, the screen stays in HIGH RISK on a dead session until the next command
  (`chat.py:2215`, `ssh.py:192`).
- `_invalidate_high_risk_session` drops the session of the moment, which may be newer
  than the one that was lost (`chat.py:2281`, action `AfterRun`).
- Cancelling `RouterOsSshSession.open`, or a PTY that is refused, leaks the connection
  (`ssh.py:96`, actions `OpenFails` and `CancelledAt` of `HighRiskEntry`).
- An older change rolled back after a newer one to the same object overwrites the newer
  (`base.py:403`); `UndoRestores` speaks of the baseline of the plan that is rolled back.
- Some checks compare less than was written.  The one after an apply of PPPoE compares
  interface and user, of NAT not `disabled`, of a bridge the presence of its ports; the
  one after a rollback compares the same for these three, though its verdict speaks of
  the original configuration.  `Catalog` has the fields of each (`applied`, `restored`).
- The check after an apply compares what was typed with what RouterOS reports, so a change
  that was carried out is reported as failed when a value was typed in another spelling: a
  WireGuard port `051820` passes as a number (`extended.py:615`), is sent as one (`641`) and
  is compared as text (`717`), an MTU likewise (`718`); DHCP ranges are validated without
  their blanks and sent and compared with them (`extended.py:348-352`, `386`, `435`);
  networks, DNS servers and the address of an address-list entry, by which it is looked up,
  are normalised by RouterOS.  The fields are in `Respellable`, the exception in
  `CleanRunSucceeds`.
- A DNS plan with an empty cache TTL never verifies (`extended.py:557`), and neither does
  the rollback of an address-list entry whose timeout has counted down
  (`extended.py:297`).
- A rollback is marked in the history after the session of its check was left
  (`base.py:402-426`, `chat.py:2156`): an abandoned process that writes in between leaves a
  record marked that a second look would not find at its baseline (`ReadyChange`,
  `UndoChecked`, `ServerStep`, `UndoMarked`).
- Opening a channel (`ssh.py:90`), SFTP (`240-242`, `260-262`, `272-274`) and `wait_closed`
  have no deadline, and `keepalive_interval=0` lets a silent router go unnoticed: an entry,
  a restore or the end of a session may wait for ever, under the lock and with the input off.
  Tab cancels it.  The body of a reply is read with a timeout for each read and none
  altogether (`providers.py:136`, `226-228`), so a provider that keeps sending keeps the run.
- Two overlapping registrations (Enter in a field while a thread runs) each write the
  routers they loaded, and a clean-up puts back files the other has written
  (`service.py:124`).  A kill between the two halves of a login mixes an old name with a
  new password (`store.py:236`), and one during the inspection leaves an unverified
  login behind.
- `Ctrl+L` or `/resume` during a run puts its answer into the other chat, `crossed`; a
  session whose title is being made replaces one that was resumed meanwhile
  (`chat.py:2420`), although the README of the repository says `/resume` resumes it.
- A prompt typed while a title is made cancels the worker, and the answered turn is
  saved nowhere (`lost`).  A run that was stopped is saved and not remembered, a model
  switch forgets what the screen still shows (`unaware`).  The report of a change is
  added to whatever turn is the last by then, and dropped while there is no session.
- A stream that is cut without `[DONE]` passes for a complete reply (`providers.py:227`:
  `http.client.HTTPException` is no `OSError`), though `loop.py:526-531` means to refuse
  one without a final message.
- No mode offers `select_router_capabilities`, so `loop.py:277-320` is never reached.
- The refresh after a change reports no loss once the session was detached, so changes
  of a run go on (`loop.py:715-721`); `ChangesGuarded` speaks of an attached one.

Why these bounds are enough.  In `SshSession` the stream couples a call only with what
earlier calls left in it: two calls give a stale reply and its victim, two decisions
give a commit that fails and the abort after it, or a commit cancelled by another
decision.  In `HighRiskEntry` entries share only the vault, the group, the trust record
and Safe Mode: two give every overlap of a clean-up with an entry.  `Console` needs two
sessions for a loss reported after the next one was opened, and two plans for an
approval that finds another plan than the one shown, or an apply whose finally block
meets a newer one; prompts are not bounded.  Each is a run of its own; the proofs have
any number of both.  `ReadyChange` has three plans so that a rollback can have an older
change below it and a newer one above it, two steps so that the order of journals shows,
and two rollbacks so that one can be tried again.

`RunbookDefinitions` has every scenario and a starting state for every single field
that may differ; ten ports are one more than a form accepts.  `Registration` needs two
attempts for a clean-up that overlaps another write, and a second router for what one
attempt does to the entry of another; overlaps are explored for one router, kills for
two.  `Conversation` needs three prompts so that a session can have two turns and another
one; the history keeps three turns instead of 100 so that it is cut.  `AgentLoop` needs a
second round for a change after a loss, and two calls for a loss between them.

Sizes: the passing runs reach from 5 * 10^4 (`EntrySafety`) to 3.2 * 10^6 distinct states
(`RunbookDefinitions`, `ReadyLedger`); none takes more than about two minutes with two workers.

The runs of `Console` check for deadlock as well: the operator can always type.  In the
others calls, decisions, entries, attempts and plans are bounded, so the model may simply
have nothing left to do; there `CallsReturn`, `EntryEnds`, `ConnectComesBack` and `RunEnds`
say that nobody is stuck.

### Fairness

Fair is only what has a deadline, needs no answer, or is the event loop's or the operating
system's own doing.

- `SshSession`: the holder of the lock goes on at every read of the PTY, which has a
  deadline (`asyncio.wait_for` in `_read_stdout`, and one for each `_read_until_*`), and not at SFTP or `wait_closed`
  (`Unlimited`), which have none.  A waiting task gets a lock that is free again and again
  (strong fairness): asyncio's lock is first come, first served.  RouterOS notices a closed
  session.  Callers, the link and the router's answers are free.
- `HighRiskEntry`: an entry goes on at the awaits with a deadline: MikroMCP (its read
  timeout), the key probe and the connection (the system's TCP timeout and asyncssh's
  `login_timeout`, which is on by default), the Safe Mode handshake.
  It need not go on where it waits for a channel, SFTP or the end of a connection
  (`Waits`).  Leaving, the operator, MikroMCP and a kill are free.
- `Console`: the answers MikroMCP owes a job, the TCP probe before a run, a run that was
  cancelled, and finally blocks but for the one that waits for the SSH session.  No step of
  the HIGH RISK worker and no answer of a model is fair.
- `Registration`: each thread goes on, because the operating system runs it and the TLS and
  MCP timeouts end its waits; the operator need not answer, so `ConnectComesBack` promises
  the form or a question.
- `AgentLoop`: the run goes on where it has something to do or waits for MikroMCP, and a
  thread whose stream is over says so.  That a provider answers, stops talking or is read,
  or that the SSH session answers, is not assumed.

## Proofs

TLAPS proves, for every value of the constants:

- `SshSessionProofs!TypeCorrect`: `Spec => []TypeOK`.  The invariant `TypeInv` adds
  what the type of a call depends on: which await belongs to which call, and that a
  free lock has no frame.
- `SshSessionProofs!KeptByCommit`: `Spec => []KeptOnlyByCommit`.  That changes are kept
  only after a commit was asked is not inductive: Safe Mode is released by a Ctrl+X
  that may have been typed long before the router takes it.  `KeepInv` says where a
  Ctrl+X can be: while none was asked, the keystrokes on their way hold at most the one
  of `enter_safe_mode`, and when it is there the router does not hold Safe Mode and no
  change floats.
- `SshSessionProofs`: `NeverExposed` (`NoUnprotectedCommand`), `CommittedIsKept`
  (`CommitIsKept`), `BeliefIsTrue` (`BeliefMatchesRouter`) and `ContractHolds`, the
  refinement of `SafeModeContract` step by step.  Their hypothesis is `CancelOp =
  FALSE`, as in the run `SshSafeMode`: a cancelled commit leaves a session that believes
  in a Safe Mode the router has given up (above), and agent calls may be cancelled
  anywhere. `SafeInv` says why the rest is safe: who owns the session while the lock is
  taken or free (`OwnerInv`), that only markers follow a Ctrl+X on its way and commands
  travel only under Safe Mode (`KeysInv`), that no marker shows up before it was handed
  out (`TextInv`), that what `enter_safe_mode` saw stays so until `commit_and_close`
  writes (`ProtectInv`), and that the Ctrl+X of a commit is still underway, was
  swallowed by a dead link, or has released Safe Mode and shown a bare prompt before any
  marker comes back (`ReleaseInv`).  Hence a confirmed commit is one the router took.
- `SshSessionProofs!AnswersAreOwn` (`OwnOutputOnly`), under `CancelAgent = FALSE` as in the
  run `SshProgress`; the operator's worker may be cancelled anywhere.  A reply is what was
  read up to its marker, so `OwnInv` follows the whole line, from the keystrokes on their
  way through the router's text to `buf` and `_pending`.  On a live channel the line is
  silent, without command or output, while no agent call is being answered (`SilenceInv`);
  while one is, nothing noisy follows the awaited marker (`FenceInv`) and all that comes
  before it belongs to the command (`MineInv`).  A timeout re-establishes this by reading
  up to a new marker, or closes the channel.  The proof needs that `Before` and `After`
  cut at the first marker, which exists because `<` is well-founded on the naturals
  (`LeastNatural`).
- `ConsoleProofs!TypeCorrect` (`TypeOK`), `ExecutorMatches` (`ExecutorMatchesSession`),
  `AppliedWasApproved` (`AppliedOnlyIfApproved`) and `LeftIsClosed` (`LeavesClosed`).  The
  second is inductive once it is known where `mode`, `session` and `executor` change at
  all.  The others rest on `ConsoleInv`: the callback of what is shown is the one set last
  (`PanelInv`), a plan on the panel is pending or was dropped and has never been begun
  (`PlanInv`), and a worker that closes a session closes the one of the screen, or one
  that has already left it (`LeaveInv`).
- `HighRiskEntryProofs`: every invariant of `HighRiskEntry`, namely `TypeCorrect`,
  `SafetyNet` (`UnlockedIsProtected`), `PasswordKept` (`BackupHasPassword`),
  `HostConfirmed` (`OnlyConfirmedHost`) and `EntryForgets` (`FailedEntryForgets`).  None
  is inductive: that an unlocked entry has its three files depends on what it did ten
  awaits before.  `NetInv` follows an entry along its awaits: which files, which
  password and which connection it has at each (`Fits`), that an entry not yet begun has
  nothing, that the session of the screen is unlocked or being left and that the pinned
  key was confirmed.  `StepKeeps` shows once that a step of one entry leaves the others
  alone; `CancelFits` does the case of a cancellation, which moves many at once.
- `RegistrationProofs!TypeCorrect` and `PinsConfirmed`: `Spec => []PinConfirmed`.  A
  fingerprint gets into `routers.yaml` also from an older copy of the file: the one a
  thread loaded before another wrote, or its snapshot.  `PinInv` says that these copies
  hold confirmed fingerprints only (`Clean`), and that a thread between consent and the
  write (`Consented`) holds a confirmed one, as does one at the review whose pin matched.
  Nobody takes a confirmation back, so what was clean stays so.
- `RegistrationProofs!LoginsKept` (`CredentialsKept`), `CleanedUp` (`FailureRestores`) and
  `VerifiedIsWhole` (`RegisteredIsComplete`), under the condition in these properties, one
  attempt at a time.  `AloneInv` says that the disk is in order after every single write:
  each ciphertext fits the key file (`Fitting`) and each registered router has a login in
  the vault or in `.env` (`Served`).  To keep that through a clean-up, which replaces five
  files one by one, the snapshot must be `Restorable` all along: it has no key but the
  present one, no router and no ciphertext that the disk has lost.  `BackOf` says which
  files are back at each step, `CopyOf` that what a thread loaded is what is on disk,
  `OwnOf` what it has written for its own router.
- `ReadyChangeProofs!HistoryForgetsNothing` (`HistoryKeeps`), with everything that may go
  wrong.  Recording replaces a record of the same plan, so it must be known that there is
  none: `HistoryInv` says that a plan is approved once, and that while it is built, on the
  panel or carried out the history has no record of it; and that a rollback leaves the
  session of its check to mark a record only once that read the baseline (`SeenInv`).  That
  the router still has it when nothing goes wrong is part of `CalmInv` below (`UndoInv`).
- `ReadyChangeProofs!EverythingAccounted` (`Accounted`) and `RollbackRestores`
  (`UndoRestores`), when nothing goes wrong.  `CalmInv` adds that the first journal of a plan
  is its baseline (`JournalInv`), which needs that nobody writes between the look at the
  router and the first step (`ApplyInv`); that each plan with journals has a record with
  all of them, or is being applied (`RecordInv`); and that a rollback goes down the steps
  one by one and the router has what the last one undone overwrote (`UndoInv`).
- `ConversationProofs`: `SessionsApart` (`ConversationsApart`), `AnswersSaved`
  (`NothingForgotten`), `ModelIsTold` (`ModelKnowsTheChat`) and `TurnsStay`
  (`SavedTurnsKept`), with a failing disk.  `ConvInv` has five parts.  What is at work has
  come up and been asked (`SpeakerInv`).  The screen names a session that exists, and the
  picker, which may be old, lists only such, each with a beginning of its turns
  (`FilesInv`): hence a resume from an old list cannot bring back a session or lead into
  another conversation.  What is answered is saved or lost but for the prompt whose title is
  made, and nothing else is saved (`AnswerInv`).  Requests, changes and panels belong to the
  chat on the screen (`ApartInv`), and the prompt whose title is made is known to the model
  before it is saved (`KnownInv`).  What `load_history` and `_remember` do to a sequence
  is in lemmas of their own (`NewestFacts`, `RememberFacts`, `ToldFacts`).
- `AgentLoopProofs!Guarded`: `Spec => []ChangesGuarded`.  `GuardInv` says where a run may
  be once it has begun a change without a channel: at that call, at the recount that
  follows it, or at its end; after the recount the session is detached.

- `RunbookDefinitionsProofs`: `SkippedStepsSeen` (`SkippedWasThere`), `DriftSeen`
  (`RollbackSeesDrift`), `NoFalseAlarm` (`CleanRunSucceeds`) and `PersonConfirms`
  (`HumanConfirms`), for each of the eleven definitions.  What a definition must be like is
  said once (`GoodDefinition`: its steps write different objects, together with what these are
  listed under; its post-check compares nothing the plan leaves open, its rollback nothing
  RouterOS assigns) and shown for each line of the catalog; a new definition needs only that
  lemma.  From there `StepFacts` and `UndoFacts` say what a step does to one object.
  `SkipInv` says that an object whose step was skipped is as its snapshot has it while the
  plan is carried out, `PutBackInv` that what was undone is as its snapshot has it; a verdict
  on the router is then one on the snapshots.  `MadeInv` follows a clean apply object by
  object, `BackInv` says that its journals are the baseline and that what is undone is alike
  up to its `.id`; `FormInv` and `WorldInv` are the form and the types.

They rest on the assumptions named in the modules (`BoundsAssumption`,
`CancelAssumption`, `ConsoleBounds`, `EntryBounds`, `RegistrationBounds`,
`AgentLoopBounds`, `ReadyBounds`, `ConversationBounds`, `DefinitionBounds`): bounds are
natural numbers, switches are Boolean, the faults are those named, and there is a router.
TLC evaluates them in each run.

Every safety invariant, every action property and the refinement that a passing run checks
is stated by one of these theorems.  Only model-checked: the liveness properties
(`CallsReturn`, `SafeModeSettles`, `EntryEnds`, `SafeModeComesFree`, `InputComesBack`,
`ConnectComesBack`, `RunEnds`), out of the prover's reach as is `ENABLED`.

## Plan

1. `SshSession`, `SafeModeContract`, `Console`, `ReadyChange`, `HighRiskEntry`: done.
2. `RunbookDefinitions`, `Registration`, `Conversation`, `AgentLoop`: done.
3. Proofs of the safety of `SshSession`, `Console`, `HighRiskEntry`, `ReadyChange`,
   `Registration`, `Conversation`, `AgentLoop`, `RunbookDefinitions`, and of the refinement
   of `SafeModeContract`: done.

## Not modelled, and why

- MikroMCP client: each call starts a process and ends with it.  That such a process goes
  on when its caller is gone is in `ReadyChange` (`servers`) and `HighRiskEntry`
  (`making`); the framing is that of a library.
- Discovery: one thread merges the packets it parses; a parser of type-length-value
  records is a matter for unit tests.
- Documentation packs: text processing, without state that interleaves.
- Presentation: translations, Markdown, clipboard, redaction.
- Of the parts modelled: terminal emulation, truncation of replies and `_validate_request`
  (SSH); key routing, language, editing of models and the connection banner (screen);
  the file of presets and DPAPI (vault); `select` and `ready_contract` (catalog); texts,
  reasoning and token counts (providers); settings, table and command line
  (application); two programs writing one file of sessions.
- MikroMCP, RouterOS and the model provider are outside the repository; they are modelled
  by what the code lets them do, and marked external.
