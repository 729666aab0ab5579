# FreePOPs: a verification development

FreePOPs (`freepopsd`) is a POP3 server whose mailboxes are websites. A client
speaks POP3 to a C server; the server runs each session in a thread with a Lua
state of its own; a plugin in that state reads the webmail's pages and gives the
server messages. This directory holds TLA+ models of the part of the program
that carries its own logic, checked by TLC, and theorems about them, checked by
TLAPS. `PROJECT.json` names, for every definition, the lines it stands for.

## 1. Inventory

| component | where | state | operations | what makes it correct |
|---|---|---|---|---|
| accept loop and thread pool | `modules/src/pop3server/popserver.c` (`popserver_start`), `threads.c` | `thread_register[-t]`: `pth`, `active` | `thread_get_free`, `thread_clean`, `thread_die`, `thread_notborn` | a slot belongs to its thread until it is joined; -t bounds the threads; no slot is lost |
| POP3 automaton | `popserver.c` (`pop3_thread`, `pop3_POPSTATE_AUTH`, `pop3_POPSTATE_TRANS`) | state, error counter, socket error | one per POP3 command | every session ends, is counted, and its plugin is told |
| engine | `src/engine.c` | `p->other->l`, the Lua state | `freepops_*`, one per command | never calls into a Lua state it does not have; closes every one |
| mailbox state | `modules/src/pop3server/popstate.c` | messages, sizes, UIDLs, delete marks | set and get | marks survive until QUIT or RSET |
| session store | `modules/src/session/session.c` | `data_t` per key: string, lock | save, load and lock, remove, unlock | no leak, no use after free, the lock excludes and is given back |
| dictionary | `modules/src/dictionary/dictionary.c`, `list/list.c` | key to data | find, add, remove under one mutex | atomic; says what it did |
| webmail plugins | `src/lua/libero.lua` and some twenty others, `commonimpl_lua/common.lua` | `internal_state`, `stat_done` | user, pass, stat, retr, top, dele, rset, quit, quit_update | messages are deleted on QUIT only; the session store's protocol is kept |
| POP3 forwarding | `src/lua/popforward.lua` | `pf_state` | the same, to another POP3 server | in step with the server behind it |
| socket layer | `modules/src/portablesocket/` | receive buffer, parser state, `error_occurred` | send, receive a line with timeout | a line is what the client sent, whole |
| byte-stuffing, TOP | `modules/src/stringhack_lua/lstringhack.c` | `last3`, `last4`, line count | dothack, tophack | the same for every way to cut a message in pieces |
| pipe to a child | `modules/src/dpipe_lua/dpipe_lua.c` | file descriptors | `io.dpopen` | closing the input ends it |
| log, signals, pid file | `log/log.c`, `pid/pid.c`, `src/freepops.c` | a mutex, a file | log, kill | the daemon can be stopped |
| statistics | `stats_lua/stats_lua.c` | counters | increment | no count is lost |
| page matching | `mlex/mlex.c` | page, expression, tokens, backtracking stack | `mlmatch` | the tokens are the page; a match is found where there is one, and its columns are right |

How they interact: `freepopsd` parses its command line and calls
`popserver_start`, which never returns. For every client it cleans the pool,
takes a slot and starts `pop3_thread`; the two sides share `thread_register`
without a mutex. `pop3_thread` calls the engine through a table of functions;
USER loads a plugin in a new Lua state; the plugin calls back into the mailbox
state, the socket (`popserver_callback`) and the session store, which all
threads share and which outlives them: a webmail login is saved at QUIT and
resumed by the next PASS.

What is hard: the unlocked register; pointers used after the dictionary's mutex
has been released; locks owned by nobody; the many ways a session may end
(client, timeout, website, send failure) with obligations at each end; static
variables shared by threads in the socket layer; partial sends; messages cut in
pieces anywhere; a second POP3 server whose answers may be lost; file descriptors
inherited by children; a signal handler that takes a mutex; counters and files
without one; backtracking. Each is a line of `hazards` in `PROJECT.json`, with
the properties that watch it.

## 2. Modules

| module | models | composed of |
|---|---|---|
| `ThreadPool` | the accept loop, the pool, the last steps of every thread | |
| `ThreadPool_proofs` | theorems about it, and about `DPipe` | `ThreadPool`, `DPipe` |
| `SessionStore` | the session store over the dictionary | |
| `MailboxSession` | POP3 sessions of several threads as the store sees them: the automaton, the plugin | `SessionStore` |
| `MailboxSession_proofs` | lemmas and theorems about both | `MailboxSession` |
| `PopSession` | one POP3 session: automaton, engine, mailbox, plugin | refines `Maildrop` |
| `PopSession_proofs` | theorems about it, its refinement of `Maildrop` among them | `PopSession` |
| `Maildrop` | what a session promises about the mailbox (the abstract specification) | |
| `LineReceiver` | lines out of a byte stream, for several threads | |
| `LineReceiver_proofs` | theorems about it | `LineReceiver` |
| `StringHack` | byte-stuffing and TOP, over the pieces of a message (operators) | |
| `Delivery` | the answer to RETR and TOP: website, callbacks, partial sends, client | `StringHack` |
| `Delivery_proofs` | lemmas and theorems about both | `Delivery` |
| `PopForward` | a session forwarded to another POP3 server: automaton, plugin, list of messages, the other server | |
| `PopForward_proofs` | theorems about it | `PopForward` |
| `DPipe` | messages sent through a filter by several sessions: `io.dpopen`, its processes and descriptors | |
| `Daemon` | start, pid file, `--kill`, signals, the log's mutex, the statistics, of several processes | |
| `Daemon_proofs` | theorems about it | `Daemon` |
| `Markup` | how pages and markup expressions are cut into tokens (operators) | |
| `Mlex` | markup expressions: the search with backtracking, the rows it extracts | `Markup` |
| `Mlex_proofs` | theorems about both | `Mlex` |
| `MC*` | instances for TLC | |

### ThreadPool

The register is two functions over slots, `pth` and `active`. An identifier of a
joined thread may be given out again, as pthreads allow. The atomic steps are
single memory accesses, in the order of the source: `thread_die` tests `pth`
(`DieCheck`), reads `*pth` (`DieCompare`), writes `active` (`DieMark`);
`thread_clean` frees a slot in one step because only the accept loop touches a
slot after its thread has marked it, and a scan that meets the slot between two
of those writes sees either the old pointer or NULL, both of which the model has.
`GetFree` and `SetUsed` are apart because scans run between them, and `Create`
writes the handle.

`malloc` returns memory that shows `Junk`, or, when `HeapKeepsData`, the
identifier a freed handle held; a scan that follows a pointer read before the
free sees what the memory shows now. `pthread_create` is assumed to write the
handle before the new thread runs to its `thread_die` (glibc does).

`thread_die` names `thread_register[i].pth` twice in one condition, and nothing
says whether a build loads it twice. If it does not, `*pth` is read through the
pointer that was tested (`DieCompare`); if it does and the accept loop has
cleaned the slot in between, it is a read through NULL, which ends the process
(`DieFaults`). The same happens when `accept` fails: the NULL of `sock_listen` is
not looked at, and `Create` or `Refuse` goes through it (`connected`).
`NoNullHandle` is therefore about the accept loop only, which it clears: what it
joins and what `thread_notborn` looks at is never NULL because of a wrong mark.
The liveness properties say "unless the process ends". A crash and `ERROR_ABORT`
end the process, so deadlock is not checked.

### SessionStore and MailboxSession

A dictionary operation is one step, as its mutex makes it. What `session.c` does
after it is another: `SaveFill` is `tmp->data = strdup(data)`, `LoadRead` is
`return tmp->data`. Addresses are values of `Node`; freed ones are given out
again, so that a stale pointer may reach another entry, or memory of no entry
(then a write is lost and a read gives anything).

`MailboxSession` adds, per thread, the place in the plugin's protocol: `pass()`
loads or logs in, `stat()` may find the website's session ended, remove it, log
in again or give up, QUIT saves and unlocks, every failure leads to `quit()`,
which unlocks. The automaton calls `quit()` as `PluginTold` of `PopSession` says
it does. The website's part is nondeterministic. A saved string that does not
load as Lua, which `serialize_state` never writes, is left out.

A thread has `mine` from the moment its `load_lock` is answered with the session
until any thread unlocks or removes that account's entry. This is what the lock
is worth: it keeps others from loading (`LockKeepsOut`), but every session on the
account may free it, and does when it ends.

### PopSession and Maildrop

One thread serves a session, so a command is one step: receive, call the plugin,
answer, next state. `sock` is `error_occurred`: any answer may fail to be sent,
any receive may time out or find the client gone. A client that closes its
connection is seen as one that sends empty lines until it has used up
`MAX_ERRORS_ACCEPTED` or an answer cannot be sent, as the code sees it. The
plugin is `common.lua` with `libero.lua`'s `stat` and `quit_update`; its answers
are those its code can give, whatever the website does. Message text, sizes and
UIDLs are left out.

Two hazards are watched only in part. `SessionCounted` keeps a session from being
counted as good and as bad or not at all, but a bad one may be counted twice: by
the state it fails in (`popserver.c:506`, `744`) and again when its answer could
not be sent (`777`). `EndsUnlessServing` would not notice a forgiven error that is
never counted, for such a session keeps being given commands.

`Maildrop` allows messages to be removed only by a QUIT in the TRANSACTION
state, only marked ones, all of them if it is answered `+OK`. The refinement
maps the automaton's state to the phase, the delete flags to the marks and the
last answer to its status indicator.

Three more things about answers came out of reading and are not runs: a TOP
without any argument is answered by two error lines (`popserver.c:639` and
`644`), STAT counts marked messages (`engine.c:318`), and a second DELE of the
same message is answered `+OK` (`common.lua:106`). RFC 1939, in
`doc/rfc/rfc1939.txt`, says otherwise of each.

### LineReceiver

The client sends lines (`Send`), ahead of the answers if it likes; the network
hands them over in pieces of any size (`Recv`). A session is outside
(`command`), in the loop, or in the `switch`, where its place is the parser's
state as it has read it: `Switch` reads the static variable, the four actions
after it write it, and steps of other sessions may come between. `Eof` and
`RecvFails` are the ends a connection may take, `Timeout` that of `select`.
`*dst = '\0'` is not modelled; `dst` keeps room for it (`TypeOK`).

One thing is modelled and belongs to no violated run: after a carriage return
that ends no line the next character is written without advancing `dst`
(`altsocklib.c:723`), so it is lost. `RecordsAreLines` and `NoCharLost` leave
out lines with such a carriage return; the model sends them, so `TypeOK` covers
that branch too.

### StringHack and Delivery

A message is a sequence of bytes of which only CR, LF and the dot are told
apart. `StringHack` defines what `dothack` and `tophack` make of one piece, given
what they kept of the one before. `last3` and `last4` are read from three bytes
before the end of the piece, whatever its length: of a shorter one they begin in
memory before the string, which is a choice over `Before`.

`Delivery` is the answer to one command. The website delivers the message in
pieces of any size (`Piece`); the callback transforms each and hands it to
`sock_sendraw`; `senddata` calls `send`, which takes part of it (`Send`), until
one call has taken all. As `rc` is overwritten, a piece of which `send` took part
twice is never finished by the loop: it goes on until an error ends it
(`SendFails`), which is why `SuccessMeansSent` holds. `told` is what the socket
layer was given, `wire` what the client gets; the properties read `wire` as a
client does.

RETR reads the page of a message once. TOP reads it range by range (`do_until`)
and looks, behind each, whether it may stop: when `tophack` has counted the lines
(`purge`), or when it has got as many bytes as the message has (`common.lua:224`).
That number, `size`, is read from the mailbox's page, which gives it rounded, in
kilobytes or so; it may be less or more than the message has. `RangeEnds` goes on
to the next range, `PluginEnds` stops, `LaterRangeFails` is a range that fails
after others have not, for instance because the message ends before `size`: then
`do_until` breaks and returns what the range before it was, a success.
`StoppedShort` is a TOP that ended before the message and before the lines were
counted, by a size that is too small or a range that failed. `InStep` and
`TopEnough` do not hold of it, and say so: it is answered `+OK` with fewer lines
than asked for, and if it stopped in the middle of a line the final dot is glued
to that line, so that the client goes on waiting. It is assumed that the
website honours a range and that what it answers instead of one has no body.

A plugin that answers EOF is a success to `send_result_callback`
(`popserver.c:343`); `common.lua` never does for these commands, and
`SuccessMeansSent` says nothing of it.

The properties hold for pieces of at least three characters that do not cut a
line of a single dot close behind another dot (`cut = "fine"`): `dothack` doubles
the first dot it finds around the cut. The code's documentation knows no such
conditions (section 5). Things the model has and the properties leave out, each
found by dropping a condition:

- two lines of a single dot with a cut in the second: the comment at
  `lstringhack.c:70` says "even if fragmented", but the second is not doubled;
- a message whose last line has no end gets the final dot glued to that line;
- lines that begin with a dot and go on are never doubled, and a client takes
  their first dot away;
- TOP may send up to a whole piece too much (`TopEnough` bounds it from below),
  and drops the blank line when no line is asked for; a piece that ends just
  behind a line's first dot makes that line an end of message, as `top_cb` adds a
  line end;
- a plugin that fails in the middle closes the answer with a dot, as if it were
  complete: only the log knows.

### PopForward

`pop3_thread`, the plugin and the other server are one chain: a command of the
client (`Give`) is a list of commands to the other server (`Plan`), each with the
places of `single_line` and of the loop that follows it. Lines carry the number
of the command they answer, so that `InStep` can say what is read as what. The
other server is RFC 1939's; it may refuse (`Refuse`), its connection may
break with any part of an answer lost (`Break`), and it may fall silent: `recv`
has no timeout (`psock.lua`), so the plugin then waits for ever, and the thread
with it (`Waiting`). With `pf.is_freepops` the text of a refusal is understood:
"no such message" and a syntax error leave the session in its state, the end of a
stream is a success to RETR, anything else ends the session (`StatusErr`). With
`pf.pipe` RETR goes through `DPipe`.

`CutEndsSession` is about a message that stops in the middle. A RETR that a
FreePOPs server refuses with "no such message" is another case, and not the
property's: the client has been told `+OK` and gets an empty message, and its
session goes on.

`num` is the number of messages of `popstate.c`. When STAT reports fewer,
`set_popstate_nummesg` frees the pointer behind the end of the array: `wild`
records it, and the process may be aborted. `FreesItsOwn` says that nothing but a
STAT after a DELE gets there.

Left out: a second USER (`PopSession` has it), `pipe_limit`, UIDL and TOP, whose
code is that of LIST and RETR; UIDL is read with `(%d+) (%d+)`, so unique ids that
are no digits are lost.

### DPipe

The descriptors of the daemon are one set, shared by its threads and copied by
`fork`. `Fork` is both forks, `execv` and the daemon's `waitpid`; between them
and `CloseEnds` other threads may fork and inherit what this one has open. A
filter sees the end of its input when no process has the other end open. Two
kinds of filter are modelled: one that reads everything before it writes, one
that writes as it reads.

`SessionReturns` names the two cases in which a session hangs for ever: `Crossed`,
where two filters hold the write end of each other's input, and `Overfull`, where
the session writes a message the pipes do not hold to a filter that waits to be
read. Leaks of a call that failed (`pipe`, `fork`) are in the model and outside
`NoLeak`. A filter that was never started (the fork in the son fails, and nobody
looks) or dies gives an empty or cut message, answered `+OK`; one whose `execv` fails goes on as
a copy of the session, with its client's connection.

### Daemon

A process goes from `off` through its start to serving; sessions are threads that
log, increment a counter (a load and a store) and end. A good session increments
`session_ok` once. A bad one increments `session_err` in the state it fails in
and then ends, or increments it once more when its answer was lost with the
connection (`popserver.c:506` or `744`, then `777`): `bad` records the first. `Books`
therefore allows twice as many bad ones as there were, and none that is counted
as both, twice as good, or three times as bad.

The mutex of `logit` has
an owner: a thread, or a handler running on it. A handler runs on any thread
(`Signalled`) and stops what it interrupts; the same signal is blocked while it
runs, the other one is not. `log_end` takes the mutex and keeps it, which is what
`NoLineAfterEnd` rests on: a version that gives it back is a mutant of it.

`SignalEnds` holds but for `Stuck`: a handler that waits for the mutex which the
code it has interrupted holds. The same could happen with the lock of `malloc`,
which is not modelled. `KillFindsIt` is about daemons that do not run at a time:
the pid file is one for all ports, a second daemon writes its pid into it, and
the first one's handler removes it (see `overlap`). It is also about daemons that
have a pid file: when it cannot be created the daemon logs so and serves all the
same (`pid.c:51-54`; `freepops.c:744` ignores the result), with `-n` it does not
try (`NoPid`), and nobody looks whether the pid was written (`WritePid`). Then the
file is missing, empty or another daemon's, and `--kill` does not find this one;
`wrote` says that none of this happened. What the property does say is that a
daemon that has written its pid is found whatever such daemons, crashes and
failing removals came before it.

The handler removes the file first. It logs one line more when it cannot open it
(`tell`); whether it can be removed, which a daemon that has given up its rights
(`-s`) may not be able to, nobody looks.

Also in the model, without a property: a start that cannot bind its port or give
up its rights leaves the pid file; a signal before `set_signals` does too; of an
empty file `--kill` reads a pid that is not initialised, and may signal any
process. `Kill` reads and signals in one step, since a signal that comes later is one of `Interrupt`. The
removal of the file and the delivery of the signal are one step.

### Markup and Mlex

A page is a sequence of symbols: the brackets, the words that change what a tag
is (`script`, `!--`, `--`), and letters. `tokenize_html` and `tokenize_exp` are
loops over `regexec_my` and `regexec_myext`; each is a function of the place it
has come to, whose value there rests on the value behind the tag it finds. The backward look at `&s[pos-6]` is a look at the symbol before:
nothing but the word itself fits in six characters. `TokensAreThePage` reads the
tokens back. What it leaves to the reader: the text behind the last tag is no
token; `</script >`, with a space, does not end a script; a `</script>` that
ends nothing hides the page up to the next one, as `scriptmatch` takes both for
the same.

A regular expression is what `regfind` (a constant) says it matches. `Found` and
`Backtrack` are the two ways a call of `mlmatch_find` ends; `Fails`,
`PatternEnds` and `DataEnds` are the return to `mlmatch_aux`, which takes the
result for an answer if it is long enough. `AnswersAreMatches` compares with a
definition that does not search: the answers are the tokens from which the
expression matches with some choice of its optional tokens, by the choice that
takes the earliest. The exception is `short`: at the end of the page
`mlmatch_find` returns without passing over the optional tokens it has matched,
so a match is missed, or a partial one that is long enough is answered, which
`mlex.h` does not say ("each regexp matches the corresponding token"). Of a string that is only an
opening bracket `tokenize_exp` makes a token that ends before it begins
(`mlex.c:325`); here it is one of no symbols. The get
expression is the set of tokens it keeps; that its shape is checked against the
expression's is not modelled.

## 3. Runs

| run | instance | shows |
|---|---|---|
| `pool` | 2 slots, 3 identifiers, fair | a slot belongs to its thread until it is joined (`SlotHeld`), at most two threads exist (`PoolBound`), the mark is right (`AnnouncedExactly`), the accept loop uses no handle that is NULL (`NoNullHandle`) and comes back (`AcceptLoopReturns`), marked slots are given back (`CleanReclaims`), the last two unless the process ends |
| `mailbox` | 3 threads, 2 accounts | no leak, no double free (`NodesOwned`), no entry stays empty (`FilledUnlessSaving`), no account stays locked (`NoStuckLock`), whoever has loaded a session finds it locked (`LockKeepsOut`) |
| `mailbox_use_after_free` | 3 threads, 1 account | `NoUseAfterFree` violated |
| `session` | 2 messages, 2 forgiven errors, fair | the plugin is entered only when it is there (`LuaReady`) and told of the end (`PluginTold`), each session is counted, as good or (once or twice) as bad, and not as both (`SessionCounted`), messages go as `Maildrop` allows (`RefinesMaildrop`), a session ends unless it keeps being served (`EndsUnlessServing`) |
| `lines` | 1 session, 3 lines | each command is the line sent (`RecordsAreLines`), nothing of a long line is lost (`NoCharLost`) |
| `lines_shared` | 2 sessions, 1 line each | `RecordsAreLines` violated |
| `delivery` | 16 messages, 2 sizes, RETR and TOP 0 to 2, one partial send | a successful answer is sent to the last byte (`SuccessMeansSent`); if the pieces are fine it ends where the client takes it to end (`InStep`), is the message (`DeliveredWhole`) or has the lines asked for (`TopEnough`), unless a TOP stopped short |
| `forward` | 2 messages, 6 commands, fair | only what was asked is removed, and what `QUIT` says was (`RemovedHonestly`), answers are read as those of their command (`InStep`), a cut message ends the session (`CutEndsSession`), what is freed was allocated but after a STAT that follows a DELE (`FreesItsOwn`), every command is answered unless the other server falls silent (`Answered`) |
| `forward_loss` | the same | `RemovedOnlyByQuit` violated |
| `daemon` | 2 processes, 2 sessions, fair | no line after the log's end (`NoLineAfterEnd`), the pid file names the daemon that could write it (`KillFindsIt`), no session is counted as good and bad or more than twice (`Books`), the log's mutex has the owner that is inside (`TypeOK`), a signal ends it but in one case (`SignalEnds`) |
| `dpipe` | 2 sessions, messages of 4, pipes of 1, fair | what a filter that ends gives is all (`Filtered`), descriptors are closed (`NoLeak`), the session returns (`SessionReturns`) |
| `mlex` | pages of up to 3 tags, all expressions of 1 and 2; short pages of all symbols; fair | the tokens are the page (`TokensAreThePage`), matches are found (`AnswersAreMatches`), rows are right (`RowsAreKept`), the search ends (`Terminates`) |

Every property of a passing run has a mutant: an operator marked `Fault` in its
module that changes one definition as a mistake in the code would, and for which
TLC finds the property violated.

### Bounds

- `pool`: with one identifier more than slots an identifier is reused while both
  slots are busy, and a client is refused while both are. A scan compares one
  slot at a time, so a third slot adds nothing but length; the theorems cover it.
- `mailbox`: three threads are what it takes for one to hold, one to be refused
  or to remove and one to save again. Each has at most one address in hand and
  each account one, so with four addresses one is free when it is asked for.
  One datum is enough, as no property compares strings; the theorems cover the
  rest.
- `session`: with two messages one may be marked and the other not; with two
  forgiven errors the counter passes through every branch. Command arguments are
  the message numbers, one too many, and none.
- `lines`: a buffer for three characters; lines of zero, two, three (just too
  long) and seven characters; a receive buffer smaller than the longest line, so
  that `recv` cuts and joins lines; one line more than is needed for a fault to
  reach the next one. `MaxLines` and `MaxCalls` bound what a client sends and how
  often a session asks.
- `delivery`: a dot line, or a header's end, spans four bytes; with pieces of
  every size from one byte on, each is cut in every place and by two cuts. Two
  lines of a body are what it takes for two patterns to share a line end. TOP 0,
  1 and 2 are fewer lines than, as many as, and more than there are. The size on
  the page is less or more than any of the messages has. One send that
  is not whole shows the arithmetic of `senddata`; a second one of the same piece
  only makes an error more certain.
- `forward`: two messages, so that one may be marked and the other not, a line
  each; six commands are enough for PASS and DELE, STAT, LIST, RSET and QUIT in
  any order.
- `daemon`: two processes, of which one serves clients, one line logged, and four
  processes, sessions and handlers at a time (`MaxRunning`): a process with two
  sessions and a handler, or with one and a handler that interrupts a handler, or
  two processes that handle a signal each.
- `dpipe`: a filter buffers one unit between pipes of one, so a message of four
  does not fit; two sessions are what it takes to cross descriptors.
- `mlex`: the four tokens of an expression of two tags hold two that may be
  optional with required ones around; three tags of a page let a match begin at
  any but the first token, fail, be taken up again and run into the end. Four
  symbols hold a tag with something in it, a comment or a script's end, and are
  also put inside a script, with a tag behind it (`MaxTags`, `MaxCut`).

Deadlock is checked in the `mailbox` runs, where threads serve one client after
another for ever. The others may stop: the process crashes or aborts, the session
is over, the message is delivered, the page searched.

### Fairness

`ThreadPool`: weak fairness of the accept loop once it has a client and of every
thread once its session is over, while the process lives; the operating system
schedules runnable threads. No client has to connect, none has to leave. `lua_close` is assumed to
return.

`PopSession`: weak fairness of the thread as a whole. `select` returns after
`POPSERVER_NOOP_TIMEOUT` (60 s) at the latest, calls into the plugin are assumed
to return (the browser has timeouts of its own). It does not say which of a
command or a timeout comes, so a client may keep a session alive for ever by
sending commands, and the property says so.

`PopForward`: weak fairness of the thread, and of nothing else. The plugin's
socket has no timeout: a server that keeps its connection and says nothing hangs
the session and its thread for ever. `Answered` takes for its premise that this
does not happen (`[]<>~Waiting`), and says that nothing else holds up a command.

`Daemon`: weak fairness, per process, of leaving `logit` and of the handlers that
run on its threads. No session, signal or connection has to come; `Stuck` is excluded in
the property, not by fairness. `MaxLines` bounds the lines logged, so that a
waiting handler gets the mutex in the end.

`DPipe`: weak fairness of every session and every filter; filters need not die.

`Mlex`: weak fairness of the only process there is.

## 4. Proofs

Everything below is checked by TLAPS for every value of the constants. The
assumptions are those the modules name: the pool has a slot (`PoolSize`), NULL
and what fresh memory shows are no identifiers (`HandleValues`), identifiers and
addresses are finitely many (`EnoughIds`, `EnoughNodes`), NULL is no address and
no string (`NullIsNothing`), buffers have a size (`Sizes`), the line ends are no
characters (`Separators`, `LineSet`), a mailbox has room for a message (`Bounds`
of `PopSession`), pipes and messages have a size (`Sizes` of `DPipe`), the bounds
are numbers (`Bounds` of `LineReceiver`, `PopForward` and `Daemon`), the main
thread is no session and no process is nobody (`Names`), pages and expressions
are sequences of symbols (`Inputs`). Of a message, `Delivery` assumes that it is
a sequence of bytes (`MessageSet`, `Characters`) with an empty line after its
header, and that it does not begin with a dot (`Mails`): it begins with the name
of a header field. The reply line is no byte of a message (`OkIsNoByte`), the
number of TOP is a number or RETR's (`Requests`), and the memory before a string
is any two bytes that are there or are not (`MemoryBefore`).

**ThreadPool.** `SlotHeld` is not inductive: that a slot is not reused depends on
where the accept loop is (`LoopAtSlot`), where the scans are (`ScanAtSlot`), on a
handle that shows a thread being that thread's (`SlotIsOwned`, `OneSlotEach`) and
every thread having one (`OwnsSome`). `PoolInv` is their conjunction, and holds
on any heap. `PoolBound` follows by an injection of the threads into the slots.
`AnnouncedExactly` and `NoNullHandle` need more, `AnnounceInv`: a slot is unused
exactly when its handle is NULL (`HandleShows`), and a scan has not passed its
own slot when it marks one (`ScanBeforeOwn`). That one is for `~HeapKeepsData`
only; section 5 says why it must be. A read through NULL (`DieFaults`) only stops what
the invariants speak of.

**SessionStore, MailboxSession.** `StoreInv` (types, `NodesOwned`,
`FilledUnlessSaving`) is kept by each operation of the store whoever calls it:
one lemma per operation, before those about the sessions. `MailboxInv` adds
the types of the sessions and `NoStuckLock`. Together they are inductive: a step
takes a lock for a thread that is in the middle of its session, ends a session
that has unlocked its account, or leaves locks and places to the lemma
`LockKept`. `LockKeepsOut` is inductive once a holder is known to be in the
middle of its session on that account (`LockInv`); the lemma `HoldersKept` is the
step of a thread that leaves the locks and the holders alone. It needs that
`dictionary_add` does not replace an entry, which its mutant shows.

**LineReceiver.** `TypeOK` includes the bounds of both buffers. The parser's
state gives no help, since another session may change it between any two steps;
what is needed is that a session in the `switch` still has the room and the
character it tested for (`InSwitch`), because only it touches its buffers
(`LineInv`, for any number of sessions).

The other two theorems are about a session that has the parser to itself: they
assume that there is no second one, for with two they are false, as
`lines_shared` shows. Then `state` is where the session is. `Stream` says, for
lines that fit, at which place of which line sent the command in the buffer ends
and what is pending begins; `Flow` says, for lines of any length, that the
characters of the commands returned, of the buffer and of what is pending are
those sent, and that what is pending has its line ends in pairs (`Paired`), of
which the parser may have read the first half. Concatenations of any length are
reasoned about by induction over the length (`SetInduction`).

**PopSession.** The properties are inductive with two things added: nothing is
marked before the list is read and nothing removed before QUIT (`BoxKept`), and
what the counters and the plugin's notice are in each state (`Books`). Every
command is one of two steps, `AuthStep` and `TransStep`, which say no more of it
than the invariant and `Maildrop` can tell; one lemma per group of commands
shows it. `SessionRefinesMaildrop` maps each such step to a step of `Maildrop`
or to none: the automaton's last step, for example, is `Close` from the UPDATE
phase and nothing from an error.

**DPipe.** `PipeInv` follows the descriptors and the message. `DaemonHas` says
which ends the daemon has open by where the call is, `FilterHas` that a filter
at work has its own two, whatever else it has inherited. `Kept` says that what
has left one counter (the session, the first pipe, the filter, the second pipe)
is in the next, and what is over when a filter sees the end of its input and the
session the end of the answer. `NoLeak` is read from the first, `Filtered` from
the last; `FilterHas` is what makes a filter see no end too early.

These theorems are in `ThreadPool_proofs`, next to those about the threads whose
sessions make the calls; the definitions of `DPipe` that go by common names begin
with `Pipe` or `pipe` there.

**StringHack, Delivery.** `dothack` is a search and a replacement, and what it
makes of a piece depends on the four characters it kept of the piece before. The
proof goes by bytes: `Stuff`, the stuffing of a whole message, adds the dots that
`Bits` says, and `StuffAppend` is what one byte more comes to: itself, or a dot
and itself. Across a cut `dothack` looks at what it kept together with the first
three characters of the piece (`ThreeMore`); from there on the piece is a message
of its own (`StuffOn`). `StuffPieces` puts both together: what `dothack` makes of
a piece, after the last characters of what the pieces before it were stuffed to,
continues that stuffing. It holds where a cut is "fine" (`FineCut`), for at the
others are the counterexamples above.

`SendInv` ties what `senddata` has left to send to what the client has got, and
the pieces to come to the message. `AnswerInv` says what was told: nothing, the
reply line, the reply line and the stuffing of what has been taken so far
(`Telling`), or all of an answer and its end (`Complete`). Then `SuccessMeansSent`
is about `SendInv` alone. `InStep` needs that a stuffed message holds no line of a
single dot (`StuffedClear`, by induction, byte by byte) and that the end of an
answer is one (`EndsThere`). `DeliveredWhole` needs that taking the dots away gives
the message back (`UnstuffedStuff`), again by induction over the bytes: what the
client makes of a byte more is that byte, as long as it is a dot or not which was
added or not (`Pending`, `Restored`).

`TopEnough` is about what `tophack` counts. `Counted` is the number of line ends
of the message that lie between two places, and `Inside` says that a piece is a
stretch of the message; a piece's `Lines` are then a count of the message
(`LinesInside`), counts add up, but for a line end that a cut goes through, which
is missed (`CountedSum`). So `TopInv` bounds `current_lines` from above: once the
header is over, `tophack` has seen at least as many lines of the body as it
thinks (`Counts`). That is what keeps it from stopping too early, and it needs the correction
`tophack` makes when the blank line crosses a cut (`CutCounted`; `InsideCounted`
is the case of a blank line inside a piece). Where `tophack` cuts the piece that
went too far, it leaves what was asked for: `CutLate` counts from the end of the
piece, and `CutBlank` says how far back TOP 0 may go, to the blank line. `CutsEnough` puts them together and is the part of `AnswerInv`
(`Enough`) that `TopEnough` is read from.

**PopForward.** `ForwardInv` ties together the client, the plugin and the other
server. `Plans` and `Calls` say which commands to the other server a command of
the client may come to, and when; `Wire`, what may be on the connection: of a
client that is served the current command or its answer, of one that is not at
most the plugin's own QUIT. Hence `InStep`. `Marks` says that the marks over there
are the messages whose DELE was answered, but while an answer is on its way, and
from there on (`Gone`) what is removed. `Agree` and `Stat` keep the states of the
two servers and the number of messages together. A step of the plugin has one of
four outcomes (`Outcome`: it stops, skips what is left of an answer, succeeds, or
goes on to its next command); a lemma per command shows which, and one per
outcome that it keeps the invariant.

**Daemon.** `MutexHeld` says that the mutex of a log is held by the one thread or
handler that is inside; `ClosedBy`, that a log is closed only by a handler that
has `log_end` behind it and keeps the mutex, so that nobody is inside after it.
`Counted` bounds the counters by the sessions that are over, good ones and bad
ones, and those that have been counted as bad and are not (`Bad`, `BadIsOpen`), so
a lost increment makes a counter too small and nothing makes it too large.
`PidInv` holds as long as no two processes have overlapped: one is alive, the
pid file it has open is the one there is, and if it has written its pid that is
what is in it until it gets a signal (`PidOf`).

**Mlex.** That the tokens are the page is a fact about a recursive function over
the places of a page. `FixedPoint` shows that there is a function with its
defining equation, `Backwards` is the induction, from the last place to the
first, and `Cut` what is shown of each place: the tokens from there on cover the
page from there on. `MlexInv` is about the search. The tokens matched so far match
the page (`Goes`), the stack has the optional ones among them, each with what the
search was like when it came to it (`OnStack`), and every match that begins at
this place either continues the path or is less preferred than any that does
(`Complete`): that is why backtracking to the top of the stack loses nothing.
`KeptAsMatched` counts the tokens of a row by induction.

| theorem | says |
|---|---|
| `PoolInvariant`, `TypeCorrect` | the strengthening and the types of the pool |
| `SlotsAreHeld`, `PoolIsBounded` | `SlotHeld`, `PoolBound`, on any heap |
| `AnnouncementsAreExact`, `HandlesAreNotNull` | `AnnouncedExactly`, `NoNullHandle`, on a heap that keeps nothing |
| `MailboxInvariant`, `TypeCorrect` | the strengthening and the types of store and sessions |
| `NodesAreOwned`, `EntriesGetFilled`, `NoLockIsStuck`, `LocksKeepOut` | `NodesOwned`, `FilledUnlessSaving`, `NoStuckLock`, `LockKeepsOut` |
| `LineInvariant`, `BuffersInBounds` | the strengthening; types and bounds of the buffers, for any number of sessions |
| `CommandsAreLines`, `NoCharacterIsLost` | `RecordsAreLines`, `NoCharLost`, for one session |
| `SessionInvariant`, `TypeCorrect` | the strengthening and the types of a session |
| `EngineIsReady`, `PluginsAreTold`, `SessionsAreCounted` | `LuaReady`, `PluginTold`, `SessionCounted` |
| `SessionRefinesMaildrop` | `RefinesMaildrop`: the session implements `Maildrop` |
| `PipeInvariant`, `PipeTypeCorrect` | the strengthening and the types of the pipes |
| `FilteredWhole`, `NothingLeaks` | `Filtered`, `NoLeak` |
| `DeliveryInvariant`, `TypeCorrect` | the strengthening: what was told, sent, taken and counted; the types |
| `SentToTheEnd`, `BothAgree`, `MessageDelivered`, `EnoughIsSent` | `SuccessMeansSent`, `InStep`, `DeliveredWhole`, `TopEnough` |
| `ForwardInvariant`, `TypeCorrect` | the strengthening and the types of a forwarded session |
| `RemovalIsHonest`, `AnswersStayInStep`, `CutsEndTheSession`, `OnlyItsOwnIsFreed` | `RemovedHonestly`, `InStep`, `CutEndsSession`, `FreesItsOwn` |
| `DaemonInvariant`, `TypeCorrect` | the strengthening; `TypeOK`: types, and the log's mutex |
| `NothingIsLoggedAfterEnd`, `KillFindsTheDaemon`, `BooksAreHonest` | `NoLineAfterEnd`, `KillFindsIt`, `Books` |
| `MlexInvariant`, `TypeCorrect` | the strengthening and the types of the search |
| `TokensAreRight`, `AnswersAreRight`, `KeptAsMatched` | `TokensAreThePage`, `AnswersAreMatches`, `RowsAreKept` |

The types of the pool, of the session store, of the answer, of the pipes, of the
forwarded session and of the search are proved, and no run checks them again.

What stays with TLC:

- liveness, as fairness is beyond the prover: `AcceptLoopReturns`,
  `CleanReclaims`, `EndsUnlessServing`, `Answered`, `SignalEnds`, `SessionReturns`,
  `Terminates`;
- the violated properties, which are counterexamples.

## 5. Where the code and its documentation disagree

Each of these is a run that TLC finds violated, and an entry of `findings`.

- `mailbox_use_after_free`: `session.c` follows the `data_t` after the mutex is
  released, against the warning in `dictionary.h:28`.
- `lines_shared`: while one thread has read a carriage return, the next
  character of another thread is taken for what follows it, and lost.
- `forward_loss`: `popforward.lua:237` says of `quit` "Must quit without
  updating"; it sends QUIT, and the other server updates.

Seen while modelling, without a run of their own:

- `dothack` does not stuff every line of a single dot: `lstringhack.c:70` says
  "even if fragmented between two subsequest calls", and `common.lua:27` "dothack
  simply does a 'sed s/^\.$/../'", but of two such lines with a
  cut in the second the second is left as it is, and pieces of one or two bytes
  are looked at together with memory that is not theirs. `InStep`,
  `DeliveredWhole` and `TopEnough` hold for the pieces they call fine, and fail
  for the others.
- A TOP may be answered `+OK` with fewer lines than asked for (`StoppedShort`).
- `thread_die` may read through NULL (`DieFaults`), and `popserver_start` uses a
  connection that `accept` failed to give; `threads.h:12` says of the functions
  "NOT thread safe (should be??)".
- A bad session may be counted twice.
- A daemon whose pid file could not be created serves without, and `--kill` then
  signals whichever process the file that is there names.
- A session forwarded to a server that falls silent never ends.
- `thread_die` reads the handle of a slot that `pthread_create` has not written
  yet. If that memory still shows an identifier that is in use again
  (`HeapKeepsData = TRUE` violates `AnnouncedExactly`), the dying thread marks
  the new thread's slot, and not its own, which is never given back.
- `dictionary_add` without `op` never overwrites, so `session.OVERWRITE` has no
  effect, though `dictionary.h:62` says that add overwrites.
- The plugins unlock by key: a session that was refused unlocks the one that
  made it be refused (`libero.lua:373`), and a third one may resume it.
- Two clients that log in before a session has been saved both get in, though
  `hotmail.lua:1443` wants "to prevent multiple sessions for a given account".
- RETR is answered `+OK` before the plugin has the message.
- A second USER leaves the first one's Lua state to nobody (`engine.c:239`).
- What the sections on `Delivery`, `DPipe`, `Daemon` and `Mlex` list above.

## 6. Not modelled

- The other webmail and news plugins: the protocol of `libero.lua` around other
  pages, or none. Their code is the structure of websites that no longer exist.
- The browser, the updater, MIME, base64 and hashes, Lua boxes and call helpers,
  `list.c` (used as a function from keys), the command line, the argument checks
  of bindings: text in and out, or a stack discipline of one thread, without a
  state that outlives a call.
- `lock.c`, which nothing in the repository calls.
- The Windows tray and service, and vendored code.

Of the 24556 lines of C in the repository some 12000 are vendored (`regex`,
`getopt`), which this development uses as an external function (what a pattern
matches) and does not model; most of the remaining unmapped C is headers,
Windows interface, argument parsing and bindings, while the plugins, where much
of the logic is, are Lua.

What would come next: `ThreadPool` with `PopSession` sessions, whose composition
is now only through the assumption that a session ends (`EndsUnlessServing`).
